--------------------------- MODULE InviteesProofs ---------------------------
(***************************************************************************)
(* Theorems about Invitees for any addresses, handlers and limits, and     *)
(* about the walk for every list and every request.                        *)
(***************************************************************************)
EXTENDS Invitees, Counting, SequenceTheorems

-----------------------------------------------------------------------------
(* The walk, step by step                                                  *)

Begun(emails) == [refused |-> FALSE, today |-> 0, emails |-> emails, list |-> <<>>]

AreTurns(f, list, emails, now) ==
  /\ f[0] = Begun(emails)
  /\ \A k \in 1..Len(list) : f[k] = Visit(f[k - 1], list[k], now)
  /\ Walk(list, emails, now) = f[Len(list)]

\* There are the turns the recursive function speaks of.
LEMMA WalkTurns ==
  ASSUME NEW list \in Lists, NEW emails, NEW now
  PROVE  \E f : AreTurns(f, list, emails, now)
<1> DEFINE Turn(f, k) == IF k = 0 THEN Begun(emails) ELSE Visit(f[k - 1], list[k], now)
           Turns(f, n) == f = [k \in 0..n |-> Turn(f, k)]
           T == {n \in Nat : \E f : Turns(f, n)}
<1>1. 0 \in T
  <2> DEFINE f == [k \in 0..0 |-> Begun(emails)]
  <2>1. Turns(f, 0)
    OBVIOUS
  <2> QED
    BY <2>1
<1>2. ASSUME NEW n \in Nat, n \in T
      PROVE  n + 1 \in T
  <2>1. PICK f : Turns(f, n)
    BY <1>2
  <2> DEFINE g == [k \in 0..(n + 1) |-> Turn(f, k)]
  <2>2. \A k \in 0..n : f[k] = Turn(f, k)
    BY <2>1
  <2>3. \A k \in 0..n : g[k] = f[k]
    BY <2>2
  <2>4. \A k \in 0..(n + 1) : Turn(g, k) = Turn(f, k)
    <3>1. \A k \in 0..(n + 1) : k = 0 \/ k - 1 \in 0..n
      OBVIOUS
    <3> HIDE DEF g
    <3>2. \A k \in 0..(n + 1) : k = 0 \/ g[k - 1] = f[k - 1]
      BY <3>1, <2>3
    <3> QED
      BY <3>2
  <2>5. Turns(g, n + 1)
    <3>1. g = [k \in 0..(n + 1) |-> Turn(f, k)]
      OBVIOUS
    <3> HIDE DEF g, Turn
    <3>2. [k \in 0..(n + 1) |-> Turn(f, k)] = [k \in 0..(n + 1) |-> Turn(g, k)]
      BY <2>4
    <3> QED
      BY <3>1, <3>2
  <2> HIDE DEF g, Turns
  <2> QED
    BY <2>5
<1> HIDE DEF T
<1>3. Len(list) \in Nat
  BY LenProperties DEF Lists
<1>4. Len(list) \in T
  BY <1>1, <1>2, <1>3, SetInduction
<1> DEFINE walk == CHOOSE f : Turns(f, Len(list))
<1>5. Turns(walk, Len(list))
  BY <1>4 DEF T
<1>6. Walk(list, emails, now) = walk[Len(list)]
  BY DEF Walk, Begun
<1> HIDE DEF walk
<1>7. \A k \in 0..Len(list) : walk[k] = Turn(walk, k)
  BY <1>5
<1>8. walk[0] = Begun(emails) /\ \A k \in 1..Len(list) : walk[k] = Visit(walk[k - 1], list[k], now)
  BY <1>3, <1>7
<1> QED
  BY <1>6, <1>8 DEF AreTurns

-----------------------------------------------------------------------------
(* Addresses that are taken out                                            *)

Places(emails, x) == {k \in DOMAIN emails : emails[k] = x}

LEMMA OccursType ==
  ASSUME NEW emails \in Seq(Emails), NEW x
  PROVE  /\ Occurs(emails, x) = Cardinality(Places(emails, x))
         /\ Occurs(emails, x) \in Nat
         /\ Places(emails, x) \in SUBSET (1..Len(emails))
         /\ Occurs(emails, x) > 0 <=> Contains(emails, x)
<1>1. Len(emails) \in Nat /\ DOMAIN emails = 1..Len(emails)
  BY LenProperties
<1>2. Places(emails, x) \in SUBSET (1..Len(emails))
  BY <1>1 DEF Places
<1>3. Occurs(emails, x) = Cardinality(Places(emails, x))
  BY DEF Occurs, Count, Places
<1>4. Occurs(emails, x) \in Nat /\ IsFiniteSet(Places(emails, x))
  BY <1>1, <1>2, <1>3, UptoAll
<1>5. Places(emails, x) # {} <=> Contains(emails, x)
  BY <1>1 DEF Places, Contains
<1>6. Occurs(emails, x) = 0 <=> Places(emails, x) = {}
  BY <1>3, <1>4, FS_EmptySet
<1> QED
  BY <1>2, <1>3, <1>4, <1>5, <1>6

\* The list without the address in a place of it.
Removed(s, p, r) ==
  /\ Len(r) = Len(s) - 1
  /\ \A k \in 1..(Len(s) - 1) : r[k] = IF k < p THEN s[k] ELSE s[k + 1]

LEMMA OccursRemoved ==
  ASSUME NEW s \in Seq(Emails), NEW r \in Seq(Emails), NEW p \in 1..Len(s), Removed(s, p, r), NEW x
  PROVE  Occurs(r, x) = IF x = s[p] THEN Occurs(s, x) - 1 ELSE Occurs(s, x)
<1>1. Len(s) \in Nat /\ DOMAIN s = 1..Len(s) /\ DOMAIN r = 1..(Len(s) - 1)
  BY LenProperties DEF Removed
<1>2. \A k \in 1..(Len(s) - 1) : k \in Places(r, x) <=> (IF k < p THEN k ELSE k + 1) \in Places(s, x)
  BY <1>1 DEF Places, Removed
<1>3. Places(r, x) \in SUBSET (1..(Len(s) - 1)) /\ Places(s, x) \in SUBSET (1..Len(s))
  BY <1>1 DEF Places
<1>4. p \in Places(s, x) <=> x = s[p]
  BY <1>1 DEF Places
<1>5. Cardinality(Places(r, x))
        = IF p \in Places(s, x) THEN Cardinality(Places(s, x)) - 1 ELSE Cardinality(Places(s, x))
  <2> DEFINE A == Places(s, x)
             B == Places(r, x)
             n == Len(s)
  <2>1. /\ n \in Nat /\ p \in 1..n /\ A \in SUBSET (1..n) /\ B \in SUBSET (1..(n - 1))
        /\ \A k \in 1..(n - 1) : k \in B <=> (IF k < p THEN k ELSE k + 1) \in A
    BY <1>1, <1>2, <1>3
  <2> HIDE DEF A, B, n
  <2>2. Cardinality(B) = IF p \in A THEN Cardinality(A) - 1 ELSE Cardinality(A)
    BY <2>1, WithoutCount
  <2> QED
    BY <2>2 DEF A, B
<1> QED
  BY <1>4, <1>5, OccursType

LEMMA RemoveFirstRemoves ==
  ASSUME NEW s \in Seq(Emails), NEW e, Contains(s, e)
  PROVE  /\ RemoveFirst(s, e) \in Seq(Emails)
         /\ \E p \in 1..Len(s) : s[p] = e /\ Removed(s, p, RemoveFirst(s, e))
<1>1. Len(s) \in Nat /\ \A k \in 1..Len(s) : s[k] \in Emails
  BY LenProperties, ElementOfSeq
<1> DEFINE I == {i \in 1..Len(s) : s[i] = e}
           p == Min(I)
<1>2. p \in I
  <2>1. I # {} /\ I \in SUBSET Nat
    BY <1>1 DEF Contains
  <2>2. \E m \in I : \A n \in I : m <= n
    BY <2>1, LeastNatural
  <2> QED
    BY <2>2 DEF Min
<1>3. SelectInSeq(s, LAMBDA v : v = e) = p
  BY <1>2 DEF SelectInSeq
<1> HIDE DEF p
<1>4. p \in 1..Len(s) /\ s[p] = e
  BY <1>2
<1> HIDE DEF I
<1> DEFINE a == SubSeq(s, 1, p - 1)
           b == SubSeq(s, p + 1, Len(s))
<1>5. RemoveFirst(s, e) = a \o b
  BY <1>3, <1>4 DEF RemoveFirst, RemoveAt
<1>6. /\ a \in Seq(Emails) /\ Len(a) = p - 1
      /\ \A i \in 1..(p - 1) : a[i] = s[i]
  <2>1. \A i \in 1..(p - 1) : s[i] \in Emails
    BY <1>1, <1>4
  <2>2. p - 1 \in Int /\ 1 \in Int
    BY <1>1, <1>4
  <2>3. /\ a \in Seq(Emails)
        /\ Len(a) = IF 1 <= p - 1 THEN (p - 1) - 1 + 1 ELSE 0
        /\ \A i \in 1..((p - 1) - 1 + 1) : a[i] = s[1 + i - 1]
    BY <2>1, <2>2, SubSeqProperties
  <2> HIDE DEF a
  <2> QED
    BY <2>3, <1>1, <1>4
<1>7. /\ b \in Seq(Emails) /\ Len(b) = Len(s) - p
      /\ \A i \in 1..(Len(s) - p) : b[i] = s[p + i]
  <2>1. \A i \in (p + 1)..Len(s) : s[i] \in Emails
    BY <1>1, <1>4
  <2>2. p + 1 \in Int /\ Len(s) \in Int
    BY <1>1, <1>4
  <2>3. /\ b \in Seq(Emails)
        /\ Len(b) = IF p + 1 <= Len(s) THEN Len(s) - (p + 1) + 1 ELSE 0
        /\ \A i \in 1..(Len(s) - (p + 1) + 1) : b[i] = s[(p + 1) + i - 1]
    BY <2>1, <2>2, SubSeqProperties
  <2> HIDE DEF b
  <2>4. Len(b) = Len(s) - p
    BY <2>3, <1>1, <1>4
  <2>5. \A i \in 1..(Len(s) - p) : i \in 1..(Len(s) - (p + 1) + 1) /\ (p + 1) + i - 1 = p + i
    BY <1>1, <1>4
  <2> QED
    BY <2>3, <2>4, <2>5
<1> HIDE DEF a, b
<1>8. /\ a \o b \in Seq(Emails)
      /\ Len(a \o b) = Len(a) + Len(b)
      /\ \A i \in 1..(Len(a) + Len(b)) : (a \o b)[i] = IF i <= Len(a) THEN a[i] ELSE b[i - Len(a)]
  BY <1>6, <1>7, ConcatProperties
<1>9. Removed(s, p, a \o b)
  <2>1. Len(a \o b) = Len(s) - 1
    BY <1>1, <1>4, <1>6, <1>7, <1>8
  <2>2. ASSUME NEW k \in 1..(Len(s) - 1)
        PROVE  (a \o b)[k] = IF k < p THEN s[k] ELSE s[k + 1]
    <3>1. CASE k < p
      <4>1. k \in 1..(Len(a) + Len(b)) /\ k <= Len(a) /\ k \in 1..(p - 1)
        BY <3>1, <1>1, <1>4, <1>6, <1>7
      <4> QED
        BY <3>1, <4>1, <1>6, <1>8
    <3>2. CASE ~(k < p)
      <4>1. /\ k \in 1..(Len(a) + Len(b)) /\ ~(k <= Len(a))
            /\ k - Len(a) \in 1..(Len(s) - p) /\ p + (k - Len(a)) = k + 1
        BY <3>2, <1>1, <1>4, <1>6, <1>7
      <4> QED
        BY <3>2, <4>1, <1>7, <1>8
    <3> QED
      BY <3>1, <3>2
  <2> QED
    BY <2>1, <2>2 DEF Removed
<1> QED
  BY <1>4, <1>5, <1>8, <1>9

LEMMA OccursRemoveFirst ==
  ASSUME NEW s \in Seq(Emails), NEW e
  PROVE  LET r == RemoveFirst(s, e) IN
         /\ r \in Seq(Emails)
         /\ Len(r) = IF Contains(s, e) THEN Len(s) - 1 ELSE Len(s)
         /\ \A x : Occurs(r, x) = IF Contains(s, e) /\ x = e THEN Occurs(s, x) - 1 ELSE Occurs(s, x)
<1>1. CASE Contains(s, e)
  <2> DEFINE r == RemoveFirst(s, e)
  <2>1. r \in Seq(Emails)
    BY <1>1, RemoveFirstRemoves
  <2>2. PICK p \in 1..Len(s) : s[p] = e /\ Removed(s, p, r)
    BY <1>1, RemoveFirstRemoves
  <2> HIDE DEF r
  <2>3. \A x : Occurs(r, x) = IF x = e THEN Occurs(s, x) - 1 ELSE Occurs(s, x)
    BY <2>1, <2>2, OccursRemoved
  <2>4. Len(r) = Len(s) - 1
    BY <2>2 DEF Removed
  <2> QED
    BY <1>1, <2>1, <2>3, <2>4 DEF r
<1>2. CASE ~Contains(s, e)
  <2>1. RemoveFirst(s, e) = s
    BY <1>2 DEF RemoveFirst, Contains
  <2> QED
    BY <1>2, <2>1
<1> QED
  BY <1>1, <1>2

LEMMA OccursTail ==
  ASSUME NEW s \in Seq(Emails), s # <<>>
  PROVE  /\ Head(s) \in Emails /\ Tail(s) \in Seq(Emails)
         /\ \A x : Occurs(Tail(s), x) = IF x = Head(s) THEN Occurs(s, x) - 1 ELSE Occurs(s, x)
<1>1. Len(s) \in Nat \ {0} /\ Head(s) = s[1]
  BY EmptySeq DEF Head
<1>2. /\ Head(s) \in Emails /\ Tail(s) \in Seq(Emails) /\ Len(Tail(s)) = Len(s) - 1
      /\ \A i \in 1..Len(Tail(s)) : Tail(s)[i] = s[i + 1]
  BY HeadTailProperties
<1>3. Removed(s, 1, Tail(s))
  BY <1>1, <1>2 DEF Removed
<1>4. 1 \in 1..Len(s)
  BY <1>1
<1>5. \A x : Occurs(Tail(s), x) = IF x = s[1] THEN Occurs(s, x) - 1 ELSE Occurs(s, x)
  <2> DEFINE r == Tail(s)
  <2>1. r \in Seq(Emails) /\ Removed(s, 1, r)
    BY <1>2, <1>3
  <2> HIDE DEF r
  <2>2. \A x : Occurs(r, x) = IF x = s[1] THEN Occurs(s, x) - 1 ELSE Occurs(s, x)
    BY <2>1, <1>4, OccursRemoved
  <2> QED
    BY <2>2 DEF r
<1> QED
  BY <1>1, <1>2, <1>5

-----------------------------------------------------------------------------
(* What a turn does                                                        *)

Walks == [refused : BOOLEAN, today : Nat, emails : Seq(Emails), list : Lists]

LEMMA EntryTypes ==
  ASSUME NEW v \in Entries, NEW now \in Nat
  PROVE  /\ v.email \in Emails /\ v.at \in Nat /\ v.attempts \in Nat /\ Small(v.email) \in Emails
         /\ InvitedAgain(v, now) \in Entries
         /\ InvitedAgain(v, now).email = v.email
         /\ InvitedAgain(v, now).at = now
         /\ InvitedAgain(v, now).attempts = v.attempts + 1
         /\ Recent(InvitedAgain(v, now), now)
<1>1. v.email \in Emails /\ v.at \in Nat /\ v.attempts \in Nat
  BY DEF Entries
<1>2. InvitedAgain(v, now) = [email |-> v.email, at |-> now, attempts |-> v.attempts + 1]
  <2> DEFINE n == v.attempts + 1
  <2>1. InvitedAgain(v, now) = [v EXCEPT !.attempts = n, !.at = now]
    BY DEF InvitedAgain
  <2>2. v = [email |-> v.email, at |-> v.at, attempts |-> v.attempts]
    BY DEF Entries
  <2> HIDE DEF n
  <2>3. InvitedAgain(v, now) = [email |-> v.email, at |-> now, attempts |-> n]
    BY <2>1, <2>2
  <2> QED
    BY <2>3 DEF n
<1>3. Day \in Nat \ {0} /\ Small(v.email) \in Emails
  BY <1>1, InviteConstants
<1> QED
  BY <1>1, <1>2, <1>3 DEF Entries, Recent

LEMMA VisitTurn ==
  ASSUME NEW s \in Walks, NEW v \in Entries, NEW now \in Nat
  PROVE  LET found == Contains(s.emails, Small(v.email))
             today == IF Recent(v, now) THEN s.today + 1 ELSE s.today
             ends  == \/ s.refused
                      \/ Recent(v, now) /\ (found \/ today >= PerDay)
                      \/ found /\ v.attempts >= MaxAttempts
             r     == Visit(s, v, now)
         IN /\ r \in Walks
            /\ r.refused <=> ends
            /\ ~ends => /\ r.today  = today
                        /\ r.emails = RemoveFirst(s.emails, Small(v.email))
                        /\ r.list   = Append(s.list, IF found THEN InvitedAgain(v, now) ELSE v)
<1> DEFINE found == Contains(s.emails, Small(v.email))
           today == IF Recent(v, now) THEN s.today + 1 ELSE s.today
           ends  == \/ s.refused
                    \/ Recent(v, now) /\ (found \/ today >= PerDay)
                    \/ found /\ v.attempts >= MaxAttempts
           rest  == RemoveFirst(s.emails, Small(v.email))
           entry == IF found THEN InvitedAgain(v, now) ELSE v
           list  == Append(s.list, entry)
           r     == Visit(s, v, now)
<1>1. s.refused \in BOOLEAN /\ s.today \in Nat /\ s.emails \in Seq(Emails) /\ s.list \in Seq(Entries)
  BY DEF Walks, Lists
<1>2. entry \in Entries
  BY EntryTypes
<1>3. list \in Lists
  BY <1>1, <1>2, AppendProperties DEF Lists
<1>4. rest \in Seq(Emails)
  BY <1>1, OccursRemoveFirst
<1>5. today \in Nat
  BY <1>1
<1>6. s = [refused |-> s.refused, today |-> s.today, emails |-> s.emails, list |-> s.list]
  BY DEF Walks
<1>7. r = IF ends THEN [s EXCEPT !.refused = TRUE]
          ELSE [s EXCEPT !.today = today, !.emails = rest, !.list = list]
  BY DEF Visit
<1> HIDE DEF found, today, rest, entry, list, r
<1>8. CASE ends
  <2>1. r = [refused |-> TRUE, today |-> s.today, emails |-> s.emails, list |-> s.list]
    BY <1>6, <1>7, <1>8
  <2>2. r \in Walks /\ r.refused
    BY <1>1, <2>1 DEF Walks, Lists
  <2> QED
    BY <1>8, <2>2 DEF found, today, r
<1>9. CASE ~ends
  <2>1. r = [refused |-> s.refused, today |-> today, emails |-> rest, list |-> list]
    <3> HIDE DEF ends
    <3> QED
      BY <1>6, <1>7, <1>9
  <2>2. r \in Walks /\ ~r.refused /\ r.today = today /\ r.emails = rest /\ r.list = list
    BY <1>1, <1>3, <1>4, <1>5, <1>9, <2>1 DEF Walks
  <2> QED
    BY <1>9, <2>2 DEF found, today, rest, entry, list, r
<1> QED
  BY <1>8, <1>9

-----------------------------------------------------------------------------
(* The invariant of the loop                                               *)

Alike(list, x) == {j \in DOMAIN list : Small(list[j].email) = x}

Fresh(list, now) == {j \in DOMAIN list : Recent(list[j], now)}

\* The entry at j meets an address of the request: there are not more entries
\* of its address up to j than addresses.
Meets(list, emails, j) ==
  Upto(Alike(list, Small(list[j].email)), j) <= Occurs(emails, Small(list[j].email))

Meeting(list, emails) == {j \in DOMAIN list : Meets(list, emails, j)}

Spent(v, now) == Recent(v, now) \/ v.attempts >= MaxAttempts

Left(n, m) == IF n > m THEN n - m ELSE 0

WalkInv(list, emails, now, k, s) ==
  /\ s \in Walks
  /\ s.refused <=> \/ Upto(Fresh(list, now), k) >= PerDay
                   \/ \E j \in 1..k : Meets(list, emails, j) /\ Spent(list[j], now)
  /\ ~s.refused =>
       /\ s.today = Upto(Fresh(list, now), k)
       /\ Len(s.list) = k
       /\ \A j \in 1..k :
            s.list[j] = IF Meets(list, emails, j) THEN InvitedAgain(list[j], now) ELSE list[j]
       /\ Len(s.emails) + Upto(Meeting(list, emails), k) = Len(emails)
       /\ \A x \in Emails : Occurs(s.emails, x) = Left(Occurs(emails, x), Upto(Alike(list, x), k))

LEMMA WalkInvInit ==
  ASSUME NEW list \in Lists, NEW emails \in Seq(Emails), NEW now \in Nat
  PROVE  WalkInv(list, emails, now, 0, Begun(emails))
<1> DEFINE s == Begun(emails)
<1>1. PerDay \in Nat \ {0}
  BY InviteConstants
<1>2. s \in Walks /\ s.refused = FALSE /\ s.today = 0 /\ s.emails = emails /\ s.list = <<>>
  BY EmptySeq DEF Begun, Walks, Lists
<1>3. Len(s.list) = 0 /\ Len(emails) \in Nat
  BY <1>2, EmptySeq, LenProperties
<1>4. \A x \in Emails : Left(Occurs(emails, x), 0) = Occurs(emails, x)
  BY OccursType DEF Left
<1> HIDE DEF s
<1> QED
  BY <1>1, <1>2, <1>3, <1>4, UptoZero DEF WalkInv, s

LEMMA WalkInvNext ==
  ASSUME NEW list \in Lists, NEW emails \in Seq(Emails), NEW now \in Nat,
         NEW k \in Nat, k + 1 \in 1..Len(list), NEW s, WalkInv(list, emails, now, k, s)
  PROVE  WalkInv(list, emails, now, k + 1, Visit(s, list[k + 1], now))
<1> DEFINE v     == list[k + 1]
           e     == Small(v.email)
           found == Contains(s.emails, e)
           today == IF Recent(v, now) THEN s.today + 1 ELSE s.today
           ends  == \/ s.refused
                    \/ Recent(v, now) /\ (found \/ today >= PerDay)
                    \/ found /\ v.attempts >= MaxAttempts
           r     == Visit(s, v, now)
           F     == Fresh(list, now)
           M     == Meeting(list, emails)
           n     == Upto(F, k)
           Hit(j) == Meets(list, emails, j) /\ Spent(list[j], now)
<1>1. Len(list) \in Nat /\ DOMAIN list = 1..Len(list) /\ v \in Entries
  BY LenProperties, ElementOfSeq DEF Lists
<1>2. e \in Emails
  BY <1>1, EntryTypes
<1>3. /\ s \in Walks
      /\ s.refused <=> (n >= PerDay \/ \E j \in 1..k : Hit(j))
      /\ ~s.refused => /\ s.today = n
                       /\ Len(s.list) = k
                       /\ \A j \in 1..k : s.list[j] = IF Meets(list, emails, j) THEN InvitedAgain(list[j], now) ELSE list[j]
                       /\ Len(s.emails) + Upto(M, k) = Len(emails)
                       /\ \A x \in Emails : Occurs(s.emails, x) = Left(Occurs(emails, x), Upto(Alike(list, x), k))
  BY DEF WalkInv
<1>4. s.refused \in BOOLEAN /\ s.emails \in Seq(Emails) /\ s.list \in Seq(Entries)
  BY <1>3 DEF Walks, Lists
<1>5. /\ r \in Walks
      /\ r.refused <=> ends
      /\ ~ends => /\ r.today  = today
                  /\ r.emails = RemoveFirst(s.emails, e)
                  /\ r.list   = Append(s.list, IF found THEN InvitedAgain(v, now) ELSE v)
  BY <1>1, <1>3, VisitTurn
<1>6. /\ n \in Nat /\ PerDay \in Nat \ {0}
      /\ Upto(F, k + 1) = IF Recent(v, now) THEN n + 1 ELSE n
  <2>1. k + 1 \in F <=> Recent(v, now)
    BY <1>1 DEF Fresh
  <2> QED
    BY <2>1, UptoType, UptoNext, InviteConstants
<1>7. ~s.refused => (found <=> Meets(list, emails, k + 1))
  <2> DEFINE A == Alike(list, e)
             a == Upto(A, k)
             o == Occurs(emails, e)
  <2>1. k + 1 \in A
    BY <1>1 DEF Alike
  <2>2. a \in Nat /\ o \in Nat /\ Upto(A, k + 1) = a + 1
    BY <2>1, UptoType, UptoNext, OccursType
  <2>3. Meets(list, emails, k + 1) <=> a + 1 <= o
    BY <2>2 DEF Meets
  <2>4. found <=> Occurs(s.emails, e) > 0
    BY <1>4, OccursType
  <2>5. ~s.refused => Occurs(s.emails, e) = Left(o, a)
    BY <1>2, <1>3
  <2> HIDE DEF A, a, o, found
  <2>6. Left(o, a) > 0 <=> a + 1 <= o
    BY <2>2 DEF Left
  <2> QED
    BY <2>3, <2>4, <2>5, <2>6
<1>8. (\E j \in 1..(k + 1) : Hit(j)) <=> (\E j \in 1..k : Hit(j)) \/ Hit(k + 1)
  <2> HIDE DEF Hit
  <2>1. \A j \in 1..(k + 1) : j \in 1..k \/ j = k + 1
    OBVIOUS
  <2>2. 1..k \subseteq 1..(k + 1) /\ k + 1 \in 1..(k + 1)
    OBVIOUS
  <2> QED
    BY <2>1, <2>2
<1>9. Hit(k + 1) <=> Meets(list, emails, k + 1) /\ (Recent(v, now) \/ v.attempts >= MaxAttempts)
  BY DEF Spent
<1> HIDE DEF v, e, found, r, F, M, n, Hit
<1>10. r.refused <=> (Upto(F, k + 1) >= PerDay \/ \E j \in 1..(k + 1) : Hit(j))
  <2>1. CASE s.refused
    <3>1. n >= PerDay => Upto(F, k + 1) >= PerDay
      BY <1>6
    <3> QED
      BY <2>1, <3>1, <1>3, <1>5, <1>8
  <2>2. CASE ~s.refused
    <3>1. ~(n >= PerDay) /\ ~(\E j \in 1..k : Hit(j)) /\ s.today = n
      BY <2>2, <1>3
    <3>2. Upto(F, k + 1) >= PerDay <=> Recent(v, now) /\ today >= PerDay
      BY <3>1, <1>6
    <3>3. ends <=> (Upto(F, k + 1) >= PerDay \/ Hit(k + 1))
      <4> HIDE DEF today
      <4> QED
        BY <2>2, <3>2, <1>7, <1>9
    <3> HIDE DEF ends
    <3> QED
      BY <3>1, <3>3, <1>5, <1>8
  <2> QED
    BY <2>1, <2>2
<1>11. ASSUME ~r.refused
       PROVE  /\ r.today = Upto(F, k + 1)
              /\ Len(r.list) = k + 1
              /\ \A j \in 1..(k + 1) :
                   r.list[j] = IF Meets(list, emails, j) THEN InvitedAgain(list[j], now) ELSE list[j]
              /\ Len(r.emails) + Upto(M, k + 1) = Len(emails)
              /\ \A x \in Emails : Occurs(r.emails, x) = Left(Occurs(emails, x), Upto(Alike(list, x), k + 1))
  <2> DEFINE entry == IF found THEN InvitedAgain(v, now) ELSE v
  <2>1. ~ends /\ ~s.refused
    BY <1>5, <1>11
  <2> HIDE DEF ends
  <2>2. /\ r.today  = today
        /\ r.emails = RemoveFirst(s.emails, e)
        /\ r.list   = Append(s.list, entry)
    BY <1>5, <2>1
  <2>3. r.today = Upto(F, k + 1)
    BY <1>3, <1>6, <2>1, <2>2
  <2>4. entry \in Entries
    BY <1>1, EntryTypes DEF v
  <2>5. /\ Len(r.list) = Len(s.list) + 1
        /\ \A j \in 1..Len(s.list) : r.list[j] = s.list[j]
        /\ r.list[Len(s.list) + 1] = entry
    <3> HIDE DEF entry
    <3> QED
      BY <1>4, <2>2, <2>4, AppendProperties
  <2>6. /\ Len(s.list) = k
        /\ \A j \in 1..k : s.list[j] = IF Meets(list, emails, j) THEN InvitedAgain(list[j], now) ELSE list[j]
    BY <1>3, <2>1
  <2>7. entry = IF Meets(list, emails, k + 1) THEN InvitedAgain(list[k + 1], now) ELSE list[k + 1]
    BY <1>7, <2>1 DEF v
  <2> HIDE DEF entry
  <2>8. ASSUME NEW j \in 1..(k + 1)
        PROVE  r.list[j] = IF Meets(list, emails, j) THEN InvitedAgain(list[j], now) ELSE list[j]
    <3>1. CASE j = k + 1
      BY <3>1, <2>5, <2>6, <2>7
    <3>2. CASE j # k + 1
      <4>1. j \in 1..k
        BY <3>2
      <4> QED
        BY <4>1, <2>5, <2>6
    <3> QED
      BY <3>1, <3>2
  <2>9. Len(r.emails) + Upto(M, k + 1) = Len(emails)
    <3>1. k + 1 \in M <=> found
      BY <1>1, <1>7, <2>1 DEF M, Meeting
    <3>2. Upto(M, k) \in Nat /\ Upto(M, k + 1) = IF found THEN Upto(M, k) + 1 ELSE Upto(M, k)
      BY <3>1, UptoType, UptoNext
    <3>3. Len(r.emails) = IF found THEN Len(s.emails) - 1 ELSE Len(s.emails)
      BY <2>2, <1>4, OccursRemoveFirst DEF found
    <3>4. Len(s.emails) \in Nat /\ Len(s.emails) + Upto(M, k) = Len(emails)
      BY <1>3, <1>4, <2>1, LenProperties
    <3> QED
      BY <3>2, <3>3, <3>4
  <2>10. ASSUME NEW x \in Emails
         PROVE  Occurs(r.emails, x) = Left(Occurs(emails, x), Upto(Alike(list, x), k + 1))
    <3> DEFINE a == Upto(Alike(list, x), k)
               o == Occurs(emails, x)
    <3>1. Occurs(s.emails, x) = Left(o, a)
      BY <1>3, <2>1
    <3>2. Occurs(r.emails, x) = IF found /\ x = e THEN Occurs(s.emails, x) - 1 ELSE Occurs(s.emails, x)
      BY <2>2, <1>4, OccursRemoveFirst DEF found
    <3>3. a \in Nat /\ o \in Nat /\ Upto(Alike(list, x), k + 1) = IF x = e THEN a + 1 ELSE a
      <4>1. k + 1 \in Alike(list, x) <=> x = e
        BY <1>1 DEF Alike, e, v
      <4> QED
        BY <4>1, UptoType, UptoNext, OccursType
    <3>4. x = e => (found <=> Occurs(s.emails, x) > 0)
      BY <1>4, OccursType DEF found
    <3> HIDE DEF a, o, found, e
    <3>5. x = e => Occurs(r.emails, x) = Left(o, a + 1)
      BY <3>1, <3>2, <3>3, <3>4 DEF Left
    <3>6. x # e => Occurs(r.emails, x) = Left(o, a)
      BY <3>1, <3>2
    <3>7. Occurs(r.emails, x) = Left(o, Upto(Alike(list, x), k + 1))
      BY <3>3, <3>5, <3>6
    <3> QED
      BY <3>7 DEF o
  <2> QED
    BY <2>3, <2>5, <2>6, <2>8, <2>9, <2>10
<1> QED
  BY <1>5, <1>10, <1>11 DEF WalkInv, r, F, M, n, Hit, v

LEMMA WalkEnds ==
  ASSUME NEW list \in Lists, NEW emails \in Seq(Emails), NEW now \in Nat
  PROVE  WalkInv(list, emails, now, Len(list), Walk(list, emails, now))
<1>1. Len(list) \in Nat
  BY LenProperties DEF Lists
<1>2. PICK f : AreTurns(f, list, emails, now)
  BY WalkTurns
<1>3. /\ f[0] = Begun(emails)
      /\ \A k \in 1..Len(list) : f[k] = Visit(f[k - 1], list[k], now)
      /\ Walk(list, emails, now) = f[Len(list)]
  BY <1>2 DEF AreTurns
<1> DEFINE P(k) == k <= Len(list) => WalkInv(list, emails, now, k, f[k])
           T == {k \in Nat : P(k)}
<1>4. 0 \in T
  BY <1>3, WalkInvInit
<1>5. ASSUME NEW k \in Nat, k \in T
      PROVE  k + 1 \in T
  <2> SUFFICES ASSUME k + 1 <= Len(list)
               PROVE  WalkInv(list, emails, now, k + 1, f[k + 1])
    OBVIOUS
  <2>1. k + 1 \in 1..Len(list) /\ k <= Len(list) /\ (k + 1) - 1 = k
    BY <1>1
  <2>2. WalkInv(list, emails, now, k, f[k])
    BY <1>5, <2>1
  <2>3. f[k + 1] = Visit(f[k], list[k + 1], now)
    <3>1. f[k + 1] = Visit(f[(k + 1) - 1], list[k + 1], now)
      BY <1>3, <2>1
    <3> QED
      BY <2>1, <3>1
  <2> QED
    BY <2>1, <2>2, <2>3, WalkInvNext
<1> HIDE DEF T
<1>6. Len(list) \in T
  BY <1>1, <1>4, <1>5, SetInduction
<1> QED
  BY <1>1, <1>3, <1>6 DEF T

-----------------------------------------------------------------------------
(* What the walk does, said without walking                                *)

LEMMA MetMeets ==
  ASSUME NEW list \in Lists, NEW emails, NEW k \in DOMAIN list
  PROVE  Met(list, emails, k) <=> Meets(list, emails, k)
<1> DEFINE l == SubSeq(list, 1, k)
           x == Small(list[k].email)
<1>1. Len(list) \in Nat /\ DOMAIN list = 1..Len(list) /\ list \in Seq(Entries)
  BY LenProperties DEF Lists
<1>2. k \in 1..Len(list) /\ k \in Nat /\ 1 \in Int /\ k \in Int
  BY <1>1
<1>3. \A i \in 1..k : list[i] \in Entries
  BY <1>1, <1>2, ElementOfSeq
<1>4. l \in Seq(Entries) /\ Len(l) = k /\ \A i \in 1..k : l[i] = list[i]
  <2>1. /\ l \in Seq(Entries)
        /\ Len(l) = IF 1 <= k THEN k - 1 + 1 ELSE 0
        /\ \A i \in 1..(k - 1 + 1) : l[i] = list[1 + i - 1]
    BY <1>2, <1>3, SubSeqProperties
  <2> HIDE DEF l
  <2>2. k - 1 + 1 = k /\ \A i \in 1..k : 1 + i - 1 = i
    BY <1>2
  <2> QED
    BY <1>2, <2>1, <2>2
<1> HIDE DEF l
<1>5. DOMAIN l = 1..k
  BY <1>4, LenProperties
<1>6. {j \in DOMAIN l : Small(l[j].email) = x} = Alike(list, x) \cap (1..k)
  BY <1>1, <1>2, <1>4, <1>5 DEF Alike
<1> QED
  BY <1>6 DEF Met, Meets, Count, Upto, l

LEMMA UnmetPlaces ==
  ASSUME NEW list, NEW emails \in Seq(Emails), NEW k \in DOMAIN emails
  PROVE  Unmet(list, emails, k)
           <=> Upto(Places(emails, emails[k]), k) > Cardinality(Alike(list, emails[k]))
<1> DEFINE l == SubSeq(emails, 1, k)
           x == emails[k]
<1>1. Len(emails) \in Nat /\ DOMAIN emails = 1..Len(emails)
  BY LenProperties
<1>2. k \in 1..Len(emails) /\ k \in Nat /\ 1 \in Int /\ k \in Int
  BY <1>1
<1>3. \A i \in 1..k : emails[i] \in Emails
  BY <1>1, <1>2, ElementOfSeq
<1>4. l \in Seq(Emails) /\ Len(l) = k /\ \A i \in 1..k : l[i] = emails[i]
  <2>1. /\ l \in Seq(Emails)
        /\ Len(l) = IF 1 <= k THEN k - 1 + 1 ELSE 0
        /\ \A i \in 1..(k - 1 + 1) : l[i] = emails[1 + i - 1]
    BY <1>2, <1>3, SubSeqProperties
  <2> HIDE DEF l
  <2>2. k - 1 + 1 = k /\ \A i \in 1..k : 1 + i - 1 = i
    BY <1>2
  <2> QED
    BY <1>2, <2>1, <2>2
<1> HIDE DEF l
<1>5. DOMAIN l = 1..k
  BY <1>4, LenProperties
<1>6. {j \in DOMAIN l : l[j] = x} = Places(emails, x) \cap (1..k)
  BY <1>1, <1>2, <1>4, <1>5 DEF Places
<1> QED
  BY <1>6 DEF Unmet, Count, Upto, Alike, l

\* The addresses a walk leaves are as many, of each, as meet no entry.
LEMMA UnmetCount ==
  ASSUME NEW list \in Lists, NEW emails \in Seq(Emails), NEW x \in Emails
  PROVE  Cardinality({k \in DOMAIN emails : emails[k] = x /\ Unmet(list, emails, k)})
           = Left(Occurs(emails, x), Upto(Alike(list, x), Len(list)))
<1> DEFINE n == Len(emails)
           m == Cardinality(Alike(list, x))
           P == Places(emails, x)
           B == Beyond(P, m)
<1>1. n \in Nat /\ DOMAIN emails = 1..n /\ Len(list) \in Nat /\ DOMAIN list = 1..Len(list)
  BY LenProperties DEF Lists
<1>2. Alike(list, x) \in SUBSET (1..Len(list))
  BY <1>1 DEF Alike
<1>3. m \in Nat /\ Upto(Alike(list, x), Len(list)) = m
  BY <1>1, <1>2, UptoAll
<1>4. P \in SUBSET (1..n) /\ Upto(P, n) = Occurs(emails, x)
  BY <1>1, OccursType, UptoAll
<1>5. B \in SUBSET (1..n)
  BY <1>4 DEF Beyond
<1>6. Cardinality(B) = Upto(B, n)
  BY <1>1, <1>5, UptoAll
<1>7. Upto(B, n) = Left(Upto(P, n), m)
  BY <1>1, <1>3, UptoBeyond DEF Left
<1>8. {k \in DOMAIN emails : emails[k] = x /\ Unmet(list, emails, k)} = B
  <2>1. \A k \in DOMAIN emails : emails[k] = x => (Unmet(list, emails, k) <=> Upto(P, k) > m)
    BY UnmetPlaces
  <2>2. \A k : k \in P <=> k \in DOMAIN emails /\ emails[k] = x
    BY DEF Places
  <2> HIDE DEF P, m
  <2> QED
    BY <2>1, <2>2 DEF Beyond
<1> QED
  BY <1>3, <1>4, <1>6, <1>7, <1>8

LEMMA InputTypes ==
  ASSUME NEW emails \in Inputs
  PROVE  emails \in Seq(Emails) /\ Len(emails) \in Nat /\ Len(emails) <= AtOnce
<1>1. PICK m \in 0..AtOnce : emails \in [1..m -> Emails]
  BY DEF Inputs, BoundedSeq, SeqOf
<1>2. AtOnce \in Nat
  BY InviteConstants
<1>3. m \in Nat /\ m <= AtOnce
  BY <1>2
<1>4. emails \in Seq(Emails) /\ Len(emails) = m
  BY <1>1, <1>3
<1> QED
  BY <1>3, <1>4

\* The walk does what WalkMeets says with every list and every request, not
\* only with those the program comes to.
THEOREM WalkMeetsAll ==
  ASSUME NEW list \in Lists, NEW emails \in Inputs, NEW now \in Nat
  PROVE  WalkMeets(list, emails, now)
<1> DEFINE s == Walk(list, emails, now)
           n == Len(list)
           M == {k \in DOMAIN list : Met(list, emails, k)}
           full    == Count(list, LAMBDA v : Recent(v, now)) >= PerDay
           refused == full \/ \E k \in M : Recent(list[k], now) \/ list[k].attempts >= MaxAttempts
<1>1. n \in Nat /\ DOMAIN list = 1..n /\ emails \in Seq(Emails) /\ DOMAIN emails = 1..Len(emails)
  BY InputTypes, LenProperties DEF Lists
<1>2. WalkInv(list, emails, now, n, s)
  BY <1>1, WalkEnds
<1>3. \A k \in 1..n : k \in M <=> Meets(list, emails, k)
  BY <1>1, MetMeets
<1>4. full <=> Upto(Fresh(list, now), n) >= PerDay
  <2>1. Fresh(list, now) \in SUBSET (1..n)
    BY <1>1 DEF Fresh
  <2>2. Upto(Fresh(list, now), n) = Cardinality(Fresh(list, now))
    BY <1>1, <2>1, UptoAll
  <2> QED
    BY <2>2 DEF Fresh, Count
<1> HIDE DEF full, s, n
<1>5. s.refused <=> refused
  <2>1. M \subseteq 1..n
    BY <1>1
  <2> HIDE DEF M
  <2>2. (\E k \in M : Recent(list[k], now) \/ list[k].attempts >= MaxAttempts)
          <=> (\E j \in 1..n : Meets(list, emails, j) /\ Spent(list[j], now))
    BY <1>3, <2>1 DEF Spent
  <2> QED
    BY <1>2, <1>4, <2>2 DEF WalkInv
<1> HIDE DEF M
<1>6. ASSUME ~refused
      PROVE  /\ s.list = [k \in DOMAIN list |-> IF k \in M THEN InvitedAgain(list[k], now) ELSE list[k]]
             /\ Len(s.emails) = Cardinality({k \in DOMAIN emails : Unmet(list, emails, k)})
             /\ \A e \in Emails : Occurs(s.emails, e)
                  = Cardinality({k \in DOMAIN emails : emails[k] = e /\ Unmet(list, emails, k)})
  <2> HIDE DEF refused
  <2>1. /\ s.list \in Seq(Entries) /\ s.emails \in Seq(Emails)
        /\ Len(s.list) = n
        /\ \A j \in 1..n : s.list[j] = IF Meets(list, emails, j) THEN InvitedAgain(list[j], now) ELSE list[j]
        /\ \A x \in Emails : Occurs(s.emails, x) = Left(Occurs(emails, x), Upto(Alike(list, x), n))
    BY <1>2, <1>5, <1>6 DEF WalkInv, Walks, Lists
  <2>2. s.list = [k \in DOMAIN list |-> IF k \in M THEN InvitedAgain(list[k], now) ELSE list[k]]
    <3> DEFINE l == s.list
    <3>1. l \in [1..n -> Entries]
      BY <2>1, LenProperties
    <3>2. \A k \in 1..n : l[k] = IF k \in M THEN InvitedAgain(list[k], now) ELSE list[k]
      BY <1>3, <2>1
    <3> HIDE DEF l
    <3>3. l = [k \in 1..n |-> l[k]]
      BY <3>1
    <3>4. l = [k \in 1..n |-> IF k \in M THEN InvitedAgain(list[k], now) ELSE list[k]]
      BY <3>2, <3>3
    <3> QED
      BY <1>1, <3>4 DEF l
  <2>3. \A e \in Emails : Occurs(s.emails, e)
          = Cardinality({k \in DOMAIN emails : emails[k] = e /\ Unmet(list, emails, k)})
    BY <1>1, <2>1, UnmetCount DEF n
  <2>4. Len(s.emails) = Cardinality({k \in DOMAIN emails : Unmet(list, emails, k)})
    <3> DEFINE r == s.emails
               A == DOMAIN r
               B == {k \in DOMAIN emails : Unmet(list, emails, k)}
    <3>1. Len(r) \in Nat /\ A = 1..Len(r) /\ Len(emails) \in Nat
      BY <1>1, <2>1, LenProperties
    <3>2. IsFiniteSet(A) /\ Cardinality(A) = Len(r)
      <4> DEFINE m == Len(r)
      <4>1. m \in Nat /\ A = 1..m
        BY <3>1
      <4> HIDE DEF m, A
      <4>2. IsFiniteSet(1..m) /\ Cardinality(1..m) = IF 1 > m THEN 0 ELSE m - 1 + 1
        BY <4>1, FS_Interval
      <4>3. IsFiniteSet(A) /\ Cardinality(A) = m
        BY <4>1, <4>2
      <4> QED
        BY <4>3 DEF m
    <3>3. IsFiniteSet(B)
      <4>1. B \in SUBSET (1..Len(emails))
        BY <1>1
      <4> QED
        BY <3>1, <4>1, UptoAll
    <3>4. (\A k \in A : r[k] \in Emails) /\ (\A k \in B : emails[k] \in Emails)
      BY <1>1, <2>1, <3>1, ElementOfSeq
    <3>5. ASSUME NEW e \in Emails
          PROVE  Cardinality(OfKind(A, r, e)) = Cardinality(OfKind(B, emails, e))
      <4>1. OfKind(B, emails, e) = {k \in DOMAIN emails : emails[k] = e /\ Unmet(list, emails, k)}
        BY DEF OfKind
      <4>2. Occurs(r, e) = Cardinality(OfKind(A, r, e))
        BY DEF Occurs, Count, OfKind
      <4> QED
        BY <2>3, <4>1, <4>2
    <3> HIDE DEF A, B, r
    <3>6. AlikeByKind(Emails, A, r, B, emails)
      BY <3>4, <3>5 DEF AlikeByKind
    <3>7. Cardinality(A) = Cardinality(B)
      BY <3>2, <3>3, <3>6, SameKinds
    <3> QED
      BY <3>2, <3>7 DEF B, r
  <2> QED
    BY <2>2, <2>3, <2>4
<1> QED
  BY <1>5, <1>6 DEF WalkMeets, s, M, full

-----------------------------------------------------------------------------
(* What becomes of the list                                                *)

\* Entries stay in their places, and are invited again after a day.
Grows(a, b) ==
  /\ Len(b) >= Len(a)
  /\ \A k \in DOMAIN a :
       \/ b[k] = a[k]
       \/ /\ b[k].email = a[k].email
          /\ b[k].attempts = a[k].attempts + 1
          /\ b[k].attempts <= MaxAttempts
          /\ b[k].at >= a[k].at + Day

Named(list, e) == {k \in DOMAIN list : list[k].email = e}

LEMMA ListCounts ==
  ASSUME NEW list \in Lists, NEW e, NEW now
  PROVE  /\ Named(list, e) \in SUBSET (1..Len(list)) /\ Cardinality(Named(list, e)) \in Nat
         /\ Fresh(list, now) \in SUBSET (1..Len(list)) /\ Cardinality(Fresh(list, now)) \in Nat
         /\ IsFiniteSet(Fresh(list, now))
         /\ Upto(Fresh(list, now), Len(list)) = Cardinality(Fresh(list, now))
         /\ Len(list) \in Nat /\ DOMAIN list = 1..Len(list)
         /\ \A k \in 1..Len(list) : list[k] \in Entries
<1>1. Len(list) \in Nat /\ DOMAIN list = 1..Len(list) /\ \A k \in 1..Len(list) : list[k] \in Entries
  BY LenProperties, ElementOfSeq DEF Lists
<1>2. Named(list, e) \in SUBSET (1..Len(list)) /\ Fresh(list, now) \in SUBSET (1..Len(list))
  BY <1>1 DEF Named, Fresh
<1> QED
  BY <1>1, <1>2, UptoAll

LEMMA ExtendedList ==
  ASSUME NEW s \in Walks, NEW now \in Nat
  PROVE  LET b == Extended(s, now)
             n == Len(s.list)
             m == Len(s.emails)
         IN /\ b \in Lists /\ Len(b) = n + m
            /\ \A k \in 1..n : b[k] = s.list[k]
            /\ \A k \in 1..m : b[n + k] = FirstTimeInvitee(s.emails[k], now)
<1> DEFINE list == s.list
           emails == s.emails
           b == Extended(s, now)
           n == Len(list)
           m == Len(emails)
           new == [k \in DOMAIN emails |-> FirstTimeInvitee(emails[k], now)]
<1>0. list \in Lists /\ emails \in Seq(Emails)
  BY DEF Walks
<1> HIDE DEF list, emails
<1>1. n \in Nat /\ m \in Nat /\ DOMAIN emails = 1..m /\ \A k \in 1..m : emails[k] \in Emails
  BY <1>0, LenProperties, ElementOfSeq DEF Lists
<1>2. \A k \in 1..m : FirstTimeInvitee(emails[k], now) \in Entries
  BY <1>1 DEF FirstTimeInvitee, Entries
<1>3. new \in [1..m -> Entries]
  BY <1>1, <1>2
<1>4. \A k \in 1..m : new[k] = FirstTimeInvitee(emails[k], now)
  BY <1>1
<1>5. b = list \o new
  BY DEF Extended, list, emails
<1> HIDE DEF new, b, m
<1>6. new \in Seq(Entries) /\ Len(new) = m
  BY <1>1, <1>3
<1>7. /\ b \in Seq(Entries)
      /\ Len(b) = n + m
      /\ \A i \in 1..(n + m) : b[i] = IF i <= n THEN list[i] ELSE new[i - n]
  BY <1>0, <1>5, <1>6, ConcatProperties DEF Lists
<1> HIDE DEF n
<1>8. \A k \in 1..n : k \in 1..(n + m) /\ k <= n
  BY <1>1
<1>9. \A k \in 1..m : n + k \in 1..(n + m) /\ ~(n + k <= n) /\ (n + k) - n = k
  BY <1>1
<1>10. /\ b \in Lists /\ Len(b) = n + m
       /\ \A k \in 1..n : b[k] = list[k]
       /\ \A k \in 1..m : b[n + k] = FirstTimeInvitee(emails[k], now)
  BY <1>4, <1>7, <1>8, <1>9 DEF Lists
<1> QED
  BY <1>10 DEF b, n, m, list, emails

LEMMA WalkSaves ==
  ASSUME NEW list \in Lists, NEW emails \in Seq(Emails), NEW now \in Nat,
         ~Walk(list, emails, now).refused
  PROVE  LET s == Walk(list, emails, now)
             b == Extended(s, now)
         IN /\ b \in Lists /\ s.emails \in Seq(Emails)
            /\ Grows(list, b)
            /\ \A e : Cardinality(Named(b, e)) = Cardinality(Named(list, e)) + Occurs(s.emails, e)
            /\ Cardinality(Fresh(b, now)) <= PerDay - 1 + Len(emails)
<1> DEFINE s == Walk(list, emails, now)
           a == s.list
           rest == s.emails
           b == Extended(s, now)
           n == Len(list)
           m == Len(rest)
<1>1. /\ n \in Nat /\ DOMAIN list = 1..n
      /\ \A k \in 1..n : list[k] \in Entries
      /\ \A k \in 1..n : list[k].email \in Emails /\ list[k].at \in Nat /\ list[k].attempts \in Nat
  BY LenProperties, ElementOfSeq, EntryTypes DEF Lists
<1>2. WalkInv(list, emails, now, n, s)
  BY WalkEnds
<1>3. PerDay \in Nat /\ MaxAttempts \in Nat /\ Day \in Nat
  BY InviteConstants
<1> HIDE DEF s, n
<1>4. /\ a \in Lists /\ rest \in Seq(Emails) /\ Len(a) = n
      /\ ~(Upto(Fresh(list, now), n) >= PerDay)
      /\ \A j \in 1..n : Meets(list, emails, j) => ~Spent(list[j], now)
      /\ \A j \in 1..n : a[j] = IF Meets(list, emails, j) THEN InvitedAgain(list[j], now) ELSE list[j]
      /\ Len(rest) + Upto(Meeting(list, emails), n) = Len(emails)
  BY <1>2 DEF WalkInv, Walks, s
<1> HIDE DEF a, rest
<1>5. m \in Nat /\ DOMAIN rest = 1..m /\ \A k \in 1..m : rest[k] \in Emails
  BY <1>4, LenProperties, ElementOfSeq
<1>6. /\ b \in Lists /\ Len(b) = n + m
      /\ \A k \in 1..n : b[k] = a[k]
      /\ \A k \in 1..m : b[n + k] = FirstTimeInvitee(rest[k], now)
  <2>1. s \in Walks
    BY <1>2 DEF WalkInv
  <2>2. /\ b \in Lists /\ Len(b) = Len(a) + m
        /\ \A k \in 1..Len(a) : b[k] = a[k]
        /\ \A k \in 1..m : b[Len(a) + k] = FirstTimeInvitee(rest[k], now)
    BY <2>1, ExtendedList DEF a, rest
  <2> HIDE DEF b, m
  <2> QED
    BY <1>4, <2>2
<1> HIDE DEF b, m
<1>7. DOMAIN b = 1..(n + m)
  BY <1>6, LenProperties DEF Lists
<1>8. /\ \A j \in 1..n : Meets(list, emails, j) => a[j] = InvitedAgain(list[j], now)
      /\ \A j \in 1..n : ~Meets(list, emails, j) => a[j] = list[j]
  BY <1>4
<1>9. \A j \in 1..n : a[j].email = list[j].email
  <2>1. \A v \in Entries : InvitedAgain(v, now).email = v.email
    BY EntryTypes
  <2> QED
    BY <1>1, <1>8, <2>1
<1>10. Grows(list, b)
  <2>1. ASSUME NEW k \in 1..n, Meets(list, emails, k)
        PROVE  /\ b[k].email = list[k].email
               /\ b[k].attempts = list[k].attempts + 1
               /\ b[k].attempts <= MaxAttempts
               /\ b[k].at >= list[k].at + Day
    <3>1. b[k] = InvitedAgain(list[k], now) /\ list[k] \in Entries
      BY <2>1, <1>1, <1>4, <1>6
    <3>2. b[k].email = list[k].email /\ b[k].attempts = list[k].attempts + 1 /\ b[k].at = now
      BY <3>1, EntryTypes
    <3>3. ~(now - list[k].at < Day) /\ ~(list[k].attempts >= MaxAttempts)
      BY <2>1, <1>4 DEF Spent, Recent
    <3> QED
      BY <1>1, <1>3, <3>2, <3>3
  <2>2. \A k \in 1..n : ~Meets(list, emails, k) => b[k] = list[k]
    BY <1>6, <1>8
  <2>3. Len(b) >= Len(list)
    BY <1>1, <1>5, <1>6 DEF n
  <2> QED
    BY <1>1, <2>1, <2>2, <2>3 DEF Grows
<1>11. ASSUME NEW e
       PROVE  Cardinality(Named(b, e)) = Cardinality(Named(list, e)) + Occurs(rest, e)
  <2> DEFINE C == Named(b, e)
             A == Named(list, e)
             B == Places(rest, e)
  <2>1. C \in SUBSET (1..(n + m)) /\ A \in SUBSET (1..n) /\ B \in SUBSET (1..m)
    BY <1>1, <1>5, <1>7 DEF Named, Places
  <2>2. \A j \in 1..n : j \in C <=> j \in A
    <3>1. \A j \in 1..n : j \in DOMAIN b
      BY <1>1, <1>5, <1>7
    <3> QED
      BY <1>1, <1>6, <1>9, <3>1 DEF Named
  <2>3. \A j \in 1..m : n + j \in C <=> j \in B
    <3>1. \A j \in 1..m : n + j \in DOMAIN b
      BY <1>1, <1>5, <1>7
    <3>2. \A j \in 1..m : b[n + j].email = rest[j]
      <4>1. \A x : FirstTimeInvitee(x, now).email = x
        BY DEF FirstTimeInvitee
      <4> QED
        BY <1>6, <4>1
    <3> QED
      BY <1>5, <3>1, <3>2 DEF Named, Places
  <2> HIDE DEF A, B, C
  <2>4. Joins(C, n, A, m, B)
    BY <2>1, <2>2, <2>3 DEF Joins
  <2>5. Cardinality(C) = Cardinality(A) + Cardinality(B)
    BY <1>1, <1>5, <2>4, JoinedCount
  <2> QED
    BY <2>5, <1>4, OccursType DEF A, B, C
<1>12. Cardinality(Fresh(b, now)) <= PerDay - 1 + Len(emails)
  <2> DEFINE C == Fresh(b, now)
             A == C \cap (1..n)
             B == {j \in 1..m : n + j \in C}
             F == Fresh(list, now)
             M == Meeting(list, emails)
  <2>1. C \in SUBSET (1..(n + m)) /\ A \in SUBSET (1..n) /\ B \in SUBSET (1..m)
    BY <1>7 DEF Fresh
  <2>2. F \in SUBSET (1..n) /\ M \in SUBSET (1..n)
    BY <1>1 DEF Fresh, Meeting
  <2>3. A \subseteq F \cup M
    <3>1. \A j \in 1..n : ~Meets(list, emails, j) => b[j] = list[j]
      BY <1>6, <1>8
    <3> QED
      BY <1>1, <3>1 DEF Fresh, Meeting
  <2> HIDE DEF C, F, M
  <2>4. (\A j \in 1..n : j \in C <=> j \in A) /\ (\A j \in 1..m : n + j \in C <=> j \in B)
    OBVIOUS
  <2> HIDE DEF A, B
  <2>5. Cardinality(C) = Cardinality(A) + Cardinality(B)
    <3>1. Joins(C, n, A, m, B)
      BY <2>1, <2>4 DEF Joins
    <3> QED
      BY <1>1, <1>5, <3>1, JoinedCount
  <2>6. Cardinality(B) \in Nat /\ Cardinality(B) <= m
    <3>1. IsFiniteSet(1..m) /\ Cardinality(1..m) = m
      BY <1>5, FS_Interval
    <3> QED
      BY <2>1, <3>1, FS_Subset, FS_CardinalityType
  <2>7. /\ IsFiniteSet(F) /\ Cardinality(F) \in Nat /\ Cardinality(F) = Upto(F, n)
        /\ IsFiniteSet(M) /\ Cardinality(M) \in Nat /\ Cardinality(M) = Upto(M, n)
    BY <1>1, <2>2, UptoAll
  <2>8. Cardinality(A) <= Cardinality(F) + Cardinality(M)
    <3>1. IsFiniteSet(F \cup M) /\ Cardinality(F \cup M) = Cardinality(F) + Cardinality(M) - Cardinality(F \cap M)
      BY <2>7, FS_Union
    <3>2. Cardinality(F \cap M) \in Nat
      BY <2>7, FS_Intersection, FS_CardinalityType
    <3>3. Cardinality(A) <= Cardinality(F \cup M) /\ Cardinality(A) \in Nat
      BY <2>3, <3>1, FS_Subset, FS_CardinalityType
    <3> QED
      BY <2>7, <3>1, <3>2, <3>3
  <2>9. ~(Upto(F, n) >= PerDay) /\ m + Upto(M, n) = Len(emails)
    BY <1>4 DEF F, M, m
  <2>10. Cardinality(A) \in Nat
    BY <1>1, <2>1, UptoAll
  <2> QED
    BY <1>3, <1>5, <2>5, <2>6, <2>7, <2>8, <2>9, <2>10 DEF C
<1> QED
  BY <1>4, <1>6, <1>10, <1>11, <1>12 DEF s, rest, b

-----------------------------------------------------------------------------
(* The invariant of the handlers                                           *)

\* A list on the way from a to b: what has changed has more attempts.
Before(a, b) ==
  /\ Len(a) <= Len(b)
  /\ \A k \in DOMAIN a : /\ a[k].email = b[k].email
                         /\ a[k] = b[k] \/ a[k].attempts < b[k].attempts

WithinDay(list, now) == Cardinality(Fresh(list, now)) <= PerDay - 1 + AtOnce

\* What a handler is going to save grew out of what it has read.
GoodRequest(r, now) ==
  /\ Grows(r.read, r.save)
  /\ WithinDay(r.save, now)
  /\ r.pc = "check" => r.emails \in Inputs
  /\ r.pc = "send" /\ r.save = r.read => r.emails = <<>>

HandlerInv == \A w \in Workers : req[w] # None => GoodRequest(req[w], clock)

ListInv == WithinDay(invitees, clock)

Sending(r) == r # None /\ r.pc = "send"

\* A handler that mails or invites again, and one that has been overtaken.
Changing(r)   == Sending(r) /\ r.save # r.read
Late(r, list) == Sending(r) /\ r.read # list

ReadsInv == ~disturbed => \A w \in Workers : req[w] # None => Before(req[w].read, invitees)

\* As many mails as entries in the list, or in the list the one handler is about
\* to save, less the mails it still has to send.  Otherwise a handler is late, or
\* is going to be when one of two is through, and the save of it disturbs.
Accounted(q, list, m) ==
  \/ \E w \in Workers : Late(q[w], list)
  \/ \E v, w \in Workers : v # w /\ Changing(q[v]) /\ Changing(q[w])
  \/ /\ \A w \in Workers : ~Changing(q[w])
     /\ \A e \in Emails : m[e] = Cardinality(Named(list, e))
  \/ \E w \in Workers :
       /\ Changing(q[w])
       /\ \A e \in Emails : m[e] + Occurs(q[w].emails, e) = Cardinality(Named(q[w].save, e))

MailInv == ~disturbed => Accounted(req, invitees, mails)

InviteesInv == TypeOK /\ HandlerInv /\ ListInv /\ ReadsInv /\ MailInv

-----------------------------------------------------------------------------
(* Facts about lists                                                       *)

LEMMA RequestTypes ==
  ASSUME NEW r \in Requests
  PROVE  r.pc \in {"check", "send"} /\ r.read \in Lists /\ r.emails \in Seq(Emails) /\ r.save \in Lists
BY DEF Requests

LEMMA ListTypes ==
  ASSUME NEW a \in Lists
  PROVE  /\ Len(a) \in Nat /\ DOMAIN a = 1..Len(a)
         /\ \A k \in 1..Len(a) : a[k].email \in Emails /\ a[k].at \in Nat /\ a[k].attempts \in Nat
<1>1. Len(a) \in Nat /\ DOMAIN a = 1..Len(a) /\ \A k \in 1..Len(a) : a[k] \in Entries
  BY LenProperties, ElementOfSeq DEF Lists
<1> QED
  BY <1>1, EntryTypes

LEMMA GrowsSame ==
  ASSUME NEW a \in Lists
  PROVE  Grows(a, a)
BY ListTypes DEF Grows

LEMMA GrowsBefore ==
  ASSUME NEW a \in Lists, NEW b \in Lists, Grows(a, b)
  PROVE  Before(a, b)
BY ListTypes DEF Grows, Before

LEMMA BeforeSame ==
  ASSUME NEW a \in Lists
  PROVE  Before(a, a)
BY ListTypes DEF Before

LEMMA BeforeTransitive ==
  ASSUME NEW a \in Lists, NEW b \in Lists, NEW c \in Lists, Before(a, b), Before(b, c)
  PROVE  Before(a, c)
<1>1. Len(a) \in Nat /\ Len(b) \in Nat /\ Len(c) \in Nat
  BY ListTypes
<1>2. Len(a) <= Len(b) /\ Len(b) <= Len(c) /\ Len(a) <= Len(c)
  BY <1>1 DEF Before
<1>3. ASSUME NEW k \in DOMAIN a
      PROVE  a[k].email = c[k].email /\ (a[k] = c[k] \/ a[k].attempts < c[k].attempts)
  <2>1. k \in 1..Len(a) /\ k \in 1..Len(b) /\ k \in 1..Len(c) /\ k \in DOMAIN b
    BY <1>1, <1>2, ListTypes
  <2>2. a[k].attempts \in Nat /\ b[k].attempts \in Nat /\ c[k].attempts \in Nat
    BY <2>1, ListTypes
  <2>3. /\ a[k].email = b[k].email /\ b[k].email = c[k].email
        /\ a[k] = b[k] \/ a[k].attempts < b[k].attempts
        /\ b[k] = c[k] \/ b[k].attempts < c[k].attempts
    BY <2>1 DEF Before
  <2> QED
    BY <2>2, <2>3
<1> QED
  BY <1>2, <1>3 DEF Before

LEMMA BeforeBoth ==
  ASSUME NEW a \in Lists, NEW b \in Lists, Before(a, b), Before(b, a)
  PROVE  a = b
<1>1. Len(a) = Len(b) /\ Len(a) \in Nat
  BY ListTypes DEF Before
<1>2. ASSUME NEW k \in 1..Len(a)
      PROVE  a[k] = b[k]
  <2>1. k \in DOMAIN a /\ k \in DOMAIN b
    BY <1>1, ListTypes
  <2>2. a[k].attempts \in Nat /\ b[k].attempts \in Nat
    BY <1>1, ListTypes
  <2> QED
    BY <2>1, <2>2 DEF Before
<1> QED
  BY <1>1, <1>2, SeqEqual DEF Lists

\* Time makes invitations less recent.
LEMMA WithinDayLater ==
  ASSUME NEW list \in Lists, NEW now \in Nat, WithinDay(list, now)
  PROVE  WithinDay(list, now + 1)
<1> DEFINE F == Fresh(list, now)
           G == Fresh(list, now + 1)
<1>1. Day \in Nat /\ PerDay \in Nat /\ AtOnce \in Nat
  BY InviteConstants
<1>2. \A k \in DOMAIN list : Recent(list[k], now + 1) => Recent(list[k], now)
  BY <1>1, ListTypes DEF Recent
<1>3. G \subseteq F
  BY <1>2 DEF Fresh
<1>4. IsFiniteSet(F) /\ Cardinality(F) \in Nat /\ Cardinality(G) \in Nat
  BY ListCounts
<1> HIDE DEF F, G
<1>5. Cardinality(G) <= Cardinality(F)
  BY <1>3, <1>4, FS_Subset
<1> QED
  BY <1>1, <1>4, <1>5 DEF WithinDay, F, G

LEMMA NothingOccurs ==
  ASSUME NEW s \in Seq(Emails), \A x \in Emails : Occurs(s, x) = 0
  PROVE  s = <<>>
<1>1. Len(s) \in Nat /\ \A k \in 1..Len(s) : s[k] \in Emails
  BY LenProperties, ElementOfSeq
<1>2. SUFFICES ASSUME s # <<>>
               PROVE  FALSE
  OBVIOUS
<1>3. 1 \in 1..Len(s)
  BY <1>1, <1>2, EmptySeq
<1>4. Contains(s, s[1]) /\ s[1] \in Emails
  BY <1>1, <1>3 DEF Contains
<1>5. Occurs(s, s[1]) > 0 /\ Occurs(s, s[1]) = 0
  BY <1>4, OccursType
<1> QED
  BY <1>5

LEMMA NothingOccursInEmpty ==
  ASSUME NEW x
  PROVE  Occurs(<<>>, x) = 0
<1>1. Places(<<>>, x) = {}
  BY DEF Places
<1>2. <<>> \in Seq(Emails)
  BY EmptySeq
<1> QED
  BY <1>1, <1>2, OccursType, FS_EmptySet

-----------------------------------------------------------------------------
(* Facts about requests                                                    *)

LEMMA BegunRequest ==
  ASSUME NEW list \in Lists, NEW now, NEW r,
         \/ \E emails \in Asked : r = [pc |-> "check", read |-> list, emails |-> emails, save |-> list]
         \/ r = [pc |-> "send", read |-> list, emails |-> <<>>, save |-> list]
  PROVE  /\ r \in Requests /\ r.read = list /\ r.save = list
         /\ WithinDay(list, now) => GoodRequest(r, now)
<1>1. <<>> \in Seq(Emails) /\ \A emails \in Asked : emails \in Inputs /\ emails \in Seq(Emails)
  BY EmptySeq, InputTypes, InviteConstants
<1>2. CASE \E emails \in Asked : r = [pc |-> "check", read |-> list, emails |-> emails, save |-> list]
  BY <1>1, <1>2, GrowsSame DEF Requests, GoodRequest
<1>3. CASE r = [pc |-> "send", read |-> list, emails |-> <<>>, save |-> list]
  BY <1>1, <1>3, GrowsSame DEF Requests, GoodRequest
<1> QED
  BY <1>2, <1>3

Updated(r, now) ==
  LET s == Walk(r.read, r.emails, now) IN
  [r EXCEPT !.pc = "send", !.emails = s.emails, !.save = Extended(s, now)]

LEMMA UpdatedRequest ==
  ASSUME NEW r \in Requests, NEW now \in Nat, ~Walk(r.read, r.emails, now).refused
  PROVE  LET u == Updated(r, now) IN
         /\ u \in Requests /\ u.pc = "send" /\ u.read = r.read
         /\ r.emails \in Inputs => GoodRequest(u, now)
         /\ \A e : Cardinality(Named(u.save, e)) = Cardinality(Named(u.read, e)) + Occurs(u.emails, e)
<1> DEFINE s == Walk(r.read, r.emails, now)
           b == Extended(s, now)
           u == Updated(r, now)
<1>1. r.pc \in {"check", "send"} /\ r.read \in Lists /\ r.emails \in Seq(Emails) /\ r.save \in Lists
  BY RequestTypes
<1>2. /\ b \in Lists /\ s.emails \in Seq(Emails)
      /\ Grows(r.read, b)
      /\ \A e : Cardinality(Named(b, e)) = Cardinality(Named(r.read, e)) + Occurs(s.emails, e)
      /\ Cardinality(Fresh(b, now)) <= PerDay - 1 + Len(r.emails)
  BY <1>1, WalkSaves
<1>3. u = [r EXCEPT !.pc = "send", !.emails = s.emails, !.save = b]
  BY DEF Updated
<1> HIDE DEF s, b, u
<1>4. r = [pc |-> r.pc, read |-> r.read, emails |-> r.emails, save |-> r.save]
  BY DEF Requests
<1>5. u = [pc |-> "send", read |-> r.read, emails |-> s.emails, save |-> b]
  BY <1>3, <1>4
<1>6. u \in Requests /\ u.pc = "send" /\ u.read = r.read /\ u.emails = s.emails /\ u.save = b
  BY <1>1, <1>2, <1>5 DEF Requests
<1>7. ASSUME r.emails \in Inputs
      PROVE  GoodRequest(u, now)
  <2>1. WithinDay(b, now)
    <3>1. /\ Cardinality(Fresh(b, now)) \in Nat /\ PerDay \in Nat /\ AtOnce \in Nat
          /\ Len(r.emails) \in Nat /\ Len(r.emails) <= AtOnce
      BY <1>2, <1>7, ListCounts, InputTypes, InviteConstants
    <3> QED
      BY <1>2, <3>1 DEF WithinDay
  <2>2. b = r.read => s.emails = <<>>
    <3>1. \A e \in Emails : Cardinality(Named(r.read, e)) \in Nat /\ Occurs(s.emails, e) \in Nat
      BY <1>1, <1>2, ListCounts, OccursType
    <3>2. b = r.read => \A e \in Emails : Occurs(s.emails, e) = 0
      BY <1>2, <3>1
    <3> QED
      BY <1>2, <3>2, NothingOccurs
  <2> QED
    BY <1>2, <1>6, <2>1, <2>2 DEF GoodRequest
<1>8. \A e : Cardinality(Named(u.save, e)) = Cardinality(Named(u.read, e)) + Occurs(u.emails, e)
  BY <1>2, <1>6
<1> QED
  BY <1>6, <1>7, <1>8 DEF u

\* A mail less to send.
Mailed(r) == [r EXCEPT !.emails = Tail(@)]

LEMMA MailedRequest ==
  ASSUME NEW r \in Requests, r.emails # <<>>
  PROVE  /\ Mailed(r) \in Requests
         /\ Mailed(r).pc = r.pc /\ Mailed(r).read = r.read /\ Mailed(r).save = r.save
         /\ Mailed(r).emails = Tail(r.emails)
         /\ Head(r.emails) \in Emails
<1>1. r.pc \in {"check", "send"} /\ r.read \in Lists /\ r.emails \in Seq(Emails) /\ r.save \in Lists
  BY RequestTypes
<1>2. Head(r.emails) \in Emails /\ Tail(r.emails) \in Seq(Emails)
  BY <1>1, OccursTail
<1>3. r = [pc |-> r.pc, read |-> r.read, emails |-> r.emails, save |-> r.save]
  BY DEF Requests
<1> DEFINE t == Tail(r.emails)
<1>4. Mailed(r) = [r EXCEPT !.emails = t]
  BY DEF Mailed
<1> HIDE DEF t
<1>5. Mailed(r) = [pc |-> r.pc, read |-> r.read, emails |-> t, save |-> r.save]
  BY <1>3, <1>4
<1> QED
  BY <1>1, <1>2, <1>5 DEF Requests, t

-----------------------------------------------------------------------------
(* The steps, as the proofs use them                                       *)

Quiet == UNCHANGED <<invitees, clock, mails, disturbed>>

\* A handler begins, is refused or goes on to mailing, mails, or saves; handlers
\* stop; the clock ticks.
StepOf(w) ==
  \/ /\ req[w] = None
     /\ \E r \in Requests :
          /\ r.read = invitees /\ r.save = invitees
          /\ WithinDay(invitees, clock) => GoodRequest(r, clock)
          /\ req' = [req EXCEPT ![w] = r]
     /\ Quiet
  \/ /\ req[w] # None /\ req[w].pc = "check"
     /\ ~Walk(req[w].read, req[w].emails, clock).refused
     /\ req' = [req EXCEPT ![w] = Updated(req[w], clock)]
     /\ Quiet
  \/ /\ req[w] # None /\ req[w].pc = "check"
     /\ req' = [req EXCEPT ![w] = None]
     /\ Quiet
  \/ /\ Sending(req[w]) /\ req[w].emails # <<>>
     /\ mails' = [mails EXCEPT ![Head(req[w].emails)] = @ + 1]
     /\ req' = [req EXCEPT ![w] = Mailed(req[w])]
     /\ UNCHANGED <<invitees, clock, disturbed>>
  \/ /\ Sending(req[w]) /\ req[w].emails = <<>>
     /\ invitees' = req[w].save
     /\ disturbed' = (disturbed \/ invitees # req[w].read)
     /\ req' = [req EXCEPT ![w] = None]
     /\ UNCHANGED <<clock, mails>>

Stop ==
  /\ \E W \in SUBSET Workers :
       /\ req' = [w \in Workers |-> IF w \in W THEN None ELSE req[w]]
       /\ disturbed' = (disturbed \/ \E w \in W : Sending(req[w]))
  /\ UNCHANGED <<invitees, clock, mails>>

LEMMA Steps ==
  ASSUME TypeOK, [Next]_vars
  PROVE  UNCHANGED vars \/ (\E w \in Workers : StepOf(w)) \/ Stop \/ Tick
<1>1. invitees \in Lists /\ req \in [Workers -> Requests \cup {None}]
  BY DEF TypeOK
<1>2. ASSUME NEW w \in Workers, NEW emails \in Asked, Begin(w, emails)
      PROVE  StepOf(w)
  <2> DEFINE r == [pc |-> "check", read |-> invitees, emails |-> emails, save |-> invitees]
  <2>1. /\ r \in Requests /\ r.read = invitees /\ r.save = invitees
        /\ WithinDay(invitees, clock) => GoodRequest(r, clock)
    BY <1>1, BegunRequest
  <2>2. req[w] = None /\ req' = [req EXCEPT ![w] = r] /\ Quiet
    BY <1>2 DEF Begin, Quiet
  <2> HIDE DEF r
  <2> QED
    BY <2>1, <2>2 DEF StepOf
<1>3. ASSUME NEW w \in Workers, BeginOther(w)
      PROVE  StepOf(w)
  <2> DEFINE r == [pc |-> "send", read |-> invitees, emails |-> <<>>, save |-> invitees]
  <2>1. /\ r \in Requests /\ r.read = invitees /\ r.save = invitees
        /\ WithinDay(invitees, clock) => GoodRequest(r, clock)
    BY <1>1, BegunRequest
  <2>2. req[w] = None /\ req' = [req EXCEPT ![w] = r] /\ Quiet
    BY <1>3 DEF BeginOther, Quiet
  <2> HIDE DEF r
  <2> QED
    BY <2>1, <2>2 DEF StepOf
<1>4. ASSUME NEW w \in Workers, CheckAndUpdateInvitees(w)
      PROVE  StepOf(w)
  <2>1. req[w] # None /\ req[w].pc = "check" /\ Quiet
    BY <1>4 DEF CheckAndUpdateInvitees, Quiet
  <2>2. CASE Walk(req[w].read, req[w].emails, clock).refused
    <3>1. req' = [req EXCEPT ![w] = None]
      BY <1>4, <2>2 DEF CheckAndUpdateInvitees, Answer
    <3> QED
      BY <2>1, <3>1 DEF StepOf
  <2>3. CASE ~Walk(req[w].read, req[w].emails, clock).refused
    <3> DEFINE s == Walk(req[w].read, req[w].emails, clock)
               b == Extended(s, clock)
    <3>1. req' = [req EXCEPT ![w] = [@ EXCEPT !.pc = "send", !.emails = s.emails, !.save = b]]
      BY <1>4, <2>3 DEF CheckAndUpdateInvitees
    <3>2. Updated(req[w], clock) = [req[w] EXCEPT !.pc = "send", !.emails = s.emails, !.save = b]
      BY DEF Updated
    <3> HIDE DEF s, b
    <3>3. req' = [req EXCEPT ![w] = Updated(req[w], clock)]
      BY <3>1, <3>2
    <3> QED
      BY <2>1, <2>3, <3>3 DEF StepOf
  <2> QED
    BY <2>2, <2>3
<1>5. ASSUME NEW w \in Workers, AccountExists(w)
      PROVE  StepOf(w)
  BY <1>5 DEF AccountExists, Answer, StepOf, Quiet
<1>6. ASSUME NEW w \in Workers, SendInvite(w)
      PROVE  StepOf(w)
  <2>1. /\ Sending(req[w]) /\ req[w].emails # <<>>
        /\ mails' = [mails EXCEPT ![Head(req[w].emails)] = @ + 1]
        /\ UNCHANGED <<invitees, clock, disturbed>>
    BY <1>6 DEF SendInvite, Sending
  <2>2. req' = [req EXCEPT ![w] = Mailed(req[w])]
    <3>1. req' = [req EXCEPT ![w].emails = Tail(@)]
      BY <1>6 DEF SendInvite
    <3> QED
      BY <1>1, <3>1 DEF Mailed
  <2> QED
    BY <2>1, <2>2 DEF StepOf
<1>7. ASSUME NEW w \in Workers, Save(w)
      PROVE  StepOf(w)
  BY <1>7 DEF Save, Answer, StepOf, Sending
<1>8. ASSUME NEW W \in SUBSET Workers, Fail(W)
      PROVE  Stop
  <2>1. /\ req' = [w \in Workers |-> IF w \in W THEN None ELSE req[w]]
        /\ disturbed' = (disturbed \/ \E w \in W : Sending(req[w]))
        /\ UNCHANGED <<invitees, clock, mails>>
    BY <1>8 DEF Fail, Sending
  <2> QED
    BY <2>1 DEF Stop
<1>9. \A w \in Workers : {w} \in SUBSET Workers
  OBVIOUS
<1> QED
  BY <1>2, <1>3, <1>4, <1>5, <1>6, <1>7, <1>8, <1>9 DEF Next

-----------------------------------------------------------------------------
(* Types                                                                   *)

LEMMA TypeStep ==
  ASSUME TypeOK, [Next]_vars
  PROVE  TypeOK'
<1>1. /\ invitees \in Lists /\ clock \in 0..MaxClock /\ req \in [Workers -> Requests \cup {None}]
      /\ mails \in [Emails -> Nat] /\ disturbed \in BOOLEAN
  BY DEF TypeOK
<1>2. clock \in Nat /\ MaxClock \in Nat
  BY <1>1, InviteConstants
<1>3. CASE UNCHANGED vars
  BY <1>1, <1>3 DEF TypeOK, vars
<1>4. ASSUME NEW w \in Workers, StepOf(w)
      PROVE  TypeOK'
  <2>1. CASE /\ \E r \in Requests : req' = [req EXCEPT ![w] = r]
             /\ Quiet
    BY <1>1, <2>1 DEF TypeOK, Quiet
  <2>2. CASE /\ req[w] # None
             /\ ~Walk(req[w].read, req[w].emails, clock).refused
             /\ req' = [req EXCEPT ![w] = Updated(req[w], clock)]
             /\ Quiet
    <3>1. req[w] \in Requests
      BY <1>1, <2>2
    <3>2. Updated(req[w], clock) \in Requests
      BY <1>2, <2>2, <3>1, UpdatedRequest
    <3> QED
      BY <1>1, <2>2, <3>2 DEF TypeOK, Quiet
  <2>3. CASE req' = [req EXCEPT ![w] = None] /\ Quiet
    BY <1>1, <2>3 DEF TypeOK, Quiet
  <2>4. CASE /\ Sending(req[w]) /\ req[w].emails # <<>>
             /\ mails' = [mails EXCEPT ![Head(req[w].emails)] = @ + 1]
             /\ req' = [req EXCEPT ![w] = Mailed(req[w])]
             /\ UNCHANGED <<invitees, clock, disturbed>>
    <3>1. req[w] \in Requests
      BY <1>1, <2>4 DEF Sending
    <3>2. Mailed(req[w]) \in Requests /\ Head(req[w].emails) \in Emails
      BY <2>4, <3>1, MailedRequest
    <3>3. mails' \in [Emails -> Nat]
      BY <1>1, <2>4, <3>2
    <3> QED
      BY <1>1, <2>4, <3>2, <3>3 DEF TypeOK
  <2>5. CASE /\ Sending(req[w])
             /\ invitees' = req[w].save
             /\ disturbed' = (disturbed \/ invitees # req[w].read)
             /\ req' = [req EXCEPT ![w] = None]
             /\ UNCHANGED <<clock, mails>>
    <3>1. req[w].save \in Lists
      BY <1>1, <2>5, RequestTypes DEF Sending
    <3> QED
      BY <1>1, <2>5, <3>1 DEF TypeOK
  <2> QED
    BY <1>4, <2>1, <2>2, <2>3, <2>4, <2>5 DEF StepOf
<1>5. CASE Stop
  BY <1>1, <1>5 DEF Stop, TypeOK
<1>6. CASE Tick
  BY <1>1, <1>2, <1>6 DEF Tick, TypeOK
<1> QED
  BY <1>3, <1>4, <1>5, <1>6, Steps

-----------------------------------------------------------------------------
(* What the handlers have in hand                                          *)

LEMMA HandlerStep ==
  ASSUME TypeOK, HandlerInv, ListInv, [Next]_vars
  PROVE  HandlerInv' /\ ListInv'
<1>1. /\ invitees \in Lists /\ clock \in Nat /\ req \in [Workers -> Requests \cup {None}]
      /\ None \notin Requests
  BY InviteConstants DEF TypeOK
<1>2. /\ \A v \in Workers : req[v] # None => req[v] \in Requests /\ GoodRequest(req[v], clock)
      /\ WithinDay(invitees, clock)
  BY <1>1 DEF HandlerInv, ListInv
<1> SUFFICES /\ \A v \in Workers : req'[v] # None => GoodRequest(req'[v], clock')
             /\ WithinDay(invitees', clock')
  BY DEF HandlerInv, ListInv
<1>3. CASE UNCHANGED vars
  BY <1>2, <1>3 DEF vars
<1>4. ASSUME NEW w \in Workers, StepOf(w)
      PROVE  /\ \A v \in Workers : req'[v] # None => GoodRequest(req'[v], clock')
             /\ WithinDay(invitees', clock')
  <2>1. CASE /\ \E r \in Requests :
                  /\ WithinDay(invitees, clock) => GoodRequest(r, clock)
                  /\ req' = [req EXCEPT ![w] = r]
             /\ Quiet
    BY <1>1, <1>2, <2>1 DEF Quiet
  <2>2. CASE /\ req[w] # None /\ req[w].pc = "check"
             /\ ~Walk(req[w].read, req[w].emails, clock).refused
             /\ req' = [req EXCEPT ![w] = Updated(req[w], clock)]
             /\ Quiet
    <3>1. req[w] \in Requests /\ req[w].emails \in Inputs
      BY <1>2, <2>2 DEF GoodRequest
    <3>2. GoodRequest(Updated(req[w], clock), clock)
      BY <1>1, <2>2, <3>1, UpdatedRequest
    <3> QED
      BY <1>1, <1>2, <2>2, <3>2 DEF Quiet
  <2>3. CASE req' = [req EXCEPT ![w] = None] /\ Quiet
    BY <1>1, <1>2, <2>3 DEF Quiet
  <2>4. CASE /\ Sending(req[w]) /\ req[w].emails # <<>>
             /\ req' = [req EXCEPT ![w] = Mailed(req[w])]
             /\ UNCHANGED <<invitees, clock, disturbed>>
    <3> DEFINE r == req[w]
               u == Mailed(r)
    <3>1. r \in Requests /\ GoodRequest(r, clock) /\ r.pc = "send" /\ r.emails # <<>>
      BY <1>2, <2>4 DEF Sending
    <3>2. u.pc = r.pc /\ u.read = r.read /\ u.save = r.save
      BY <3>1, MailedRequest
    <3> HIDE DEF r, u
    <3>3. GoodRequest(u, clock)
      BY <3>1, <3>2 DEF GoodRequest
    <3> QED
      BY <1>1, <1>2, <2>4, <3>3 DEF r, u
  <2>5. CASE /\ Sending(req[w])
             /\ invitees' = req[w].save
             /\ req' = [req EXCEPT ![w] = None]
             /\ UNCHANGED <<clock, mails>>
    <3>1. WithinDay(req[w].save, clock)
      BY <1>2, <2>5 DEF GoodRequest, Sending
    <3> QED
      BY <1>1, <1>2, <2>5, <3>1
  <2> QED
    BY <1>4, <2>1, <2>2, <2>3, <2>4, <2>5 DEF StepOf
<1>5. CASE Stop
  BY <1>1, <1>2, <1>5 DEF Stop
<1>6. CASE Tick
  <2>1. clock' = clock + 1 /\ invitees' = invitees /\ req' = req
    BY <1>6 DEF Tick
  <2>2. WithinDay(invitees, clock + 1)
    BY <1>1, <1>2, WithinDayLater
  <2>3. ASSUME NEW v \in Workers, req[v] # None
        PROVE  GoodRequest(req[v], clock + 1)
    <3>1. req[v].save \in Lists /\ GoodRequest(req[v], clock)
      BY <1>2, <2>3, RequestTypes
    <3>2. WithinDay(req[v].save, clock + 1)
      BY <1>1, <3>1, WithinDayLater DEF GoodRequest
    <3> QED
      BY <3>1, <3>2 DEF GoodRequest
  <2> QED
    BY <2>1, <2>2, <2>3
<1> QED
  BY <1>3, <1>4, <1>5, <1>6, Steps

LEMMA ReadsStep ==
  ASSUME TypeOK, HandlerInv, ReadsInv, [Next]_vars
  PROVE  ReadsInv'
<1>1. /\ invitees \in Lists /\ clock \in Nat /\ req \in [Workers -> Requests \cup {None}]
      /\ None \notin Requests /\ disturbed \in BOOLEAN
  BY InviteConstants DEF TypeOK
<1>2. \A v \in Workers : req[v] # None => req[v] \in Requests /\ GoodRequest(req[v], clock)
  BY <1>1 DEF HandlerInv
<1> SUFFICES ASSUME ~disturbed'
             PROVE  \A v \in Workers : req'[v] # None => Before(req'[v].read, invitees')
  BY DEF ReadsInv
<1>3. CASE UNCHANGED vars
  BY <1>3 DEF vars, ReadsInv
<1>4. ASSUME NEW w \in Workers, StepOf(w)
      PROVE  \A v \in Workers : req'[v] # None => Before(req'[v].read, invitees')
  <2>0. ~disturbed => \A v \in Workers : req[v] # None => Before(req[v].read, invitees)
    BY DEF ReadsInv
  <2>1. CASE /\ \E r \in Requests : r.read = invitees /\ req' = [req EXCEPT ![w] = r]
             /\ Quiet
    <3>1. Before(invitees, invitees)
      BY <1>1, BeforeSame
    <3> QED
      BY <1>1, <2>0, <2>1, <3>1 DEF Quiet
  <2>2. CASE /\ req[w] # None
             /\ ~Walk(req[w].read, req[w].emails, clock).refused
             /\ req' = [req EXCEPT ![w] = Updated(req[w], clock)]
             /\ Quiet
    <3>1. Updated(req[w], clock).read = req[w].read
      BY <1>1, <1>2, <2>2, UpdatedRequest
    <3> QED
      BY <1>1, <2>0, <2>2, <3>1 DEF Quiet
  <2>3. CASE req' = [req EXCEPT ![w] = None] /\ Quiet
    BY <1>1, <2>0, <2>3 DEF Quiet
  <2>4. CASE /\ Sending(req[w]) /\ req[w].emails # <<>>
             /\ req' = [req EXCEPT ![w] = Mailed(req[w])]
             /\ UNCHANGED <<invitees, clock, disturbed>>
    <3>1. req[w] # None /\ Mailed(req[w]).read = req[w].read
      BY <1>2, <2>4, MailedRequest DEF Sending
    <3> QED
      BY <1>1, <2>0, <2>4, <3>1
  <2>5. CASE /\ Sending(req[w])
             /\ invitees' = req[w].save
             /\ disturbed' = (disturbed \/ invitees # req[w].read)
             /\ req' = [req EXCEPT ![w] = None]
    <3>1. /\ ~disturbed /\ invitees = req[w].read
          /\ req[w].save \in Lists /\ Grows(req[w].read, req[w].save)
      BY <1>2, <2>5, RequestTypes DEF Sending, GoodRequest
    <3>2. Before(invitees, invitees')
      BY <1>1, <2>5, <3>1, GrowsBefore
    <3>3. ASSUME NEW v \in Workers, req'[v] # None
          PROVE  Before(req'[v].read, invitees')
      <4>1. req'[v] = req[v] /\ req[v] # None
        BY <1>1, <2>5, <3>3
      <4>2. req[v].read \in Lists /\ Before(req[v].read, invitees)
        BY <1>2, <2>0, <3>1, <4>1, RequestTypes
      <4>3. Before(req[v].read, invitees')
        BY <1>1, <2>5, <3>1, <3>2, <4>2, BeforeTransitive
      <4> QED
        BY <4>1, <4>3
    <3> QED
      BY <3>3
  <2> QED
    BY <1>4, <2>1, <2>2, <2>3, <2>4, <2>5 DEF StepOf
<1>5. CASE Stop
  BY <1>1, <1>5 DEF Stop, ReadsInv
<1>6. CASE Tick
  BY <1>6 DEF Tick, ReadsInv
<1> QED
  BY <1>3, <1>4, <1>5, <1>6, Steps

-----------------------------------------------------------------------------
(* Mails and entries                                                       *)

\* The account stays right when no handler that sends mails is concerned.
LEMMA AccountedKept ==
  ASSUME NEW q, NEW p, NEW list, NEW m, Accounted(q, list, m),
         \A v \in Workers : /\ Changing(p[v]) <=> Changing(q[v])
                            /\ Late(q[v], list) => Late(p[v], list)
                            /\ Changing(q[v]) => p[v].emails = q[v].emails /\ p[v].save = q[v].save
  PROVE  Accounted(p, list, m)
<1>1. CASE \E v \in Workers : Late(q[v], list)
  BY <1>1 DEF Accounted
<1>2. CASE \E v, w \in Workers : v # w /\ Changing(q[v]) /\ Changing(q[w])
  BY <1>2 DEF Accounted
<1>3. CASE /\ \A w \in Workers : ~Changing(q[w])
           /\ \A e \in Emails : m[e] = Cardinality(Named(list, e))
  BY <1>3 DEF Accounted
<1>4. CASE \E w \in Workers :
             /\ Changing(q[w])
             /\ \A e \in Emails : m[e] + Occurs(q[w].emails, e) = Cardinality(Named(q[w].save, e))
  <2>1. PICK w \in Workers :
          /\ Changing(q[w])
          /\ \A e \in Emails : m[e] + Occurs(q[w].emails, e) = Cardinality(Named(q[w].save, e))
    BY <1>4
  <2>2. Changing(p[w]) /\ p[w].emails = q[w].emails /\ p[w].save = q[w].save
    BY <2>1
  <2> QED
    BY <2>1, <2>2 DEF Accounted
<1> QED
  BY <1>1, <1>2, <1>3, <1>4 DEF Accounted

LEMMA CheckAccounted ==
  ASSUME TypeOK, HandlerInv, Accounted(req, invitees, mails), NEW w \in Workers,
         req[w] # None, req[w].pc = "check",
         ~Walk(req[w].read, req[w].emails, clock).refused,
         req' = [req EXCEPT ![w] = Updated(req[w], clock)]
  PROVE  Accounted(req', invitees, mails)
<1> DEFINE r == req[w]
           u == Updated(r, clock)
<1>1. /\ req \in [Workers -> Requests \cup {None}] /\ r \in Requests /\ clock \in Nat
      /\ None \notin Requests /\ mails \in [Emails -> Nat]
  BY InviteConstants DEF TypeOK
<1>2. /\ u \in Requests /\ u.pc = "send" /\ u.read = r.read
      /\ \A e : Cardinality(Named(u.save, e)) = Cardinality(Named(u.read, e)) + Occurs(u.emails, e)
  BY <1>1, UpdatedRequest
<1>3. ~Sending(r) /\ Sending(u) /\ ~Changing(r) /\ ~Late(r, invitees)
  BY <1>1, <1>2 DEF Sending, Changing, Late
<1> HIDE DEF r, u
<1>4. req'[w] = u /\ \A v \in Workers : v # w => req'[v] = req[v]
  BY <1>1 DEF r, u
<1>5. req[w] = r
  BY DEF r
<1>6. CASE u.read # invitees
  <2>1. Late(req'[w], invitees)
    BY <1>3, <1>4, <1>6 DEF Late
  <2> QED
    BY <2>1 DEF Accounted
<1>7. CASE u.save = u.read
  <2>1. ~Changing(u)
    BY <1>7 DEF Changing
  <2>2. \A v \in Workers : /\ Changing(req'[v]) <=> Changing(req[v])
                           /\ Late(req[v], invitees) => Late(req'[v], invitees)
                           /\ Changing(req[v]) => req'[v].emails = req[v].emails /\ req'[v].save = req[v].save
    BY <1>3, <1>4, <1>5, <2>1
  <2> QED
    BY <2>2, AccountedKept
<1>8. CASE u.read = invitees /\ u.save # u.read
  <2>0. Changing(u)
    BY <1>3, <1>8 DEF Changing
  <2>1. CASE \E v \in Workers : Late(req[v], invitees)
    <3>1. \E v \in Workers : Late(req'[v], invitees)
      BY <2>1, <1>3, <1>4, <1>5
    <3> QED
      BY <3>1 DEF Accounted
  <2>2. CASE \E v \in Workers : Changing(req[v])
    <3>1. PICK v \in Workers : Changing(req[v])
      BY <2>2
    <3>2. v # w /\ Changing(req'[v]) /\ Changing(req'[w])
      BY <3>1, <2>0, <1>3, <1>4, <1>5
    <3> QED
      BY <3>2 DEF Accounted
  <2>3. CASE \A e \in Emails : mails[e] = Cardinality(Named(invitees, e))
    <3>1. \A e \in Emails : mails[e] + Occurs(u.emails, e) = Cardinality(Named(u.save, e))
      BY <2>3, <1>2, <1>8
    <3> QED
      BY <3>1, <2>0, <1>4 DEF Accounted
  <2> QED
    BY <2>1, <2>2, <2>3 DEF Accounted
<1> QED
  BY <1>6, <1>7, <1>8

LEMMA MailedAccounted ==
  ASSUME TypeOK, HandlerInv, Accounted(req, invitees, mails), NEW w \in Workers,
         Sending(req[w]), req[w].emails # <<>>,
         mails' = [mails EXCEPT ![Head(req[w].emails)] = @ + 1],
         req' = [req EXCEPT ![w] = Mailed(req[w])]
  PROVE  Accounted(req', invitees, mails')
<1> DEFINE r == req[w]
           u == Mailed(r)
           h == Head(r.emails)
<1>1. /\ req \in [Workers -> Requests \cup {None}] /\ r \in Requests
      /\ None \notin Requests /\ mails \in [Emails -> Nat]
      /\ r.emails \in Seq(Emails) /\ GoodRequest(r, clock)
  <2>1. req \in [Workers -> Requests \cup {None}] /\ None \notin Requests /\ mails \in [Emails -> Nat]
    BY InviteConstants DEF TypeOK
  <2>2. r \in Requests /\ GoodRequest(r, clock)
    BY <2>1 DEF Sending, HandlerInv
  <2> QED
    BY <2>1, <2>2, RequestTypes
<1>2. u \in Requests /\ u.pc = r.pc /\ u.read = r.read /\ u.save = r.save /\ u.emails = Tail(r.emails) /\ h \in Emails
  BY <1>1, MailedRequest
<1>3. \A e \in Emails : Occurs(u.emails, e) = IF e = h THEN Occurs(r.emails, e) - 1 ELSE Occurs(r.emails, e)
  BY <1>1, <1>2, OccursTail
<1>4. \A e \in Emails : mails[e] \in Nat /\ mails'[e] = IF e = h THEN mails[e] + 1 ELSE mails[e]
  BY <1>1, <1>2
<1>5. \A e \in Emails : Occurs(r.emails, e) \in Nat
  BY <1>1, OccursType
<1>6. Sending(r) /\ r.save # r.read
  BY <1>1 DEF Sending, GoodRequest
<1> HIDE DEF r, u, h
<1>7. Changing(r) /\ Changing(u)
  BY <1>1, <1>2, <1>6 DEF Changing, Sending
<1>8. req[w] = r /\ req'[w] = u /\ \A v \in Workers : v # w => req'[v] = req[v]
  BY <1>1 DEF r, u
<1>9. CASE \E v \in Workers : Late(req[v], invitees)
  <2>1. Late(r, invitees) => Late(u, invitees)
    BY <1>1, <1>2 DEF Late, Sending
  <2>2. \E v \in Workers : Late(req'[v], invitees)
    BY <1>8, <1>9, <2>1
  <2> QED
    BY <2>2 DEF Accounted
<1>10. CASE \E v \in Workers : v # w /\ Changing(req[v])
  <2>1. \E v \in Workers : v # w /\ Changing(req'[v]) /\ Changing(req'[w])
    BY <1>7, <1>8, <1>10
  <2> QED
    BY <2>1 DEF Accounted
<1>11. CASE \A e \in Emails : mails[e] + Occurs(r.emails, e) = Cardinality(Named(r.save, e))
  <2>1. \A e \in Emails : mails'[e] + Occurs(u.emails, e) = Cardinality(Named(u.save, e))
    <3>1. \A e \in Emails : mails'[e] + Occurs(u.emails, e) = mails[e] + Occurs(r.emails, e)
      BY <1>3, <1>4, <1>5
    <3> QED
      BY <3>1, <1>2, <1>11
  <2> QED
    BY <2>1, <1>7, <1>8 DEF Accounted
<1>12. \/ \E v \in Workers : Late(req[v], invitees)
       \/ \E v \in Workers : v # w /\ Changing(req[v])
       \/ \A e \in Emails : mails[e] + Occurs(r.emails, e) = Cardinality(Named(r.save, e))
  BY <1>7, <1>8 DEF Accounted
<1> QED
  BY <1>9, <1>10, <1>11, <1>12

LEMMA SavedAccounted ==
  ASSUME TypeOK, HandlerInv, ReadsInv, Accounted(req, invitees, mails), NEW w \in Workers,
         Sending(req[w]), req[w].emails = <<>>, ~disturbed, req[w].read = invitees,
         invitees' = req[w].save,
         req' = [req EXCEPT ![w] = None]
  PROVE  Accounted(req', invitees', mails)
<1> DEFINE r == req[w]
<1>1. /\ invitees \in Lists /\ req \in [Workers -> Requests \cup {None}] /\ None \notin Requests
      /\ mails \in [Emails -> Nat]
  BY InviteConstants DEF TypeOK
<1>2. /\ \A v \in Workers : req[v] # None => req[v].read \in Lists /\ req[v].save \in Lists
                                             /\ Before(req[v].read, invitees)
  BY <1>1, RequestTypes DEF ReadsInv
<1>3. r # None /\ Grows(invitees, r.save) /\ r.save \in Lists
  BY <1>2 DEF Sending, HandlerInv, GoodRequest
<1>4. Before(invitees, r.save)
  BY <1>1, <1>3, GrowsBefore
<1> HIDE DEF r
<1>5. /\ req[w] = r /\ req'[w] = None /\ \A v \in Workers : v # w => req'[v] = req[v]
      /\ Sending(r) /\ r.read = invitees /\ invitees' = r.save /\ r.emails = <<>>
  BY <1>1 DEF r
<1>6. ~Changing(None) /\ ~Late(None, invitees') /\ ~Late(r, invitees)
  BY <1>5 DEF Changing, Late, Sending
<1>7. CASE r.save = r.read
  <2>1. invitees' = invitees /\ ~Changing(r)
    BY <1>5, <1>7 DEF Changing
  <2>2. \A v \in Workers : /\ Changing(req'[v]) <=> Changing(req[v])
                           /\ Late(req[v], invitees) => Late(req'[v], invitees)
                           /\ Changing(req[v]) => req'[v].emails = req[v].emails /\ req'[v].save = req[v].save
    BY <1>5, <1>6, <2>1
  <2>3. Accounted(req', invitees, mails)
    BY <2>2, AccountedKept
  <2> QED
    BY <2>1, <2>3
<1>8. CASE r.save # r.read
  <2>1. ASSUME NEW v \in Workers, v # w, Sending(req[v])
        PROVE  Late(req'[v], invitees')
    <3>1. req[v] # None /\ req[v].read \in Lists /\ Before(req[v].read, invitees) /\ req'[v] = req[v]
      BY <1>2, <1>5, <2>1 DEF Sending
    <3>2. req[v].read # invitees'
      <4>1. SUFFICES ASSUME req[v].read = r.save
                     PROVE  FALSE
        BY <1>5
      <4>2. Before(r.save, invitees)
        BY <3>1, <4>1
      <4>3. r.save = invitees
        BY <1>1, <1>3, <1>4, <4>2, BeforeBoth
      <4> QED
        BY <4>3, <1>5, <1>8
    <3> QED
      BY <2>1, <3>1, <3>2 DEF Late
  <2>2. CASE \E v \in Workers : v # w /\ Sending(req[v])
    <3>1. \E v \in Workers : Late(req'[v], invitees')
      BY <2>1, <2>2
    <3> QED
      BY <3>1 DEF Accounted
  <2>3. CASE \A v \in Workers : v # w => ~Sending(req[v])
    <3>1. \A v \in Workers : v # w => ~Changing(req[v]) /\ ~Late(req[v], invitees)
      BY <2>3 DEF Changing, Late
    <3>2. Changing(r)
      BY <1>5, <1>8 DEF Changing
    <3>3. \A e \in Emails : mails[e] + Occurs(r.emails, e) = Cardinality(Named(r.save, e))
      BY <3>1, <3>2, <1>5, <1>6 DEF Accounted
    <3>4. \A e \in Emails : mails[e] = Cardinality(Named(invitees', e))
      BY <3>3, <1>1, <1>5, NothingOccursInEmpty
    <3>5. \A v \in Workers : ~Changing(req'[v])
      BY <3>1, <1>5, <1>6
    <3> QED
      BY <3>4, <3>5 DEF Accounted
  <2> QED
    BY <2>2, <2>3
<1> QED
  BY <1>7, <1>8

LEMMA MailStep ==
  ASSUME TypeOK, HandlerInv, ReadsInv, MailInv, [Next]_vars
  PROVE  MailInv'
<1>1. req \in [Workers -> Requests \cup {None}] /\ None \notin Requests /\ disturbed \in BOOLEAN
  BY InviteConstants DEF TypeOK
<1> SUFFICES ASSUME ~disturbed'
             PROVE  Accounted(req', invitees', mails')
  BY DEF MailInv
<1>2. ~disturbed => Accounted(req, invitees, mails)
  BY DEF MailInv
<1>3. CASE UNCHANGED vars
  BY <1>2, <1>3 DEF vars
<1>4. ASSUME NEW w \in Workers, StepOf(w)
      PROVE  Accounted(req', invitees', mails')
  <2>1. CASE /\ req[w] = None
             /\ \E r \in Requests :
                  /\ r.read = invitees /\ r.save = invitees
                  /\ req' = [req EXCEPT ![w] = r]
             /\ Quiet
    <3>1. PICK r \in Requests : r.read = invitees /\ r.save = invitees /\ req' = [req EXCEPT ![w] = r]
      BY <2>1
    <3>2. ~Changing(r) /\ ~Changing(None) /\ ~Late(None, invitees)
      BY <3>1 DEF Changing, Late, Sending
    <3>3. req[w] = None /\ req'[w] = r /\ \A v \in Workers : v # w => req'[v] = req[v]
      BY <1>1, <2>1, <3>1
    <3>4. \A v \in Workers : /\ Changing(req'[v]) <=> Changing(req[v])
                             /\ Late(req[v], invitees) => Late(req'[v], invitees)
                             /\ Changing(req[v]) => req'[v].emails = req[v].emails /\ req'[v].save = req[v].save
      BY <3>2, <3>3
    <3>5. Accounted(req', invitees, mails)
      BY <3>4, <1>2, <2>1, AccountedKept DEF Quiet
    <3> QED
      BY <3>5, <2>1 DEF Quiet
  <2>2. CASE /\ req[w] # None /\ req[w].pc = "check"
             /\ ~Walk(req[w].read, req[w].emails, clock).refused
             /\ req' = [req EXCEPT ![w] = Updated(req[w], clock)]
             /\ Quiet
    BY <1>2, <2>2, CheckAccounted DEF Quiet
  <2>3. CASE /\ req[w] # None /\ req[w].pc = "check"
             /\ req' = [req EXCEPT ![w] = None]
             /\ Quiet
    <3>1. ~Sending(req[w]) /\ ~Sending(None)
      BY <2>3 DEF Sending
    <3>2. req'[w] = None /\ \A v \in Workers : v # w => req'[v] = req[v]
      BY <1>1, <2>3
    <3>3. \A v \in Workers : /\ Changing(req'[v]) <=> Changing(req[v])
                             /\ Late(req[v], invitees) => Late(req'[v], invitees)
                             /\ Changing(req[v]) => req'[v].emails = req[v].emails /\ req'[v].save = req[v].save
      BY <3>1, <3>2 DEF Changing, Late
    <3>4. Accounted(req', invitees, mails)
      BY <3>3, <1>2, <2>3, AccountedKept DEF Quiet
    <3> QED
      BY <3>4, <2>3 DEF Quiet
  <2>4. CASE /\ Sending(req[w]) /\ req[w].emails # <<>>
             /\ mails' = [mails EXCEPT ![Head(req[w].emails)] = @ + 1]
             /\ req' = [req EXCEPT ![w] = Mailed(req[w])]
             /\ UNCHANGED <<invitees, clock, disturbed>>
    <3>1. Accounted(req', invitees, mails')
      BY <1>2, <2>4, MailedAccounted
    <3> QED
      BY <3>1, <2>4
  <2>5. CASE /\ Sending(req[w]) /\ req[w].emails = <<>>
             /\ invitees' = req[w].save
             /\ disturbed' = (disturbed \/ invitees # req[w].read)
             /\ req' = [req EXCEPT ![w] = None]
             /\ UNCHANGED <<clock, mails>>
    <3>1. Accounted(req', invitees', mails)
      BY <1>1, <1>2, <2>5, SavedAccounted
    <3> QED
      BY <3>1, <2>5
  <2> QED
    BY <1>4, <2>1, <2>2, <2>3, <2>4, <2>5 DEF StepOf
<1>5. CASE Stop
  <2>1. PICK W \in SUBSET Workers :
          /\ req' = [w \in Workers |-> IF w \in W THEN None ELSE req[w]]
          /\ disturbed' = (disturbed \/ \E w \in W : Sending(req[w]))
    BY <1>5 DEF Stop
  <2>2. ~disturbed /\ \A w \in W : ~Sending(req[w])
    BY <1>1, <2>1
  <2>3. \A v \in Workers : req'[v] = req[v] \/ (req'[v] = None /\ ~Sending(req[v]))
    BY <2>1, <2>2
  <2>4. \A v \in Workers : /\ Changing(req'[v]) <=> Changing(req[v])
                           /\ Late(req[v], invitees) => Late(req'[v], invitees)
                           /\ Changing(req[v]) => req'[v].emails = req[v].emails /\ req'[v].save = req[v].save
    <3>1. ~Sending(None)
      BY DEF Sending
    <3> QED
      BY <2>3, <3>1 DEF Changing, Late
  <2>5. Accounted(req', invitees, mails)
    BY <1>2, <2>2, <2>4, AccountedKept
  <2> QED
    BY <1>5, <2>5 DEF Stop
<1>6. CASE Tick
  BY <1>2, <1>6 DEF Tick
<1> QED
  BY <1>3, <1>4, <1>5, <1>6, Steps

-----------------------------------------------------------------------------
(* The theorems                                                            *)

LEMMA Initially ==
  ASSUME Init
  PROVE  InviteesInv
<1>1. PerDay \in Nat \ {0} /\ AtOnce \in Nat \ {0} /\ MaxClock \in Nat \ {0}
  BY InviteConstants
<1>2. <<>> \in Lists
  BY EmptySeq DEF Lists
<1>3. \A e : Named(<<>>, e) = {}
  BY DEF Named
<1>4. \A now : Fresh(<<>>, now) = {}
  BY DEF Fresh
<1>5. Cardinality({}) = 0
  BY FS_EmptySet
<1>6. TypeOK
  <2>1. invitees \in Lists /\ disturbed \in BOOLEAN
    BY <1>2, Zenon DEF Init
  <2>2. clock \in 0..MaxClock /\ mails \in [Emails -> Nat]
    BY <1>1 DEF Init
  <2>3. req \in [Workers -> Requests \cup {None}]
    BY DEF Init
  <2> QED
    BY <2>1, <2>2, <2>3 DEF TypeOK
<1>7. \A w \in Workers : req[w] = None
  BY DEF Init
<1>8. HandlerInv /\ ReadsInv
  BY <1>7 DEF HandlerInv, ReadsInv
<1>9. ListInv
  <2>1. Fresh(invitees, clock) = {}
    BY <1>4, Zenon DEF Init
  <2> QED
    BY <2>1, <1>1, <1>5 DEF ListInv, WithinDay
<1>10. MailInv
  <2>1. \A w \in Workers : ~Changing(req[w])
    BY <1>7 DEF Changing, Sending
  <2>2. \A e \in Emails : mails[e] = Cardinality(Named(invitees, e))
    BY <1>3, <1>5 DEF Init
  <2> QED
    BY <2>1, <2>2 DEF MailInv, Accounted
<1> QED
  BY <1>6, <1>8, <1>9, <1>10 DEF InviteesInv

LEMMA Invariant == Spec => []InviteesInv
<1>1. Init => InviteesInv
  BY Initially
<1>2. InviteesInv /\ [Next]_vars => InviteesInv'
  BY TypeStep, HandlerStep, ReadsStep, MailStep DEF InviteesInv
<1> QED
  BY <1>1, <1>2, PTL DEF Spec

\* The list, the requests in flight and the mails keep their types, after any
\* walk, whatever was typed.
THEOREM TypeCorrect == Spec => []TypeOK
<1>1. InviteesInv => TypeOK
  BY DEF InviteesInv
<1> QED
  BY <1>1, Invariant, PTL

\* The list never holds more recent invitations than one less than the limit of
\* a day and a request together, with any number of handlers in flight.
THEOREM DayLimitHolds == Spec => []DayLimitSoft
<1>1. InviteesInv => DayLimitSoft
  BY DEF InviteesInv, ListInv, WithinDay, Fresh, DayLimitSoft, Count
<1> QED
  BY <1>1, Invariant, PTL

\* When nothing is in flight, as many mails were queued for an address as there
\* are entries of it, unless a handler stopped half-way or saved an old list.
THEOREM MailsAreAccounted == Spec => []MailsMatchEntries
<1>1. InviteesInv => MailsMatchEntries
  <2> SUFFICES ASSUME InviteesInv, ~disturbed, \A w \in Workers : req[w] = None
               PROVE  \A e \in Emails : mails[e] = Cardinality(Named(invitees, e))
    BY DEF MailsMatchEntries, Count, Named
  <2>1. \A w \in Workers : ~Changing(req[w]) /\ ~Late(req[w], invitees)
    BY DEF Changing, Late, Sending
  <2> QED
    BY <2>1 DEF InviteesInv, MailInv, Accounted
<1> QED
  BY <1>1, Invariant, PTL

\* The walk does what it is for with the list of every state.
THEOREM WalkIsRight == Spec => []WalkMeetsEntries
<1>1. TypeOK => WalkMeetsEntries
  <2> SUFFICES ASSUME TypeOK, NEW emails \in Inputs
               PROVE  WalkMeets(invitees, emails, clock)
    BY DEF WalkMeetsEntries
  <2>1. invitees \in Lists /\ clock \in Nat
    BY InviteConstants DEF TypeOK
  <2> QED
    BY <2>1, WalkMeetsAll
<1> QED
  BY <1>1, TypeCorrect, PTL

\* Nothing but the save of a list that is out of date takes an entry or its
\* attempts away, and an entry is invited again a day later at the earliest.
THEOREM OnlyStaleSaves == Spec => OnlyStaleSaveForgets
<1> DEFINE Kept ==
      \/ \E w \in Workers : Save(w) /\ req[w].read # invitees
      \/ /\ Len(invitees') >= Len(invitees)
         /\ \A k \in DOMAIN invitees :
              \/ invitees'[k] = invitees[k]
              \/ /\ invitees'[k].email = invitees[k].email
                 /\ invitees'[k].attempts = invitees[k].attempts + 1
                 /\ invitees'[k].attempts <= MaxAttempts
                 /\ invitees'[k].at >= invitees[k].at + Day
<1>1. Grows(invitees, invitees') => Kept
  BY DEF Grows
<1>2. InviteesInv /\ [Next]_vars => [Kept]_vars
  <2> HIDE DEF Kept
  <2> SUFFICES ASSUME InviteesInv, Next
               PROVE  Kept
    OBVIOUS
  <2>1. invitees \in Lists /\ req \in [Workers -> Requests \cup {None}] /\ HandlerInv
    BY DEF InviteesInv, TypeOK
  <2>2. Grows(invitees, invitees)
    BY <2>1, GrowsSame
  <2>3. CASE \E w \in Workers : Save(w)
    <3>1. PICK w \in Workers : Save(w)
      BY <2>3
    <3>2. invitees' = req[w].save /\ Grows(req[w].read, req[w].save)
      BY <2>1, <3>1 DEF Save, HandlerInv, GoodRequest
    <3>3. CASE req[w].read = invitees
      BY <3>2, <3>3, <1>1
    <3>4. CASE req[w].read # invitees
      BY <3>1, <3>4 DEF Kept
    <3> QED
      BY <3>3, <3>4
  <2>4. CASE UNCHANGED invitees
    BY <2>2, <2>4, <1>1
  <2>5. (\E w \in Workers : Save(w)) \/ UNCHANGED invitees
    BY DEF Next, Begin, BeginOther, CheckAndUpdateInvitees, AccountExists, SendInvite, Fail, Tick
  <2> QED
    BY <2>3, <2>4, <2>5, Zenon
<1> QED
  BY <1>2, Invariant, PTL DEF Spec, OnlyStaleSaveForgets
=============================================================================
