------------------------------ MODULE CodeUse ------------------------------
(***************************************************************************)
(* What a verification code promises: it is issued, and then accepted or   *)
(* void, for good; only an accepted one is acted on, and only once.        *)
(***************************************************************************)
EXTENDS Naturals

CONSTANT Ids
VARIABLES code,  \* the state of every verification
          uses   \* how often something was done by its leave

Init == code = [i \in Ids |-> "none"] /\ uses = [i \in Ids |-> 0]

Become(i, from, to) ==
  /\ code[i] = from
  /\ code' = [code EXCEPT ![i] = to]
  /\ UNCHANGED uses

Use(i) ==
  /\ code[i] = "accepted"
  /\ uses[i] = 0
  /\ uses' = [uses EXCEPT ![i] = 1]
  /\ UNCHANGED code

Next == \E i \in Ids : \/ Become(i, "none", "open")
                       \/ Become(i, "open", "accepted")
                       \/ Become(i, "open", "void")
                       \/ Use(i)

Spec == Init /\ [][Next]_<<code, uses>>
=============================================================================
