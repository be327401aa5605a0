-------------------------- MODULE PaymentLifecycle --------------------------
(* What the payment gateway promises for one payment after another: it is  *)
(* opened once, converted on a complete IPN, and a failure is final.       *)
CONSTANT Txns
VARIABLE payment

States == {"none", "buying", "converted", "failed"}

Init == payment = [t \in Txns |-> "none"]

Move(t, from, to) ==
  /\ payment[t] \in from
  /\ payment' = [payment EXCEPT ![t] = to]

Open(t)    == Move(t, {"none"}, "buying")
Convert(t) == Move(t, {"buying", "converted"}, "converted")
Fail(t)    == Move(t, States \ {"none"}, "failed")

Next == \E t \in Txns : Open(t) \/ Convert(t) \/ Fail(t)

Spec == Init /\ [][Next]_payment
=============================================================================
