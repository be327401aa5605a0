----------------------------- MODULE MCInvitees -----------------------------
(* A small instance of Invitees for TLC: an address typed in two ways and  *)
(* another one.                                                            *)
EXTENDS Invitees, TLC

Typed == {"a", "A", "b"}
InSmall(e) == IF e = "A" THEN "a" ELSE e
Requested == {<<"A">>, <<"b">>, <<"A", "A">>, <<"a", "A">>, <<"a", "b">>}
Handlers == Permutations(Workers)
=============================================================================
