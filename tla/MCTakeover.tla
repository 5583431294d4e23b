----------------------------- MODULE MCTakeover -----------------------------
(* Instances of Takeover. *)
EXTENDS Takeover

TwoDigits == {<<1, 0>>, <<1, 1>>, <<1, 2>>}
OneOrTwoDigits == {<<9>>, <<1, 0>>, <<1, 1>>}
=============================================================================
