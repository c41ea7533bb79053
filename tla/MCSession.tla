----------------------------- MODULE MCSession -----------------------------
(* Instances of Session for TLC. *)
EXTENDS Session

CONSTANTS Alice, Bob, Carol

AliceToBob == {<<Alice, Bob>>}
BothWays   == {<<Alice, Bob>>, <<Bob, Alice>>}
TwoToBob   == {<<Alice, Bob>>, <<Carol, Bob>>}
=============================================================================
