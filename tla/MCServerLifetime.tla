--------------------------- MODULE MCServerLifetime ---------------------------
(* Instance of ServerLifetime for TLC. *)
EXTENDS ServerLifetime, TLC

CONSTANTS h1, h2, h3, r1

ThreeHandshakes == {h1, h2, h3}
TwoHandshakes == {h1, h2}
OneRequest == {r1}
==============================================================================
