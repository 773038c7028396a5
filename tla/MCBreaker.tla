----------------------------- MODULE MCBreaker -----------------------------
(* Breaker for TLC. *)
EXTENDS Breaker

CONSTANTS c1, c2, c3

ThreeClients == {c1, c2, c3}
OneClient == {c1}
OtherClient == {c2}
=============================================================================
