---------------------------- MODULE MCGeneExchange ----------------------------
(* Two users who ask the same third one: each hears the answer to the      *)
(* other, and both requests may reach the third badge.                     *)
EXTENDS GeneExchange

CONSTANTS a, b, c

Rivals == {<<a, c>>, <<b, c>>}
=============================================================================
