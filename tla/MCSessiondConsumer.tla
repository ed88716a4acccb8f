------------------------- MODULE MCSessiondConsumer -------------------------
(* Instantiation of SessiondConsumer for TLC; the constants are given in   *)
(* the MCSessiondConsumer*.cfg files.                                      *)
EXTENDS SessiondConsumer

=============================================================================
