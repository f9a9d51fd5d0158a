-------------------------------- MODULE MCRelay --------------------------------
(* A small instance of the relay: phases of two or three ticks, written in  *)
(* base two so that a cut leaves a shorter phase, and an operator who also  *)
(* types a negative time.                                                   *)
EXTENDS Relay

MCCalTimes == {-1, 2, 3}
MCPowers   == {2, 4}
================================================================================
