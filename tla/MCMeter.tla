-------------------------------- MODULE MCMeter --------------------------------
(***************************************************************************)
(* Meter with frames of five bytes of four values: one whose checksum is   *)
(* like the sync byte, one with a header among its values besides, and a   *)
(* clean one.                                                              *)
(***************************************************************************)
EXTENDS Meter

MCReadings == {[f \in Field |-> IF f = 2 THEN 3 ELSE 0],
               [f \in Field |-> IF f = 2 THEN SYNC ELSE LENGTH],
               [f \in Field |-> 1]}
=============================================================================
