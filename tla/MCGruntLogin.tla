---------------------------- MODULE MCGruntLogin ----------------------------
(* GruntLogin with one login, or with a second after the player cancelled. *)
EXTENDS GruntLogin

CONSTANTS l1, l2
=============================================================================
