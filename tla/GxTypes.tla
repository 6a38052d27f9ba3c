------------------------------- MODULE GxTypes -------------------------------
(* What every graphics device of src/gx has: texture units, and two kinds of *)
(* shader with constants.                                                    *)
EXTENDS Integers, Sequences, FiniteSets, SequencesExt

CONSTANTS NumUnits,  \* texture units (16)
          Indices    \* indices of shader constants

Units == 0..(NumUnits - 1)
Targets == {"vertex", "pixel"}
=============================================================================
