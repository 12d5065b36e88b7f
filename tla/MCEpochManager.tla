--------------------------- MODULE MCEpochManager ---------------------------
(***************************************************************************)
(* The instance of EpochManager for TLC.  The readers run the same code    *)
(* and no property names one of them, so they are interchangeable.         *)
(***************************************************************************)
EXTENDS EpochManager, TLC

ReaderSymmetry == Permutations(Readers)
=============================================================================
