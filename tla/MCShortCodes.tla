---------------------------- MODULE MCShortCodes ----------------------------
(* Small instances of ShortCodes for TLC.  The alphabet has one character  *)
(* less than the mask has values, as in the code.                          *)
EXTENDS ShortCodes, TLC

CONSTANTS a

MCAlphabet == <<a>>

Symmetry == Permutations(Requests)
=============================================================================
