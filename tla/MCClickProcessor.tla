-------------------------- MODULE MCClickProcessor --------------------------
(* Small instances of ClickProcessor for TLC.                              *)
EXTENDS ClickProcessor, TLC

CONSTANTS
  v1, v2,   \* two clicks on one code in one millisecond: their dead letter keys collide
  v3,       \* a click on another code
  a1,       \* an analytics event
  x, y,     \* short codes
  t

MCKindOf  == [v \in Events |-> IF v = a1 THEN "analytics" ELSE "click"]
MCCodeOf  == [v \in Events |-> IF v = v3 THEN y ELSE x]
MCStampOf == [v \in Events |-> t]

CallSymmetry == Permutations(Calls)
=============================================================================
