-------------------------- MODULE MCClickPipeline --------------------------
(* Small instances of ClickPipeline for TLC: clicks on one link.           *)
EXTENDS ClickPipeline, TLC

CONSTANTS x, t

MCEvents  == Clicks \X (1..Copies) \X (1..Deliveries)
MCKindOf  == [v \in Events |-> "click"]
MCCodeOf  == [v \in Events |-> x]
MCStampOf == [v \in Events |-> t]
=============================================================================
