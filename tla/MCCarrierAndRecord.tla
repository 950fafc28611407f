------------------------- MODULE MCCarrierAndRecord -------------------------
(* The carrier's controller with its caller, and the configuration record.   *)
(* They share no state, so one of them is at work at a time.                 *)
EXTENDS MCCarrierNode, ConfigRecord

CONSTANT Parts

VARIABLE at_work

PartsInit == at_work \in Parts /\ NodeInit /\ RecordInit

PartsNext ==
    /\ \/ at_work = "carrier" /\ NodeNext /\ UNCHANGED recordVars
       \/ at_work = "record" /\ RecordNext /\ UNCHANGED nodeVars
    /\ UNCHANGED at_work

PartsSpec == PartsInit /\ [][PartsNext]_<<at_work, nodeVars, recordVars>>
=============================================================================
