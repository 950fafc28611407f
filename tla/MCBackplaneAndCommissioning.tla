--------------------- MODULE MCBackplaneAndCommissioning ---------------------
(* The backplane's controller with its caller, and the commissioning of two  *)
(* nodes.  They share no state, so one of them is at work at a time.         *)
EXTENDS BackplaneNode, Commissioning

CONSTANT Parts

VARIABLE at_work

PartsInit ==
    /\ at_work \in Parts
    /\ Init /\ CommissioningInit
    /\ at_work # "commissioning" => \A u \in Nodes : node_id[u] = NoId

PartsNext ==
    /\ \/ at_work = "backplane" /\ Next /\ UNCHANGED commissioningVars
       \/ at_work = "commissioning" /\ CommissioningNext /\ UNCHANGED vars
    /\ UNCHANGED at_work

PartsSpec ==
    PartsInit /\ [][PartsNext]_<<at_work, vars, commissioningVars>> /\ ClaimFairness
=============================================================================
