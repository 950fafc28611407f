---------------------------- MODULE MCControlBus ----------------------------
(* ControlBus on a carrier with Node ID 1 and a backplane with Node ID 2.   *)
EXTENDS ControlBus

CONSTANTS carrier, backplane, slot0

MCRole(u) == IF u = carrier THEN "Carrier" ELSE "Backplane"
MCInitialId(u) == IF u = carrier THEN 1 ELSE 2

Ctl(op, n) == [kind |-> "control", op |-> op, node |-> n]
SetFan(n, f, d) == [kind |-> "control", op |-> "SetFan", node |-> n, fan |-> f, duty |-> d]
Bind(n) == [kind |-> "control", op |-> "SetBinding", node |-> n, binding |-> slot0]
Status(n) == [kind |-> "status", op |-> "RequestStatus", node |-> n]
Scan(f) == [kind |-> "scan", op |-> "Discover", filter |-> f]
Assign(u, n) == [kind |-> "commissioning", op |-> "AssignNode", uid |-> u, node_id |-> n]
Clear(u) == [kind |-> "commissioning", op |-> "ClearNode", uid |-> u]

Setup(commands, lost, run_out, patience) ==
    [commands |-> commands, retries |-> 1, max_losses |-> lost,
     losses_run_out |-> run_out, patient |-> patience, io_fails |-> FALSE]

(* Two fan commands, one of them for the carrier, race a clear-node, and any
   answer may come too late.                                                *)
Delays == Setup(<<SetFan(1, 0, 50), SetFan(2, 1, 50), Clear(carrier)>>, 0, TRUE, FALSE)

(* A scan, a status query and a command to a node that is not there; one
   frame is lost.                                                           *)
Losses == Setup(<<Scan(NoId), Status(1), Bind(3)>>, 1, TRUE, TRUE)

(* Every frame may be lost, for ever.                                       *)
Endless == Setup(<<Status(1), Scan(2)>>, 1, FALSE, TRUE)

(* A broadcast emergency while the carrier's address is cleared and assigned.*)
Disaster ==
    Setup(<<Ctl("EmergencyDisable", 0), Clear(carrier), Assign(carrier, 3)>>, 0, TRUE, FALSE)

(* The interface of any process may fail.                                   *)
Failing ==
    [Setup(<<Ctl("EmergencyDisable", 0), Scan(NoId)>>, 1, TRUE, TRUE) EXCEPT !.io_fails = TRUE]

MCSetups == {Delays, Losses, Endless, Disaster, Failing}
=============================================================================
