---------------------------- MODULE SimulatedNode ----------------------------
(***************************************************************************)
(* The simulated nodes of firmware/tools/pdcan-sim/src/lib.rs: what each   *)
(* keeps about its address, policy, fans, binding and emergency latch, and *)
(* what its commissioning and control handlers do to it.  Its firmware     *)
(* half is in UpdateNode.                                                  *)
(*                                                                         *)
(* A node is named by its immutable 96-bit UID.  PD limits are left out of *)
(* a policy: no handler of the simulator reads them.                       *)
(***************************************************************************)
EXTENDS Naturals

CONSTANTS
    Nodes,          \* the UIDs on the bus
    Role(_),        \* "Carrier" or "Backplane"
    InitialId(_),   \* the --node a simulator is started with
    NodeIds,        \* 1..254 in the source
    NoId,           \* None, of a node without a Node ID
    Bindings,       \* {backplane_uid, slot} pairs
    NoBinding,      \* None, of a carrier bound to no slot
    Duties,         \* fan duties, 0..100 in the source
    SAFE_DEFAULT    \* the duty of 100%

BROADCAST_NODE == 0
FanIds == {0, 1}

ASSUME NodeAssumption ==
    /\ NodeIds \subseteq Nat \ {BROADCAST_NODE}
    /\ NoId \notin NodeIds \cup {BROADCAST_NODE}
    /\ SAFE_DEFAULT \in Duties
    /\ \A u \in Nodes : /\ Role(u) \in {"Carrier", "Backplane"}
                        /\ InitialId(u) \in NodeIds \cup {NoId}

\* What every simulator keeps: node_id, state, enabled, fans, binding and
\* emergency_latched.
VARIABLE node

AllFansSafe == [f \in FanIds |-> SAFE_DEFAULT]

\* SimulatedNode::new.
NodeInit ==
    node = [u \in Nodes |->
        [node_id |-> InitialId(u),
         state |-> IF InitialId(u) = NoId THEN "Uncommissioned" ELSE "Commissioned",
         enabled |-> FALSE,
         fans |-> AllFansSafe,
         binding |-> NoBinding,
         emergency_latched |-> FALSE]]

-----------------------------------------------------------------------------
(***************************************************************************)
(* handle_control.  A request is [op, node] with the argument of its       *)
(* command: enabled, fan and duty, or binding.                             *)
(***************************************************************************)
\* Mutant: a node without a Node ID ignores every control frame.
Addressed_OnlyCommissioned(u, c) ==
    /\ node[u].node_id # NoId
    /\ \/ c.node = BROADCAST_NODE /\ c.op = "EmergencyDisable"
       \/ c.node = node[u].node_id

Addressed(u, c) ==
    \/ c.node = BROADCAST_NODE /\ c.op = "EmergencyDisable"
    \/ c.node = node[u].node_id

Supported(u, op) ==
    CASE op \in {"SetCarrierPolicy", "SetBinding"} -> Role(u) = "Carrier"
      [] op = "SetFan" -> Role(u) = "Backplane"
      [] OTHER -> TRUE

ControlResult(u, c) == IF Supported(u, c.op) THEN "Ok" ELSE "Unsupported"

\* What the command leaves of node n.
Control(n, c) ==
    CASE c.op = "EmergencyDisable" ->
            [n EXCEPT !.emergency_latched = TRUE, !.enabled = FALSE, !.fans = AllFansSafe]
      [] c.op = "AcknowledgeEmergency" -> [n EXCEPT !.emergency_latched = FALSE]
      [] c.op = "RequestStatus" -> n
      [] c.op = "SetCarrierPolicy" -> [n EXCEPT !.enabled = c.enabled]
      [] c.op = "SetFan" -> [n EXCEPT !.fans[c.fan] = c.duty]
      [] c.op = "SetBinding" -> [n EXCEPT !.binding = c.binding]

HandleControl(u, c) ==
    node' = IF Supported(u, c.op) THEN [node EXCEPT ![u] = Control(@, c)] ELSE node

\* node_state, as far as a property looks at it.
NodeState(u) ==
    [service |-> IF node[u].emergency_latched THEN "Faulted"
                 ELSE IF node[u].enabled THEN "Enabled" ELSE "Disabled",
     emergency_latched |-> node[u].emergency_latched]

-----------------------------------------------------------------------------
(***************************************************************************)
(* handle_commissioning.  Requests other than Discover name a UID.         *)
(***************************************************************************)
Commission(n, c) ==
    CASE c.op = "AssignNode" -> [n EXCEPT !.node_id = c.node_id, !.state = "Commissioned"]
      [] c.op = "ClearNode"  -> [n EXCEPT !.node_id = NoId, !.state = "Uncommissioned"]
      [] c.op \in {"Identify", "Discover"} -> n

HandleCommissioning(u, c) == node' = [node EXCEPT ![u] = Commission(@, c)]
=============================================================================
