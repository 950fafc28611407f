---------------------------- MODULE Commissioning ----------------------------
(***************************************************************************)
(* Node-ID conflicts between the nodes of one bus: the Commissioning state *)
(* machine of firmware/crates/pdcan-core/src/lib.rs in every node, and the *)
(* claims they exchange.                                                   *)
(*                                                                         *)
(* The core decides only when normal traffic is safe.  What calls it is    *)
(* not written yet and is external here, as docs/pdcan/commissioning.md    *)
(* has it: a node with a Node ID claims it again and again, in conflict    *)
(* too; claims are lost and delayed like any frame; the claim window ends  *)
(* at any time; an assignment takes effect once it is persisted.           *)
(***************************************************************************)
EXTENDS Naturals

CONSTANTS
    Nodes,          \* the UIDs on the bus
    NodeIds,
    NoId,           \* no Node ID
    NoNode,         \* no conflicting UID
    MaxAssignments  \* bound: the assignments made

ASSUME CommissioningAssumption ==
    /\ NoId \notin NodeIds
    /\ NoNode \notin Nodes
    /\ MaxAssignments \in Nat

VARIABLES
    node_id, state, conflicting_uid,    \* per node, the Commissioning struct
    claims,         \* claims on their way: <<from, Node ID, to>>
    assignments,    \* how many assignments were made
    heard           \* history, per node: the other UIDs heard claiming its
                    \* Node ID since it was applied

core == <<node_id, state, conflicting_uid>>
commissioningVars == <<core, claims, assignments, heard>>

\* The state a Node ID is entered with.
Entry(id) == IF id = NoId THEN "Uncommissioned" ELSE "Claiming"

\* Every node boots with the Node ID it has persisted.
CommissioningInit ==
    /\ node_id \in [Nodes -> NodeIds \cup {NoId}]
    /\ state = [u \in Nodes |-> Entry(node_id[u])]
    /\ conflicting_uid = [u \in Nodes |-> NoNode]
    /\ claims = {}
    /\ assignments = 0
    /\ heard = [u \in Nodes |-> {}]

normal_traffic_allowed(u) == state[u] = "Commissioned"

\* Mutant: a node still in its claim window does not listen.
Collides_NotClaiming(u, from, id) ==
    node_id[u] = id /\ from # u /\ state[u] # "Claiming"

Collides(u, from, id) == node_id[u] = id /\ from # u

observe_claim(u, from, id) ==
    IF Collides(u, from, id)
    THEN /\ state' = [state EXCEPT ![u] = "AddressConflict"]
         /\ conflicting_uid' = [conflicting_uid EXCEPT ![u] = from]
         /\ UNCHANGED node_id
    ELSE UNCHANGED core

WindowOpen(u) == state[u] = "Claiming"

claim_window_complete(u) ==
    /\ WindowOpen(u)
    /\ state' = [state EXCEPT ![u] = "Commissioned"]
    /\ UNCHANGED <<node_id, conflicting_uid>>

\* A restart is an application of the Node ID the node already has.
apply_persisted_node_id(u, id) ==
    /\ node_id' = [node_id EXCEPT ![u] = id]
    /\ conflicting_uid' = [conflicting_uid EXCEPT ![u] = NoNode]
    /\ state' = [state EXCEPT ![u] = Entry(id)]

-----------------------------------------------------------------------------
\* Mutant: a node in conflict stops claiming.
Claims_NotInConflict(u) == node_id[u] # NoId /\ state[u] # "AddressConflict"

Claims(u) == node_id[u] # NoId

\* A node claims its Node ID to every other node.
Claim(u) ==
    /\ Claims(u)
    /\ claims' = claims \cup {<<u, node_id[u], v>> : v \in Nodes \ {u}}
    /\ UNCHANGED <<core, assignments, heard>>

HearClaim(from, u) ==
    \E id \in NodeIds :
        /\ <<from, id, u>> \in claims
        /\ claims' = claims \ {<<from, id, u>>}
        /\ observe_claim(u, from, id)
        /\ heard' = IF node_id[u] = id THEN [heard EXCEPT ![u] = @ \cup {from}] ELSE heard
        /\ UNCHANGED assignments

LoseClaim ==
    /\ \E c \in claims : claims' = claims \ {c}
    /\ UNCHANGED <<core, assignments, heard>>

CompleteWindow(u) ==
    /\ claim_window_complete(u)
    /\ UNCHANGED <<claims, assignments, heard>>

Apply(u, id) ==
    /\ assignments < MaxAssignments
    /\ assignments' = assignments + 1
    /\ apply_persisted_node_id(u, id)
    /\ heard' = [heard EXCEPT ![u] = {}]
    /\ UNCHANGED claims

CommissioningNext ==
    \/ \E u \in Nodes : Claim(u) \/ CompleteWindow(u)
    \/ \E from, u \in Nodes : HearClaim(from, u)
    \/ LoseClaim
    \/ \E u \in Nodes, id \in NodeIds \cup {NoId} : Apply(u, id)

CommissioningSpec == CommissioningInit /\ [][CommissioningNext]_commissioningVars

\* A node goes on claiming, and of claims repeated for ever some arrive.
ClaimFairness ==
    /\ \A u \in Nodes : WF_commissioningVars(Claim(u))
    /\ \A from, u \in Nodes : SF_commissioningVars(HearClaim(from, u))

-----------------------------------------------------------------------------
\* Type invariant.  A node has a state other than Uncommissioned exactly when it
\* has a Node ID, and names a conflicting UID, never its own, exactly when it is
\* in conflict.
CommissioningTypeOK ==
    \A u \in Nodes :
        /\ node_id[u] \in NodeIds \cup {NoId}
        /\ state[u] \in {"Uncommissioned", "Claiming", "Commissioned", "AddressConflict"}
        /\ (state[u] = "Uncommissioned") <=> (node_id[u] = NoId)
        /\ conflicting_uid[u] \in (Nodes \ {u}) \cup {NoNode}
        /\ (state[u] = "AddressConflict") <=> (conflicting_uid[u] # NoNode)

\* A node carries normal traffic only under a Node ID that it has heard nobody
\* else claim since it was given it, however the claims and the end of the
\* claim window interleave; and it is in conflict with a node it has heard.
TrafficOnlyUnderOwnId ==
    \A u \in Nodes :
        /\ normal_traffic_allowed(u) => heard[u] = {}
        /\ conflicting_uid[u] # NoNode => conflicting_uid[u] \in heard[u]

Duplicates(u, v) == u # v /\ node_id[u] = node_id[v] /\ node_id[u] # NoId

\* Two nodes with one Node ID both leave service and stay out of it, unless one
\* is given another (docs/pdcan/commissioning.md:22: "each enters
\* `AddressConflict`, suppresses ordinary operational traffic").
DuplicatesBothLeaveService ==
    \A u, v \in Nodes :
        <>[]Duplicates(u, v) => <>[](state[u] = "AddressConflict" /\ state[v] = "AddressConflict")
=============================================================================
