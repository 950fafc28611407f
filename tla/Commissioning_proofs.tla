------------------------ MODULE Commissioning_proofs ------------------------
(***************************************************************************)
(* Proofs about Commissioning: for every number of nodes and Node IDs, a   *)
(* node carries normal traffic only under a Node ID it has heard nobody    *)
(* else claim.                                                             *)
(***************************************************************************)
EXTENDS Commissioning, TLAPS

States == {"Uncommissioned", "Claiming", "Commissioned", "AddressConflict"}

\* What each node's commissioning state says about the rest of it.
Consistent(u) ==
    /\ (state[u] = "Uncommissioned") <=> (node_id[u] = NoId)
    /\ (state[u] = "AddressConflict") <=> (conflicting_uid[u] # NoNode)
    /\ state[u] # "AddressConflict" => heard[u] = {}
    /\ conflicting_uid[u] # NoNode => conflicting_uid[u] \in heard[u]

CommissioningInv ==
    /\ node_id \in [Nodes -> NodeIds \cup {NoId}]
    /\ state \in [Nodes -> States]
    /\ \A u \in Nodes : conflicting_uid[u] \in (Nodes \ {u}) \cup {NoNode}
    /\ DOMAIN conflicting_uid = Nodes
    /\ DOMAIN heard = Nodes
    /\ \A c \in claims : c[1] # c[3]
    /\ \A u \in Nodes : Consistent(u)

LEMMA CommissioningStarts == CommissioningInit => CommissioningInv
  BY CommissioningAssumption DEF CommissioningInit, CommissioningInv, Consistent, States, Entry

\* What the network does to claims leaves the nodes alone.
LEMMA ClaimKeeps ==
    ASSUME CommissioningInv, NEW u \in Nodes, Claim(u)
    PROVE  CommissioningInv'
  <1>1. /\ node_id[u] \in NodeIds
        /\ claims' = claims \cup {<<u, node_id[u], v>> : v \in Nodes \ {u}}
        /\ UNCHANGED <<node_id, state, conflicting_uid, heard>>
    BY DEF Claim, Claims, core, CommissioningInv
  <1>2. \A c \in claims' : c[1] # c[3]
    BY <1>1 DEF CommissioningInv
  <1> QED
    BY <1>1, <1>2 DEF CommissioningInv, Consistent

LEMMA HearClaimKeeps ==
    ASSUME CommissioningInv, NEW from \in Nodes, NEW u \in Nodes, HearClaim(from, u)
    PROVE  CommissioningInv'
  <1>1. PICK id \in NodeIds :
            /\ <<from, id, u>> \in claims
            /\ claims' = claims \ {<<from, id, u>>}
            /\ observe_claim(u, from, id)
            /\ heard' = IF node_id[u] = id THEN [heard EXCEPT ![u] = @ \cup {from}] ELSE heard
    BY DEF HearClaim
  <1>2. from # u
    BY <1>1 DEF CommissioningInv
  <1>3. CASE node_id[u] = id
    <2>1. /\ state' = [state EXCEPT ![u] = "AddressConflict"]
          /\ conflicting_uid' = [conflicting_uid EXCEPT ![u] = from]
          /\ node_id' = node_id
          /\ heard' = [heard EXCEPT ![u] = heard[u] \cup {from}]
      BY <1>1, <1>2, <1>3 DEF observe_claim, Collides
    <2>2. \A v \in Nodes : Consistent(v)'
      <3>1. Consistent(u)'
        BY <1>3, <2>1, CommissioningAssumption DEF Consistent, CommissioningInv
      <3>2. ASSUME NEW v \in Nodes, v # u PROVE Consistent(v)'
        BY <2>1, <3>2 DEF Consistent, CommissioningInv
      <3> QED
        BY <3>1, <3>2
    <2> QED
      BY <1>1, <1>2, <2>1, <2>2 DEF CommissioningInv, States
  <1>4. CASE node_id[u] # id
    <2>1. UNCHANGED <<node_id, state, conflicting_uid, heard>>
      BY <1>1, <1>4 DEF observe_claim, Collides, core
    <2> QED
      BY <1>1, <2>1 DEF CommissioningInv, Consistent
  <1> QED
    BY <1>3, <1>4

LEMMA CompleteWindowKeeps ==
    ASSUME CommissioningInv, NEW u \in Nodes, CompleteWindow(u)
    PROVE  CommissioningInv'
  <1>1. /\ state[u] = "Claiming"
        /\ state' = [state EXCEPT ![u] = "Commissioned"]
        /\ UNCHANGED <<node_id, conflicting_uid, claims, heard>>
    BY DEF CompleteWindow, claim_window_complete, WindowOpen
  <1>2. \A v \in Nodes : Consistent(v)'
    BY <1>1 DEF CommissioningInv, Consistent
  <1> QED
    BY <1>1, <1>2 DEF CommissioningInv, States

LEMMA ApplyKeeps ==
    ASSUME CommissioningInv, NEW u \in Nodes, NEW id \in NodeIds \cup {NoId}, Apply(u, id)
    PROVE  CommissioningInv'
  <1>1. /\ node_id' = [node_id EXCEPT ![u] = id]
        /\ conflicting_uid' = [conflicting_uid EXCEPT ![u] = NoNode]
        /\ state' = [state EXCEPT ![u] = Entry(id)]
        /\ heard' = [heard EXCEPT ![u] = {}]
        /\ claims' = claims
    BY DEF Apply, apply_persisted_node_id
  <1>2. \A v \in Nodes : Consistent(v)'
    <2>1. Consistent(u)'
      BY <1>1 DEF CommissioningInv, Consistent, Entry
    <2>2. ASSUME NEW v \in Nodes, v # u PROVE Consistent(v)'
      BY <1>1, <2>2 DEF CommissioningInv, Consistent
    <2> QED
      BY <2>1, <2>2
  <1> QED
    BY <1>1, <1>2 DEF CommissioningInv, States, Entry

\* The invariant holds in every reachable state.
THEOREM CommissioningInductive == CommissioningSpec => []CommissioningInv
  <1>1. CommissioningInv /\ [CommissioningNext]_commissioningVars => CommissioningInv'
    <2> SUFFICES ASSUME CommissioningInv, [CommissioningNext]_commissioningVars PROVE CommissioningInv'
      OBVIOUS
    <2>1. ASSUME NEW u \in Nodes, Claim(u) PROVE CommissioningInv'
      BY <2>1, ClaimKeeps
    <2>2. ASSUME NEW u \in Nodes, CompleteWindow(u) PROVE CommissioningInv'
      BY <2>2, CompleteWindowKeeps
    <2>3. ASSUME NEW from \in Nodes, NEW u \in Nodes, HearClaim(from, u) PROVE CommissioningInv'
      BY <2>3, HearClaimKeeps
    <2>4. ASSUME NEW u \in Nodes, NEW id \in NodeIds \cup {NoId}, Apply(u, id)
          PROVE CommissioningInv'
      BY <2>4, ApplyKeeps
    <2>5. CASE LoseClaim
      BY <2>5 DEF LoseClaim, CommissioningInv, Consistent, core
    <2>6. CASE UNCHANGED commissioningVars
      BY <2>6 DEF commissioningVars, CommissioningInv, Consistent, core
    <2> QED
      BY <2>1, <2>2, <2>3, <2>4, <2>5, <2>6 DEF CommissioningNext
  <1> QED
    BY CommissioningStarts, <1>1, PTL DEF CommissioningSpec

\* A node's commissioning state always agrees with its Node ID and with the UID
\* it is in conflict with.
THEOREM CommissioningTypeCorrect == CommissioningSpec => []CommissioningTypeOK
  <1>1. CommissioningInv => CommissioningTypeOK
    BY DEF CommissioningInv, CommissioningTypeOK, Consistent, States
  <1> QED
    BY CommissioningInductive, <1>1, PTL

\* A node carries normal traffic only under a Node ID it has heard nobody else
\* claim since it was given it.
THEOREM TrafficCorrect == CommissioningSpec => []TrafficOnlyUnderOwnId
  <1>1. CommissioningInv => TrafficOnlyUnderOwnId
    BY DEF CommissioningInv, TrafficOnlyUnderOwnId, normal_traffic_allowed, Consistent
  <1> QED
    BY CommissioningInductive, <1>1, PTL
=============================================================================
