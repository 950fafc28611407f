-------------------------- MODULE ControlBus_proofs --------------------------
(***************************************************************************)
(* Proofs about ControlBus, for every number of nodes and pdcan processes, *)
(* any commands and retries, and any loss and delay of frames.             *)
(*                                                                         *)
(* What a command reports is traced from the reply it reads back to the    *)
(* node that handled the request (Heard, Earned).  That retries suffice    *)
(* rests on an account of the losses (Served): a node that a process waits *)
(* for owes it an answer of the current attempt, or there have been more   *)
(* losses than attempts before it.                                         *)
(***************************************************************************)
EXTENDS ControlBus, SequenceTheorems, TLAPS

Results == {"Ok", "Unsupported"}

NodeRecords ==
    [node_id : NodeIds \cup {NoId}, state : {"Uncommissioned", "Commissioned"},
     enabled : BOOLEAN, fans : [FanIds -> Duties], binding : Bindings \cup {NoBinding},
     emergency_latched : BOOLEAN]

Ops == {"EmergencyDisable", "AcknowledgeEmergency", "SetCarrierPolicy", "SetFan",
        "SetBinding", "RequestStatus", "AssignNode", "ClearNode", "Identify", "Discover"}

Bodies == [service : {"Faulted", "Enabled", "Disabled"}, emergency_latched : BOOLEAN]

\* The replies there are.
Verdicts == [kind : {"Response", "Result"}, request : Invocations, op : Ops, result : Results]
States == [kind : {"NodeState"}, node : NodeIds, body : Bodies]
Infos == [kind : {"NodeInfo"}, node : NodeIds]
Discoveries ==
    [kind : {"DiscoveryResponse"}, nonce : Invocations, uid : Nodes,
     node_id : NodeIds \cup {NoId}]

Frames == Verdicts \cup States \cup Infos \cup Discoveries

HostStates ==
    [pc : {"idle", "waiting"} \cup Exits, attempt : Nat, got : SUBSET (Nodes \cup StatusParts)]

BusShapes ==
    /\ setup \in Setups
    /\ node \in [Nodes -> NodeRecords]
    /\ inbox \in [Nodes -> Seq(Invocations)]
    /\ socket \in [Invocations -> Seq(Frames)]
    /\ host \in [Invocations -> HostStates]
    /\ losses \in Nat

-----------------------------------------------------------------------------
\* Some node has handled request i with that result.
Happened(i, result) == \E h \in handled : h.request = i /\ h.result = result

\* What invocation i has yet to read, it can read, and it has happened.
Heard(i) ==
    \A r \in Range(socket[i]) :
        /\ r.kind \in Reads(i)
        /\ r.kind \in {"Response", "Result"} => Happened(r.request, r.result)
        /\ r.kind = "DiscoveryResponse" => Happened(r.nonce, "Ok")

\* What it has got, and what it exits with, has happened.
Earned(i, h) ==
    /\ Kind(i) = "scan" /\ h.got # {} => Happened(i, "Ok")
    /\ Kind(i) = "status" /\ "accepted" \in h.got => Happened(i, "Ok")
    /\ h.pc = "ok" /\ ~ Broadcast(i) => Happened(i, "Ok")
    /\ h.pc = "NodeRejected" => Happened(i, "Unsupported")

Honest == \A i \in Invocations : Heard(i) /\ Earned(i, host[i])

BusInv == BusShapes /\ Honest

-----------------------------------------------------------------------------
\* Queues.
LEMMA Appended ==
    ASSUME NEW S, NEW q \in Seq(S), NEW x \in S
    PROVE  Append(q, x) \in Seq(S) /\ Range(Append(q, x)) = Range(q) \cup {x}
<1>1. /\ Append(q, x) \in Seq(S) /\ Len(Append(q, x)) = Len(q) + 1
      /\ \A k \in 1..Len(q) : Append(q, x)[k] = q[k]
      /\ Append(q, x)[Len(q) + 1] = x
      /\ Len(q) \in Nat /\ DOMAIN q = 1..Len(q)
      /\ DOMAIN Append(q, x) = 1..(Len(q) + 1)
  BY AppendProperties, LenProperties
<1>2. 1..(Len(q) + 1) = 1..Len(q) \cup {Len(q) + 1}
  BY <1>1
<1> QED
  BY <1>1, <1>2 DEF Range

LEMMA Joined ==
    ASSUME NEW S, NEW p \in Seq(S), NEW q \in Seq(S)
    PROVE  p \o q \in Seq(S) /\ Range(p \o q) = Range(p) \cup Range(q)
<1>1. /\ p \o q \in Seq(S) /\ Len(p \o q) = Len(p) + Len(q)
      /\ \A k \in 1..(Len(p) + Len(q)) :
            (p \o q)[k] = IF k <= Len(p) THEN p[k] ELSE q[k - Len(p)]
      /\ Len(p) \in Nat /\ Len(q) \in Nat
      /\ DOMAIN p = 1..Len(p) /\ DOMAIN q = 1..Len(q)
      /\ DOMAIN (p \o q) = 1..(Len(p) + Len(q))
  BY ConcatProperties, LenProperties
<1>2. Range(p \o q) \subseteq Range(p) \cup Range(q)
  <2> SUFFICES ASSUME NEW k \in 1..(Len(p) + Len(q))
               PROVE  (p \o q)[k] \in Range(p) \cup Range(q)
    BY <1>1 DEF Range
  <2>1. CASE k <= Len(p)
    BY <1>1, <2>1 DEF Range
  <2>2. CASE k > Len(p)
    <3>1. k - Len(p) \in 1..Len(q) /\ (p \o q)[k] = q[k - Len(p)]
      BY <1>1, <2>2
    <3> QED
      BY <1>1, <3>1 DEF Range
  <2> QED
    BY <1>1, <2>1, <2>2
<1>3. \A k \in 1..Len(p) : k \in 1..(Len(p) + Len(q)) /\ (p \o q)[k] = p[k]
  BY <1>1
<1>4. \A k \in 1..Len(q) :
         Len(p) + k \in 1..(Len(p) + Len(q)) /\ (p \o q)[Len(p) + k] = q[k]
  BY <1>1
<1>5. Range(p) \subseteq Range(p \o q)
  BY <1>1, <1>3 DEF Range
<1>6. Range(q) \subseteq Range(p \o q)
  <2> SUFFICES ASSUME NEW k \in 1..Len(q) PROVE q[k] \in Range(p \o q)
    BY <1>1 DEF Range
  <2>1. Len(p) + k \in DOMAIN (p \o q) /\ (p \o q)[Len(p) + k] = q[k]
    BY <1>1, <1>4
  <2> QED
    BY <2>1 DEF Range
<1> QED
  BY <1>1, <1>2, <1>5, <1>6

LEMMA Removed ==
    ASSUME NEW S, NEW q \in Seq(S), q # <<>>
    PROVE  /\ Tail(q) \in Seq(S) /\ Head(q) \in S
           /\ Range(q) = {Head(q)} \cup Range(Tail(q))
<1>1. /\ Tail(q) \in Seq(S) /\ Head(q) \in S
      /\ Head(q) = q[1] /\ Len(q) \in Nat /\ Len(Tail(q)) = Len(q) - 1
      /\ \A k \in 1..(Len(q) - 1) : Tail(q)[k] = q[k + 1]
      /\ DOMAIN q = 1..Len(q) /\ DOMAIN Tail(q) = 1..(Len(q) - 1)
      /\ Len(q) # 0
  BY HeadTailProperties, LenProperties, EmptySeq
<1>2. Range(q) \subseteq {Head(q)} \cup Range(Tail(q))
  <2> SUFFICES ASSUME NEW k \in 1..Len(q) PROVE q[k] \in {Head(q)} \cup Range(Tail(q))
    BY <1>1 DEF Range
  <2>1. CASE k = 1
    BY <1>1, <2>1
  <2>2. CASE k # 1
    <3>1. k - 1 \in 1..(Len(q) - 1) /\ q[k] = Tail(q)[k - 1]
      BY <1>1, <2>2
    <3> QED
      BY <1>1, <3>1 DEF Range
  <2> QED
    BY <2>1, <2>2
<1>3. Range(Tail(q)) \subseteq Range(q) /\ Head(q) \in Range(q)
  BY <1>1 DEF Range
<1> QED
  BY <1>1, <1>2, <1>3

LEMMA Nothing ==
    ASSUME NEW S
    PROVE  <<>> \in Seq(S) /\ Range(<<>>) = {}
BY EmptySeq DEF Range

LEMMA Single ==
    ASSUME NEW S, NEW x \in S
    PROVE  <<x>> \in Seq(S) /\ Range(<<x>>) = {x}
BY DEF Range

LEMMA ContainsIsRange ==
    ASSUME NEW S, NEW q \in Seq(S), NEW x
    PROVE  Contains(q, x) <=> x \in Range(q)
BY LenProperties DEF Contains, Range

-----------------------------------------------------------------------------
\* A command is one of the assumed form.
LEMMA CommandTyped ==
    ASSUME setup \in Setups, NEW i \in Invocations
    PROVE  /\ Command(i) \in Commands
           /\ Retries \in Nat /\ setup.max_losses \in Nat
           /\ Kind(i) \in {"control", "status", "commissioning", "scan"}
           /\ Command(i).op \in Ops
           /\ Kind(i) = "control" => Command(i).node \in NodeIds \cup {BROADCAST_NODE}
           /\ Kind(i) = "control" =>
                 Command(i).op \in {"EmergencyDisable", "AcknowledgeEmergency",
                                    "SetCarrierPolicy", "SetFan", "SetBinding"}
           /\ Kind(i) = "status" => Command(i).node \in NodeIds /\ Command(i).op = "RequestStatus"
           /\ Kind(i) = "scan" =>
                 Command(i).filter \in NodeIds \cup {NoId} /\ Command(i).op = "Discover"
           /\ Kind(i) = "commissioning" =>
                 Command(i).op \in {"AssignNode", "ClearNode", "Identify"}
<1>1. Command(i) \in Commands /\ Retries \in Nat /\ setup.max_losses \in Nat
  BY BusAssumption DEF Command, Invocations, Retries
<1> QED
  BY <1>1 DEF Commands, Kind, Ops

LEMMA SetupFixed ==
    ASSUME setup' = setup
    PROVE  /\ Invocations' = Invocations /\ Retries' = Retries
           /\ \A i : /\ Command(i)' = Command(i) /\ Kind(i)' = Kind(i)
                     /\ Broadcast(i)' = Broadcast(i) /\ Reads(i)' = Reads(i)
           /\ Frames' = Frames
<1>1. /\ Invocations' = Invocations /\ Retries' = Retries
      /\ \A i : Command(i)' = Command(i) /\ Kind(i)' = Kind(i)
  BY DEF Invocations, Retries, Command, Kind
<1>2. \A i : Broadcast(i)' = Broadcast(i) /\ Reads(i)' = Reads(i)
  BY <1>1 DEF Broadcast, Reads
<1>3. Frames' = Frames
  BY <1>1 DEF Frames, Verdicts, States, Infos, Discoveries
<1> QED
  BY <1>1, <1>2, <1>3

-----------------------------------------------------------------------------
\* What a node answers.
ResponseTo(u, i) ==
    [kind |-> "Response", request |-> i, op |-> Command(i).op,
     result |-> ControlResult(u, Command(i))]
StateFor(u, i) == [kind |-> "NodeState", node |-> Command(i).node, body |-> NodeState(u)]
InfoFor(i) == [kind |-> "NodeInfo", node |-> Command(i).node]
ResultOf(i) == [kind |-> "Result", request |-> i, op |-> Command(i).op, result |-> "Ok"]
DiscoveryOf(u, i) ==
    [kind |-> "DiscoveryResponse", nonce |-> i, uid |-> u, node_id |-> node[u].node_id]

LEMMA RepliesAre ==
    ASSUME NEW u, NEW i, NEW j
    PROVE  /\ Kind(i) = "control" /\ node[u].node_id = NoId => Replies(u, i, j) = <<>>
           /\ Kind(i) = "control" /\ node[u].node_id # NoId =>
                 Replies(u, i, j) = Seen(j, ResponseTo(u, i))
           /\ Kind(i) = "status" =>
                 Replies(u, i, j) = Seen(j, ResponseTo(u, i)) \o Seen(j, StateFor(u, i))
                                        \o Seen(j, InfoFor(i))
           /\ Kind(i) = "commissioning" => Replies(u, i, j) = Seen(j, ResultOf(i))
           /\ Kind(i) = "scan" => Replies(u, i, j) = Seen(j, DiscoveryOf(u, i))
BY DEF Replies, Kind, ResponseTo, StateFor, InfoFor, ResultOf, DiscoveryOf

LEMMA SeenIs ==
    ASSUME NEW j, NEW r \in Frames
    PROVE  /\ Seen(j, r) \in Seq(Frames)
           /\ Range(Seen(j, r)) = IF r.kind \in Reads(j) THEN {r} ELSE {}
BY Single, Nothing DEF Seen

LEMMA FramesSent ==
    ASSUME BusShapes, NEW u \in Nodes, NEW i \in Invocations
    PROVE  /\ ControlResult(u, Command(i)) \in Results
           /\ ResponseTo(u, i) \in Frames /\ ResultOf(i) \in Frames /\ DiscoveryOf(u, i) \in Frames
           /\ Kind(i) = "status" => StateFor(u, i) \in Frames /\ InfoFor(i) \in Frames
<1>1. /\ Command(i).op \in Ops
      /\ Kind(i) = "status" => Command(i).node \in NodeIds
  BY CommandTyped DEF BusShapes
<1>2. ControlResult(u, Command(i)) \in Results
  BY DEF ControlResult, Results
<1>3. ResponseTo(u, i) \in Verdicts
  BY <1>1, <1>2 DEF ResponseTo, Verdicts
<1>4. ResultOf(i) \in Verdicts
  BY <1>1 DEF ResultOf, Verdicts, Results
<1>5. node[u] \in NodeRecords
  BY DEF BusShapes
<1>6. DiscoveryOf(u, i) \in Discoveries
  BY <1>5 DEF DiscoveryOf, Discoveries, NodeRecords
<1>7. NodeState(u) \in Bodies
  BY <1>5 DEF NodeState, Bodies, NodeRecords
<1>8. Kind(i) = "status" => StateFor(u, i) \in States /\ InfoFor(i) \in Infos
  BY <1>1, <1>7 DEF StateFor, InfoFor, States, Infos
<1> QED
  BY <1>2, <1>3, <1>4, <1>6, <1>8 DEF Frames

\* The frames invocation j may read of what node u answers request i.
LEMMA RepliesRange ==
    ASSUME BusShapes, NEW u \in Nodes, NEW i \in Invocations, NEW j \in Invocations
    PROVE  /\ Replies(u, i, j) \in Seq(Frames)
           /\ \A r \in Range(Replies(u, i, j)) :
                 /\ r.kind \in Reads(j)
                 /\ \/ Kind(i) \in {"control", "status"} /\ r = ResponseTo(u, i)
                    \/ Kind(i) = "status" /\ r \in {StateFor(u, i), InfoFor(i)}
                    \/ Kind(i) = "commissioning" /\ r = ResultOf(i)
                    \/ Kind(i) = "scan" /\ r = DiscoveryOf(u, i)
           /\ Kind(i) = "control" /\ node[u].node_id # NoId =>
                 \A r \in {ResponseTo(u, i)} :
                    r.kind \in Reads(j) => r \in Range(Replies(u, i, j))
           /\ Kind(i) = "status" =>
                 \A r \in {ResponseTo(u, i), StateFor(u, i), InfoFor(i)} :
                    r.kind \in Reads(j) => r \in Range(Replies(u, i, j))
           /\ Kind(i) = "scan" =>
                 \A r \in {DiscoveryOf(u, i)} :
                    r.kind \in Reads(j) => r \in Range(Replies(u, i, j))
<1>1. Kind(i) \in {"control", "status", "commissioning", "scan"}
  BY CommandTyped DEF BusShapes
<1>2. CASE Kind(i) = "control"
  <2>1. Replies(u, i, j) = <<>> \/ Replies(u, i, j) = Seen(j, ResponseTo(u, i))
    BY <1>2, RepliesAre
  <2>2. node[u].node_id # NoId => Replies(u, i, j) = Seen(j, ResponseTo(u, i))
    BY <1>2, RepliesAre
  <2>3. /\ <<>> \in Seq(Frames) /\ Range(<<>>) = {}
        /\ Seen(j, ResponseTo(u, i)) \in Seq(Frames)
        /\ Range(Seen(j, ResponseTo(u, i)))
              = IF ResponseTo(u, i).kind \in Reads(j) THEN {ResponseTo(u, i)} ELSE {}
    BY FramesSent, SeenIs, Nothing
  <2> QED
    BY <1>2, <2>1, <2>2, <2>3
<1>3. CASE Kind(i) = "status"
  <2> DEFINE a == Seen(j, ResponseTo(u, i))
             b == Seen(j, StateFor(u, i))
             c == Seen(j, InfoFor(i))
  <2>1. Replies(u, i, j) = (a \o b) \o c
    BY <1>3, RepliesAre
  <2>2. /\ a \in Seq(Frames) /\ b \in Seq(Frames) /\ c \in Seq(Frames)
        /\ Range(a) = IF ResponseTo(u, i).kind \in Reads(j) THEN {ResponseTo(u, i)} ELSE {}
        /\ Range(b) = IF StateFor(u, i).kind \in Reads(j) THEN {StateFor(u, i)} ELSE {}
        /\ Range(c) = IF InfoFor(i).kind \in Reads(j) THEN {InfoFor(i)} ELSE {}
    BY <1>3, FramesSent, SeenIs
  <2> HIDE DEF a, b, c
  <2> DEFINE ab == a \o b
  <2>3. ab \in Seq(Frames) /\ Range(ab) = Range(a) \cup Range(b)
    BY <2>2, Joined
  <2>4. Replies(u, i, j) = ab \o c
    BY <2>1
  <2> HIDE DEF ab
  <2>5. /\ Replies(u, i, j) \in Seq(Frames)
        /\ Range(Replies(u, i, j)) = Range(ab) \cup Range(c)
    BY <2>2, <2>3, <2>4, Joined
  <2> QED
    BY <1>3, <2>2, <2>3, <2>5
<1>4. CASE Kind(i) = "commissioning"
  <2>1. Replies(u, i, j) = Seen(j, ResultOf(i))
    BY <1>4, RepliesAre
  <2>2. /\ Seen(j, ResultOf(i)) \in Seq(Frames)
        /\ Range(Seen(j, ResultOf(i)))
              = IF ResultOf(i).kind \in Reads(j) THEN {ResultOf(i)} ELSE {}
    BY FramesSent, SeenIs
  <2> QED
    BY <1>4, <2>1, <2>2
<1>5. CASE Kind(i) = "scan"
  <2>1. Replies(u, i, j) = Seen(j, DiscoveryOf(u, i))
    BY <1>5, RepliesAre
  <2>2. /\ Seen(j, DiscoveryOf(u, i)) \in Seq(Frames)
        /\ Range(Seen(j, DiscoveryOf(u, i)))
              = IF DiscoveryOf(u, i).kind \in Reads(j) THEN {DiscoveryOf(u, i)} ELSE {}
    BY FramesSent, SeenIs
  <2> QED
    BY <1>5, <2>1, <2>2
<1> QED
  BY <1>1, <1>2, <1>3, <1>4, <1>5

\* What it owes the invocation that asked.
LEMMA RepliesOwed ==
    ASSUME BusShapes, NEW u \in Nodes, NEW i \in Invocations
    PROVE  /\ Kind(i) = "control" /\ node[u].node_id # NoId =>
                 ResponseTo(u, i) \in Range(Replies(u, i, i))
           /\ Kind(i) = "status" =>
                 {ResponseTo(u, i), StateFor(u, i), InfoFor(i)} \subseteq Range(Replies(u, i, i))
           /\ Kind(i) = "scan" => DiscoveryOf(u, i) \in Range(Replies(u, i, i))
<1>1. /\ ResponseTo(u, i).kind = "Response" /\ StateFor(u, i).kind = "NodeState"
      /\ InfoFor(i).kind = "NodeInfo" /\ DiscoveryOf(u, i).kind = "DiscoveryResponse"
  BY DEF ResponseTo, StateFor, InfoFor, DiscoveryOf
<1>2. /\ Kind(i) = "control" => "Response" \in Reads(i)
      /\ Kind(i) = "status" => {"Response", "NodeState", "NodeInfo"} \subseteq Reads(i)
      /\ Kind(i) = "scan" => "DiscoveryResponse" \in Reads(i)
  BY DEF Reads
<1> QED
  BY <1>1, <1>2, RepliesRange

-----------------------------------------------------------------------------
\* What a request does to the node that handles it.
LEMMA ControlTyped ==
    ASSUME setup \in Setups, NEW n \in NodeRecords, NEW i \in Invocations,
           Kind(i) \in {"control", "status"}
    PROVE  /\ Control(n, Command(i)) \in NodeRecords
           /\ Control(n, Command(i)).node_id = n.node_id
<1> DEFINE c == Command(i)
<1>1. c \in Commands
  BY CommandTyped
<1>2. AllFansSafe \in [FanIds -> Duties]
  BY NodeAssumption DEF AllFansSafe
<1>3. CASE c.op = "EmergencyDisable"
  <2>1. Control(n, c) = [n EXCEPT !.emergency_latched = TRUE, !.enabled = FALSE,
                                  !.fans = AllFansSafe]
    BY <1>3 DEF Control
  <2> QED
    BY <1>2, <2>1 DEF NodeRecords
<1>4. CASE c.op = "AcknowledgeEmergency"
  <2>1. Control(n, c) = [n EXCEPT !.emergency_latched = FALSE]
    BY <1>4 DEF Control
  <2> QED
    BY <2>1 DEF NodeRecords
<1>5. CASE c.op = "RequestStatus"
  BY <1>5 DEF Control
<1>6. CASE c.op = "SetCarrierPolicy"
  <2>1. Control(n, c) = [n EXCEPT !.enabled = c.enabled]
    BY <1>6 DEF Control
  <2>2. c.enabled \in BOOLEAN
    BY <1>1, <1>6 DEF Commands
  <2> QED
    BY <2>1, <2>2 DEF NodeRecords
<1>7. CASE c.op = "SetFan"
  <2>1. Control(n, c) = [n EXCEPT !.fans[c.fan] = c.duty]
    BY <1>7 DEF Control
  <2>2. c.fan \in FanIds /\ c.duty \in Duties
    BY <1>1, <1>7 DEF Commands
  <2>3. [n.fans EXCEPT ![c.fan] = c.duty] \in [FanIds -> Duties]
    BY <2>2 DEF NodeRecords
  <2> QED
    BY <2>1, <2>3 DEF NodeRecords
<1>8. CASE c.op = "SetBinding"
  <2>1. Control(n, c) = [n EXCEPT !.binding = c.binding]
    BY <1>8 DEF Control
  <2>2. c.binding \in Bindings \cup {NoBinding}
    BY <1>1, <1>8 DEF Commands
  <2> QED
    BY <2>1, <2>2 DEF NodeRecords
<1>9. c.op \in {"EmergencyDisable", "AcknowledgeEmergency", "RequestStatus",
                "SetCarrierPolicy", "SetFan", "SetBinding"}
  BY CommandTyped
<1> QED
  BY <1>3, <1>4, <1>5, <1>6, <1>7, <1>8, <1>9

LEMMA CommissionTyped ==
    ASSUME setup \in Setups, NEW n \in NodeRecords, NEW i \in Invocations,
           Kind(i) \in {"commissioning", "scan"}
    PROVE  /\ Commission(n, Command(i)) \in NodeRecords
           /\ Kind(i) = "scan" => Commission(n, Command(i)) = n
<1> DEFINE c == Command(i)
<1>1. /\ c \in Commands /\ c.op \in {"AssignNode", "ClearNode", "Identify", "Discover"}
      /\ Kind(i) = "scan" => c.op = "Discover"
  BY CommandTyped
<1>2. CASE c.op = "AssignNode"
  <2>1. Commission(n, c) = [n EXCEPT !.node_id = c.node_id, !.state = "Commissioned"]
    BY <1>2 DEF Commission
  <2>2. c.node_id \in NodeIds
    BY <1>1, <1>2 DEF Commands
  <2> QED
    BY <1>1, <1>2, <2>1, <2>2 DEF NodeRecords
<1>3. CASE c.op = "ClearNode"
  <2>1. Commission(n, c) = [n EXCEPT !.node_id = NoId, !.state = "Uncommissioned"]
    BY <1>3 DEF Commission
  <2> QED
    BY <1>1, <1>3, <2>1 DEF NodeRecords
<1>4. CASE c.op \in {"Identify", "Discover"}
  <2>1. Commission(n, c) = n
    BY <1>4 DEF Commission
  <2> QED
    BY <2>1
<1> QED
  BY <1>1, <1>2, <1>3, <1>4

\* What happens when a node reads the frame of invocation i.
Handles(u, i) ==
    /\ node' \in [Nodes -> NodeRecords]
    /\ Kind(i) # "commissioning" => \A v \in Nodes : node'[v].node_id = node[v].node_id
    /\ handled \subseteq handled'
    /\ socket' \in [Invocations -> Seq(Frames)]
    /\ \/ ~ Acts(u, Command(i)) /\ socket' = socket
       \/ /\ Acts(u, Command(i))
          /\ \E h \in handled' : h.request = i /\ h.result = Result(u, Command(i))
          /\ \A j \in Invocations :
                Range(socket'[j]) = Range(socket[j]) \cup
                    IF Listening(j) THEN Range(Replies(u, i, j)) ELSE {}

LEMMA NodeHandles ==
    ASSUME BusShapes, NEW u \in Nodes, NodeReceives(u)
    PROVE  /\ inbox[u] # <<>> /\ Head(inbox[u]) \in Invocations
           /\ inbox' = [inbox EXCEPT ![u] = Tail(inbox[u])]
           /\ inbox' \in [Nodes -> Seq(Invocations)]
           /\ UNCHANGED <<host, losses>>
           /\ Handles(u, Head(inbox[u]))
<1> DEFINE i == Head(inbox[u])
           c == Command(i)
<1>1. inbox[u] # <<>> /\ inbox[u] \in Seq(Invocations)
  BY DEF NodeReceives, BusShapes
<1>2. i \in Invocations /\ Tail(inbox[u]) \in Seq(Invocations)
  BY <1>1, Removed
<1>3. /\ inbox' = [inbox EXCEPT ![u] = Tail(inbox[u])]
      /\ UNCHANGED <<host, losses>>
  BY DEF NodeReceives
<1>4. inbox' \in [Nodes -> Seq(Invocations)]
  BY <1>2, <1>3 DEF BusShapes
<1>5. CASE ~ Acts(u, c)
  <2>1. UNCHANGED <<node, socket, handled>>
    BY <1>5 DEF NodeReceives
  <2> QED
    BY <1>1, <1>2, <1>3, <1>4, <1>5, <2>1 DEF Handles, BusShapes
<1>6. CASE Acts(u, c)
  <2>1. /\ IF IsControl(c) THEN HandleControl(u, c) ELSE HandleCommissioning(u, c)
        /\ Deliver(u, i)
        /\ handled' = handled \cup {[request |-> i, uid |-> u, result |-> Result(u, c)]}
    BY <1>6 DEF NodeReceives
  <2>2. Kind(i) \in {"control", "status", "commissioning", "scan"} /\ setup \in Setups
    BY <1>2, CommandTyped DEF BusShapes
  <2>3. node[u] \in NodeRecords /\ node \in [Nodes -> NodeRecords]
    BY DEF BusShapes
  <2>4. /\ node' \in [Nodes -> NodeRecords]
        /\ Kind(i) # "commissioning" => \A v \in Nodes : node'[v].node_id = node[v].node_id
    <3>1. CASE Kind(i) \in {"control", "status"}
      <4>1. HandleControl(u, c)
        BY <2>1, <3>1 DEF IsControl, Kind
      <4>2. /\ Control(node[u], c) \in NodeRecords
            /\ Control(node[u], c).node_id = node[u].node_id
        BY <1>2, <2>2, <2>3, <3>1, ControlTyped
      <4>3. node' = node \/ node' = [node EXCEPT ![u] = Control(node[u], c)]
        BY <4>1 DEF HandleControl
      <4> QED
        BY <2>3, <4>2, <4>3
    <3>2. CASE Kind(i) \in {"commissioning", "scan"}
      <4>1. HandleCommissioning(u, c)
        BY <2>1, <3>2 DEF IsControl, Kind
      <4>2. /\ Commission(node[u], c) \in NodeRecords
            /\ Kind(i) = "scan" => Commission(node[u], c) = node[u]
        BY <1>2, <2>2, <2>3, <3>2, CommissionTyped
      <4>3. node' = [node EXCEPT ![u] = Commission(node[u], c)]
        BY <4>1 DEF HandleCommissioning
      <4> QED
        BY <2>2, <2>3, <3>2, <4>2, <4>3
    <3> QED
      BY <2>2, <3>1, <3>2
  <2>5. \E h \in handled' : h.request = i /\ h.result = Result(u, c)
    <3>1. PICK h : h = [request |-> i, uid |-> u, result |-> Result(u, c)]
      OBVIOUS
    <3> QED
      BY <2>1, <3>1
  <2>6. ASSUME NEW j \in Invocations
        PROVE  /\ socket'[j] \in Seq(Frames)
               /\ Range(socket'[j]) = Range(socket[j]) \cup
                     IF Listening(j) THEN Range(Replies(u, i, j)) ELSE {}
    <3>1. socket'[j] = IF Listening(j) THEN socket[j] \o Replies(u, i, j) ELSE socket[j]
      BY <2>1 DEF Deliver
    <3>2. socket[j] \in Seq(Frames) /\ Replies(u, i, j) \in Seq(Frames)
      BY <1>2, RepliesRange DEF BusShapes
    <3>3. /\ socket[j] \o Replies(u, i, j) \in Seq(Frames)
          /\ Range(socket[j] \o Replies(u, i, j)) = Range(socket[j]) \cup Range(Replies(u, i, j))
      BY <3>2, Joined
    <3> QED
      BY <3>1, <3>2, <3>3
  <2>7. socket' \in [Invocations -> Seq(Frames)]
    BY <2>1, <2>6 DEF Deliver
  <2> QED
    BY <1>1, <1>2, <1>3, <1>4, <1>6, <2>1, <2>4, <2>5, <2>6, <2>7 DEF Handles
<1> QED
  BY <1>5, <1>6

LEMMA NodeReceivesHonest ==
    ASSUME BusInv, NEW u \in Nodes, NodeReceives(u), setup' = setup
    PROVE  BusInv'
<1> DEFINE i == Head(inbox[u])
<1>1. /\ i \in Invocations /\ inbox' \in [Nodes -> Seq(Invocations)]
      /\ UNCHANGED <<host, losses>> /\ Handles(u, i)
  BY NodeHandles DEF BusInv
<1>2. /\ Invocations' = Invocations /\ Frames' = Frames
      /\ \A j : /\ Command(j)' = Command(j) /\ Kind(j)' = Kind(j)
                /\ Broadcast(j)' = Broadcast(j) /\ Reads(j)' = Reads(j)
  BY SetupFixed
<1>3. BusShapes'
  BY <1>1, <1>2 DEF BusInv, BusShapes, Handles, HostStates, NodeRecords
<1>4. handled \subseteq handled'
  BY <1>1 DEF Handles
<1>5. ASSUME NEW j \in Invocations
      PROVE  Heard(j)' /\ Earned(j, host[j])'
  <2>1. Heard(j) /\ Earned(j, host[j])
    BY DEF BusInv, Honest
  <2>2. Earned(j, host[j])'
    BY <1>1, <1>2, <1>4, <2>1 DEF Earned, Happened
  <2>3. CASE socket' = socket
    BY <1>2, <1>4, <2>1, <2>2, <2>3 DEF Heard, Happened
  <2>4. CASE /\ Acts(u, Command(i))
             /\ \E h \in handled' : h.request = i /\ h.result = Result(u, Command(i))
             /\ Range(socket'[j]) \subseteq Range(socket[j]) \cup Range(Replies(u, i, j))
    <3>2. ASSUME NEW r \in Range(Replies(u, i, j))
          PROVE  /\ r.kind \in Reads(j)
                 /\ r.kind \in {"Response", "Result"} => Happened(r.request, r.result)'
                 /\ r.kind = "DiscoveryResponse" => Happened(r.nonce, "Ok")'
      <4>1. /\ r.kind \in Reads(j)
            /\ \/ Kind(i) \in {"control", "status"} /\ r = ResponseTo(u, i)
               \/ Kind(i) = "status" /\ r \in {StateFor(u, i), InfoFor(i)}
               \/ Kind(i) = "commissioning" /\ r = ResultOf(i)
               \/ Kind(i) = "scan" /\ r = DiscoveryOf(u, i)
        BY <1>1, <3>2, RepliesRange DEF BusInv
      <4>2. CASE Kind(i) \in {"control", "status"} /\ r = ResponseTo(u, i)
        <5>1. r.kind = "Response" /\ r.request = i /\ r.result = Result(u, Command(i))
          BY <4>2 DEF ResponseTo, Result, IsControl, Kind
        <5> QED
          BY <2>4, <4>1, <5>1 DEF Happened
      <4>3. CASE r \in {StateFor(u, i), InfoFor(i)}
        <5>1. r.kind \in {"NodeState", "NodeInfo"}
          BY <4>3 DEF StateFor, InfoFor
        <5> QED
          BY <4>1, <5>1
      <4>4. CASE Kind(i) = "commissioning" /\ r = ResultOf(i)
        <5>1. r.kind = "Result" /\ r.request = i /\ r.result = Result(u, Command(i))
          BY <4>4 DEF ResultOf, Result, IsControl, Kind
        <5> QED
          BY <2>4, <4>1, <5>1 DEF Happened
      <4>5. CASE Kind(i) = "scan" /\ r = DiscoveryOf(u, i)
        <5>1. r.kind = "DiscoveryResponse" /\ r.nonce = i /\ Result(u, Command(i)) = "Ok"
          BY <4>5 DEF DiscoveryOf, Result, IsControl, Kind
        <5> QED
          BY <2>4, <4>1, <5>1 DEF Happened
      <4> QED
        BY <4>1, <4>2, <4>3, <4>4, <4>5
    <3> QED
      BY <1>2, <1>4, <2>1, <2>2, <2>4, <3>2 DEF Heard, Happened
  <2> QED
    BY <1>1, <2>2, <2>3, <2>4 DEF Handles
<1> QED
  BY <1>2, <1>3, <1>5 DEF BusInv, Honest

-----------------------------------------------------------------------------
\* What an invocation makes of a reply.
FrameIsTrue(r) ==
    /\ r.kind \in {"Response", "Result"} => Happened(r.request, r.result)
    /\ r.kind = "DiscoveryResponse" => Happened(r.nonce, "Ok")

LEMMA FrameKinds ==
    ASSUME NEW r \in Frames
    PROVE  /\ r.kind \in {"Response", "Result"} => r \in Verdicts /\ r.result \in Results
           /\ r.kind = "NodeState" => r \in States
           /\ r.kind = "NodeInfo" => r \in Infos
           /\ r.kind = "DiscoveryResponse" =>
                 r \in Discoveries /\ r.uid \in Nodes /\ r.nonce \in Invocations
           /\ r.kind \in {"Response", "Result", "NodeState", "NodeInfo", "DiscoveryResponse"}
BY DEF Frames, Verdicts, States, Infos, Discoveries

LEMMA ReadingShapes ==
    ASSUME BusShapes, NEW i \in Invocations, NEW r \in Frames, r.kind \in Reads(i),
           Listening(i)
    PROVE  /\ AfterReading(i, r) \in HostStates
           /\ AfterReading(i, r).attempt = host[i].attempt
           /\ AfterReading(i, r).pc \in {"waiting", "ok", "NodeRejected"}
<1>1. Kind(i) \in {"control", "status", "commissioning", "scan"}
  BY CommandTyped DEF BusShapes
<1>2. host[i] \in HostStates /\ host[i].pc = "waiting"
  BY DEF BusShapes, Listening
<1>3. CASE Kind(i) = "scan"
  <2>1. r.kind = "DiscoveryResponse"
    BY <1>3 DEF Reads
  <2>2. r.uid \in Nodes
    BY <2>1, FrameKinds
  <2>3. AfterReading(i, r) \in {[host[i] EXCEPT !.got = @ \cup {r.uid}], host[i]}
    BY <1>3 DEF AfterReading
  <2> QED
    BY <1>2, <2>2, <2>3 DEF HostStates
<1>4. CASE Kind(i) = "status"
  <2>1. Collected(i, r) \subseteq Nodes \cup StatusParts
    BY <1>2 DEF Collected, StatusParts, HostStates
  <2>2. AfterReading(i, r) \in {[host[i] EXCEPT !.pc = "NodeRejected", !.got = {}],
                                [host[i] EXCEPT !.pc = "ok", !.got = {}],
                                [host[i] EXCEPT !.got = Collected(i, r)]}
    BY <1>4 DEF AfterReading
  <2> QED
    BY <1>2, <2>1, <2>2 DEF HostStates, Exits
<1>5. CASE Kind(i) \in {"control", "commissioning"}
  <2>1. AfterReading(i, r) \in {[host[i] EXCEPT !.pc = Exit(r.result)], host[i]}
    BY <1>5 DEF AfterReading
  <2>2. Exit(r.result) \in {"ok", "NodeRejected"}
    BY DEF Exit
  <2> QED
    BY <1>2, <2>1, <2>2 DEF HostStates, Exits
<1> QED
  BY <1>1, <1>3, <1>4, <1>5

LEMMA ReadingEarned ==
    ASSUME BusShapes, NEW i \in Invocations, NEW r \in Frames, r.kind \in Reads(i),
           Listening(i), Earned(i, host[i]), FrameIsTrue(r)
    PROVE  Earned(i, AfterReading(i, r))
<1>1. Kind(i) \in {"control", "status", "commissioning", "scan"}
  BY CommandTyped DEF BusShapes
<1>2. host[i] \in HostStates /\ host[i].pc = "waiting"
  BY DEF BusShapes, Listening
<1>3. CASE Kind(i) = "scan"
  <2>1. r.kind = "DiscoveryResponse"
    BY <1>3 DEF Reads
  <2>2. r.nonce = i => Happened(i, "Ok")
    BY <2>1 DEF FrameIsTrue
  <2>3. CASE AfterReading(i, r) = host[i]
    BY <2>3
  <2>4. CASE AfterReading(i, r) # host[i]
    <3>1. r.nonce = i /\ AfterReading(i, r) = [host[i] EXCEPT !.got = @ \cup {r.uid}]
      BY <1>3, <2>4 DEF AfterReading
    <3>2. AfterReading(i, r).pc = "waiting"
      BY <1>2, <3>1 DEF HostStates
    <3> QED
      BY <1>3, <2>2, <3>1, <3>2 DEF Earned
  <2> QED
    BY <2>3, <2>4
<1>4. CASE Kind(i) = "status"
  <2>1. ~ Broadcast(i)
    BY <1>4 DEF Broadcast
  <2>2. Answers(r, i) => Happened(i, r.result) /\ r.result \in Results
    BY FrameKinds DEF FrameIsTrue, Answers
  <2>3. CASE Answers(r, i) /\ r.result # "Ok"
    <3>1. Happened(i, "Unsupported")
      BY <2>2, <2>3 DEF Results
    <3>2. AfterReading(i, r) = [host[i] EXCEPT !.pc = "NodeRejected", !.got = {}]
      BY <1>4, <2>3 DEF AfterReading
    <3>3. AfterReading(i, r).pc = "NodeRejected" /\ AfterReading(i, r).got = {}
      BY <1>2, <3>2 DEF HostStates
    <3> QED
      BY <3>1, <3>3 DEF Earned
  <2>4. CASE ~ (Answers(r, i) /\ r.result # "Ok")
    <3>1. "accepted" \in Collected(i, r) => Happened(i, "Ok")
      <4>1. CASE Answers(r, i)
        BY <2>2, <2>4, <4>1
      <4>2. CASE ~ Answers(r, i)
        <5>1. "accepted" \in Collected(i, r) => "accepted" \in host[i].got
          BY <4>2 DEF Collected
        <5> QED
          BY <1>4, <5>1 DEF Earned
      <4> QED
        BY <4>1, <4>2
    <3>2. CASE Collected(i, r) = StatusParts
      <4>1. AfterReading(i, r) = [host[i] EXCEPT !.pc = "ok", !.got = {}]
        BY <1>4, <2>4, <3>2 DEF AfterReading
      <4>2. AfterReading(i, r).pc = "ok" /\ AfterReading(i, r).got = {}
        BY <1>2, <4>1 DEF HostStates
      <4> QED
        BY <3>1, <3>2, <4>2 DEF Earned, StatusParts
    <3>3. CASE Collected(i, r) # StatusParts
      <4>1. AfterReading(i, r) = [host[i] EXCEPT !.got = Collected(i, r)]
        BY <1>4, <2>4, <3>3 DEF AfterReading
      <4>2. AfterReading(i, r).pc = "waiting" /\ AfterReading(i, r).got = Collected(i, r)
        BY <1>2, <4>1 DEF HostStates
      <4> QED
        BY <1>4, <3>1, <4>2 DEF Earned
    <3> QED
      BY <3>2, <3>3
  <2> QED
    BY <2>3, <2>4
<1>5. CASE Kind(i) \in {"control", "commissioning"}
  <2>1. CASE Answers(r, i)
    <3>1. Happened(i, r.result) /\ r.result \in Results
      BY <2>1, FrameKinds DEF FrameIsTrue, Answers
    <3>2. AfterReading(i, r) = [host[i] EXCEPT !.pc = Exit(r.result)]
      BY <1>5, <2>1 DEF AfterReading
    <3>3. AfterReading(i, r).pc = Exit(r.result)
      BY <1>2, <3>2 DEF HostStates
    <3> QED
      BY <1>5, <3>1, <3>3 DEF Earned, Exit, Results
  <2>2. CASE ~ Answers(r, i)
    BY <1>5, <2>2 DEF AfterReading
  <2> QED
    BY <2>1, <2>2
<1> QED
  BY <1>1, <1>3, <1>4, <1>5

LEMMA StartHonest ==
    ASSUME BusInv, NEW i \in Invocations, Start(i), setup' = setup
    PROVE  BusInv'
<1>1. /\ host[i].pc = "idle" /\ host' = [host EXCEPT ![i].pc = "waiting"]
      /\ inbox' = [u \in Nodes |-> Append(inbox[u], i)]
      /\ UNCHANGED <<node, socket, losses, handled>>
  BY DEF Start, Transmit
<1>2. /\ Invocations' = Invocations /\ Frames' = Frames
      /\ \A j : /\ Kind(j)' = Kind(j) /\ Broadcast(j)' = Broadcast(j) /\ Reads(j)' = Reads(j)
  BY SetupFixed
<1>3. inbox' \in [Nodes -> Seq(Invocations)]
  BY <1>1, Appended DEF BusInv, BusShapes
<1>4. /\ host'[i] \in HostStates /\ host'[i].pc = "waiting" /\ host'[i].got = host[i].got
      /\ \A j \in Invocations : j # i => host'[j] = host[j]
      /\ host' \in [Invocations -> HostStates]
  BY <1>1 DEF BusInv, BusShapes, HostStates
<1>5. BusShapes'
  BY <1>1, <1>2, <1>3, <1>4 DEF BusInv, BusShapes, HostStates, NodeRecords
<1>6. ASSUME NEW j \in Invocations
      PROVE  Heard(j)' /\ Earned(j, host[j])'
  <2>1. Heard(j) /\ Earned(j, host[j])
    BY DEF BusInv, Honest
  <2>2. Heard(j)'
    BY <1>1, <1>2, <2>1 DEF Heard, Happened
  <2>3. CASE j = i
    BY <1>1, <1>2, <1>4, <2>1, <2>2, <2>3 DEF Earned, Happened
  <2>4. CASE j # i
    BY <1>1, <1>2, <1>4, <2>1, <2>2, <2>4 DEF Earned, Happened
  <2> QED
    BY <2>3, <2>4
<1> QED
  BY <1>2, <1>5, <1>6 DEF BusInv, Honest

LEMMA HostReadsHonest ==
    ASSUME BusInv, NEW i \in Invocations, HostReads(i), setup' = setup
    PROVE  BusInv'
<1> DEFINE r == Head(socket[i])
<1>1. /\ Listening(i) /\ socket[i] # <<>>
      /\ host' = [host EXCEPT ![i] = AfterReading(i, r)]
      /\ socket' = [socket EXCEPT ![i] = IF host'[i].pc = "waiting" THEN Tail(socket[i]) ELSE <<>>]
      /\ UNCHANGED <<node, inbox, losses, handled>>
  BY DEF HostReads
<1>2. /\ Invocations' = Invocations /\ Frames' = Frames
      /\ \A j : /\ Kind(j)' = Kind(j) /\ Broadcast(j)' = Broadcast(j) /\ Reads(j)' = Reads(j)
  BY SetupFixed
<1>3. socket[i] \in Seq(Frames) /\ i \in DOMAIN host /\ i \in DOMAIN socket
  BY DEF BusInv, BusShapes
<1>4. /\ Tail(socket[i]) \in Seq(Frames) /\ r \in Frames
      /\ Range(socket[i]) = {r} \cup Range(Tail(socket[i]))
  BY <1>1, <1>3, Removed
<1>5. Heard(i) /\ Earned(i, host[i])
  BY DEF BusInv, Honest
<1>6. r.kind \in Reads(i) /\ FrameIsTrue(r)
  BY <1>4, <1>5 DEF Heard, FrameIsTrue
<1>7. AfterReading(i, r) \in HostStates /\ Earned(i, AfterReading(i, r))
  BY <1>1, <1>4, <1>5, <1>6, ReadingShapes, ReadingEarned DEF BusInv
<1>8. host' \in [Invocations -> HostStates]
  BY <1>1, <1>7 DEF BusInv, BusShapes
<1>9. /\ socket' \in [Invocations -> Seq(Frames)]
      /\ Range(socket'[i]) \subseteq Range(socket[i])
      /\ \A j \in Invocations : j # i => socket'[j] = socket[j] /\ host'[j] = host[j]
  BY <1>1, <1>3, <1>4, Nothing DEF BusInv, BusShapes
<1>10. BusShapes'
  BY <1>1, <1>2, <1>8, <1>9 DEF BusInv, BusShapes, HostStates, NodeRecords
<1>11. ASSUME NEW j \in Invocations
       PROVE  Heard(j)' /\ Earned(j, host[j])'
  <2>1. Heard(j) /\ Earned(j, host[j])
    BY DEF BusInv, Honest
  <2>2. Heard(j)'
    <3>1. Range(socket'[j]) \subseteq Range(socket[j])
      BY <1>9
    <3> QED
      BY <1>1, <1>2, <2>1, <3>1 DEF Heard, Happened
  <2>3. CASE j = i
    <3>1. host'[i] = AfterReading(i, r)
      BY <1>1, <1>3
    <3>2. Earned(i, host'[i])
      BY <1>7, <3>1
    <3> QED
      BY <1>1, <1>2, <2>2, <2>3, <3>2 DEF Earned, Happened
  <2>4. CASE j # i
    BY <1>1, <1>2, <1>9, <2>1, <2>2, <2>4 DEF Earned, Happened
  <2> QED
    BY <2>3, <2>4
<1> QED
  BY <1>2, <1>10, <1>11 DEF BusInv, Honest

\* The pc of a process whose attempts are used up.
LEMMA GivesUp ==
    ASSUME BusShapes, NEW i \in Invocations, GiveUp(i)
    PROVE  /\ LastAttempt(i)
           /\ host' \in [Invocations -> HostStates]
           /\ host'[i].got = host[i].got /\ host'[i].attempt = host[i].attempt
           /\ host'[i].pc \in {"ok", "Timeout"}
           /\ host'[i].pc = "ok" =>
                 \/ Kind(i) = "scan" /\ host[i].got # {}
                 \/ Broadcast(i)
           /\ host'[i].pc = "Timeout" =>
                 ~ Broadcast(i) /\ (Kind(i) = "scan" => host[i].got = {})
           /\ \A j \in Invocations : j # i => host'[j] = host[j] /\ socket'[j] = socket[j]
           /\ socket' \in [Invocations -> Seq(Frames)] /\ Range(socket'[i]) = {}
           /\ inbox' = inbox
<1> DEFINE p == CASE Kind(i) = "scan" -> IF host[i].got = {} THEN "Timeout" ELSE "ok"
                  [] Kind(i) = "control" -> IF Broadcast(i) THEN "ok" ELSE "Timeout"
                  [] OTHER -> "Timeout"
<1>1. /\ LastAttempt(i) /\ inbox' = inbox
      /\ host' = [host EXCEPT ![i].pc = p]
      /\ socket' = [socket EXCEPT ![i] = <<>>]
  BY DEF GiveUp
<1>2. /\ p \in {"ok", "Timeout"}
      /\ p = "ok" =>
            \/ Kind(i) = "scan" /\ host[i].got # {}
            \/ Broadcast(i)
      /\ p = "Timeout" =>
            ~ Broadcast(i) /\ (Kind(i) = "scan" => host[i].got = {})
  BY DEF Broadcast
<1> HIDE DEF p
<1>3. host \in [Invocations -> HostStates] /\ socket \in [Invocations -> Seq(Frames)]
  BY DEF BusShapes
<1>4. /\ host' \in [Invocations -> HostStates]
      /\ host'[i].pc = p /\ host'[i].got = host[i].got /\ host'[i].attempt = host[i].attempt
      /\ \A j \in Invocations : j # i => host'[j] = host[j]
  BY <1>1, <1>2, <1>3 DEF HostStates, Exits
<1>5. /\ socket' \in [Invocations -> Seq(Frames)] /\ socket'[i] = <<>>
      /\ \A j \in Invocations : j # i => socket'[j] = socket[j]
  BY <1>1, <1>3, Nothing
<1> QED
  BY <1>1, <1>2, <1>4, <1>5, Nothing

\* A process that has attempts left.
LEMMA Resends ==
    ASSUME BusShapes, NEW i \in Invocations, Retry(i)
    PROVE  /\ ~ LastAttempt(i)
           /\ host' \in [Invocations -> HostStates]
           /\ host'[i].attempt = host[i].attempt + 1 /\ host'[i].pc = host[i].pc
           /\ host'[i].got = IF Kind(i) = "scan" THEN host[i].got ELSE {}
           /\ \A j \in Invocations : j # i => host'[j] = host[j]
           /\ inbox' \in [Nodes -> Seq(Invocations)]
           /\ \A u \in Nodes : Range(inbox'[u]) = Range(inbox[u]) \cup {i}
           /\ socket' = socket
<1>1. /\ ~ LastAttempt(i) /\ socket' = socket
      /\ host' = [host EXCEPT ![i].attempt = @ + 1,
                              ![i].got = IF Kind(i) = "scan" THEN @ ELSE {}]
      /\ inbox' = [u \in Nodes |-> Append(inbox[u], i)]
  BY DEF Retry, Transmit
<1>2. host \in [Invocations -> HostStates] /\ inbox \in [Nodes -> Seq(Invocations)]
  BY DEF BusShapes
<1> DEFINE g == IF Kind(i) = "scan" THEN host[i].got ELSE {}
           h == [host[i] EXCEPT !.attempt = @ + 1, !.got = g]
<1>3. /\ host' \in [Invocations -> HostStates]
      /\ host'[i].attempt = host[i].attempt + 1 /\ host'[i].pc = host[i].pc
      /\ host'[i].got = g
      /\ \A j \in Invocations : j # i => host'[j] = host[j]
  <2>1. host[i] \in HostStates
    BY <1>2
  <2>2. host' = [host EXCEPT ![i] = h]
    <3>1. CASE Kind(i) = "scan"
      BY <1>1, <1>2, <2>1, <3>1 DEF HostStates
    <3>2. CASE Kind(i) # "scan"
      BY <1>1, <1>2, <2>1, <3>2 DEF HostStates
    <3> QED
      BY <3>1, <3>2
  <2>3. g \in SUBSET (Nodes \cup StatusParts)
    BY <2>1 DEF HostStates
  <2> HIDE DEF g
  <2>4. /\ h \in HostStates /\ h.got = g
        /\ h.attempt = host[i].attempt + 1 /\ h.pc = host[i].pc
    <3>1. PICK k : k = host[i]
      OBVIOUS
    <3>2. k.attempt + 1 \in Nat
      BY <2>1, <3>1 DEF HostStates
    <3>3. [k EXCEPT !.attempt = k.attempt + 1, !.got = g] \in HostStates
      BY <2>1, <2>3, <3>1, <3>2 DEF HostStates
    <3> QED
      BY <2>1, <3>1, <3>3 DEF HostStates
  <2> HIDE DEF h
  <2> QED
    BY <1>2, <2>2, <2>4
<1>4. \A u \in Nodes : /\ Append(inbox[u], i) \in Seq(Invocations)
                       /\ Range(Append(inbox[u], i)) = Range(inbox[u]) \cup {i}
  BY <1>2, Appended
<1> QED
  BY <1>1, <1>3, <1>4

LEMMA TimesOutHonest ==
    ASSUME BusInv, NEW i \in Invocations, HostTimesOut(i), setup' = setup
    PROVE  BusInv'
<1>1. Listening(i) /\ (Retry(i) \/ GiveUp(i)) /\ UNCHANGED <<node, losses, handled>>
  BY DEF HostTimesOut
<1>2. /\ Invocations' = Invocations /\ Frames' = Frames
      /\ \A j : /\ Kind(j)' = Kind(j) /\ Broadcast(j)' = Broadcast(j) /\ Reads(j)' = Reads(j)
  BY SetupFixed
<1>3. Heard(i) /\ Earned(i, host[i]) /\ host[i].pc = "waiting"
  BY <1>1 DEF BusInv, Honest, Listening
<1>4. /\ host' \in [Invocations -> HostStates] /\ socket' \in [Invocations -> Seq(Frames)]
      /\ inbox' \in [Nodes -> Seq(Invocations)]
      /\ \A j \in Invocations : Range(socket'[j]) \subseteq Range(socket[j])
      /\ \A j \in Invocations : j # i => host'[j] = host[j]
      /\ Earned(i, host'[i])
  <2>1. CASE Retry(i)
    <3>1. /\ host' \in [Invocations -> HostStates] /\ host'[i].pc = host[i].pc
          /\ host'[i].got = IF Kind(i) = "scan" THEN host[i].got ELSE {}
          /\ \A j \in Invocations : j # i => host'[j] = host[j]
          /\ inbox' \in [Nodes -> Seq(Invocations)] /\ socket' = socket
      BY <2>1, Resends DEF BusInv
    <3>2. Earned(i, host'[i])
      BY <1>3, <3>1 DEF Earned
    <3> QED
      BY <3>1, <3>2 DEF BusInv, BusShapes
  <2>2. CASE GiveUp(i)
    <3>1. /\ host' \in [Invocations -> HostStates] /\ host'[i].got = host[i].got
          /\ host'[i].pc \in {"ok", "Timeout"}
          /\ host'[i].pc = "ok" =>
                \/ Kind(i) = "scan" /\ host[i].got # {}
                \/ Broadcast(i)
          /\ \A j \in Invocations : j # i => host'[j] = host[j] /\ socket'[j] = socket[j]
          /\ socket' \in [Invocations -> Seq(Frames)] /\ Range(socket'[i]) = {}
          /\ inbox' = inbox
      BY <2>2, GivesUp DEF BusInv
    <3>2. Earned(i, host'[i])
      BY <1>3, <3>1 DEF Earned
    <3> QED
      BY <3>1, <3>2 DEF BusInv, BusShapes
  <2> QED
    BY <1>1, <2>1, <2>2
<1>5. BusShapes'
  BY <1>1, <1>2, <1>4 DEF BusInv, BusShapes, HostStates, NodeRecords
<1>6. ASSUME NEW j \in Invocations
      PROVE  Heard(j)' /\ Earned(j, host[j])'
  <2>1. Heard(j) /\ Earned(j, host[j])
    BY DEF BusInv, Honest
  <2>2. Heard(j)'
    BY <1>1, <1>2, <1>4, <2>1 DEF Heard, Happened
  <2>3. Earned(j, host'[j])
    BY <1>4, <2>1
  <2> QED
    BY <1>1, <1>2, <2>2, <2>3 DEF Earned, Happened
<1> QED
  BY <1>2, <1>5, <1>6 DEF BusInv, Honest

LEMMA IoErrorMoves ==
    ASSUME BusShapes, NEW i \in Invocations, IoError(i)
    PROVE  /\ host[i].pc \notin Exits /\ host'[i].pc = "Transport"
           /\ host'[i].got = host[i].got /\ host'[i].attempt = host[i].attempt
           /\ host' \in [Invocations -> HostStates]
           /\ \A j \in Invocations : j # i => host'[j] = host[j] /\ socket'[j] = socket[j]
           /\ socket' \in [Invocations -> Seq(Frames)] /\ Range(socket'[i]) = {}
           /\ UNCHANGED <<node, inbox, losses, handled>>
<1>1. /\ host[i].pc \notin Exits
      /\ host' = [host EXCEPT ![i].pc = "Transport"]
      /\ socket' = [socket EXCEPT ![i] = <<>>]
      /\ UNCHANGED <<node, inbox, losses, handled>>
  BY DEF IoError
<1>2. host \in [Invocations -> HostStates] /\ socket \in [Invocations -> Seq(Frames)]
  BY DEF BusShapes
<1>3. "Transport" \in Exits
  BY DEF Exits
<1>4. /\ socket' \in [Invocations -> Seq(Frames)] /\ Range(socket'[i]) = {}
      /\ \A j \in Invocations : j # i => socket'[j] = socket[j]
  BY <1>1, <1>2, Nothing
<1>5. /\ host' \in [Invocations -> HostStates] /\ host'[i].pc = "Transport"
      /\ host'[i].got = host[i].got /\ host'[i].attempt = host[i].attempt
      /\ \A j \in Invocations : j # i => host'[j] = host[j]
  BY <1>1, <1>2, <1>3 DEF HostStates
<1> QED
  BY <1>1, <1>4, <1>5

LEMMA IoErrorHonest ==
    ASSUME BusInv, NEW i \in Invocations, IoError(i), setup' = setup
    PROVE  BusInv'
<1>1. /\ host[i].pc \notin Exits /\ host'[i].pc = "Transport" /\ host'[i].got = host[i].got
      /\ host' \in [Invocations -> HostStates] /\ socket' \in [Invocations -> Seq(Frames)]
      /\ \A j \in Invocations : j # i => host'[j] = host[j] /\ socket'[j] = socket[j]
      /\ Range(socket'[i]) = {}
      /\ UNCHANGED <<node, inbox, losses, handled>>
  BY IoErrorMoves DEF BusInv
<1>2. /\ Invocations' = Invocations /\ Frames' = Frames
      /\ \A j : /\ Kind(j)' = Kind(j) /\ Broadcast(j)' = Broadcast(j) /\ Reads(j)' = Reads(j)
  BY SetupFixed
<1>3. BusShapes'
  BY <1>1, <1>2 DEF BusInv, BusShapes, HostStates, NodeRecords
<1>4. ASSUME NEW j \in Invocations
      PROVE  Heard(j)' /\ Earned(j, host[j])'
  <2>1. Heard(j) /\ Earned(j, host[j])
    BY DEF BusInv, Honest
  <2>2. Heard(j)'
    BY <1>1, <1>2, <2>1 DEF Heard, Happened
  <2>3. Earned(j, host'[j])
    BY <1>1, <2>1 DEF Earned
  <2> QED
    BY <1>1, <1>2, <2>2, <2>3 DEF Earned, Happened
<1> QED
  BY <1>2, <1>3, <1>4 DEF BusInv, Honest

\* The frame at the head of one queue is gone.
LEMMA Loses ==
    ASSUME BusShapes, Lose
    PROVE  /\ losses < setup.max_losses /\ UNCHANGED <<node, host, handled>>
           /\ losses' = (IF setup.losses_run_out THEN losses + 1 ELSE losses)
           /\ \/ /\ socket' = socket
                 /\ \E u \in Nodes : /\ inbox[u] # <<>>
                                     /\ inbox' = [inbox EXCEPT ![u] = Tail(inbox[u])]
              \/ /\ inbox' = inbox
                 /\ \E i \in Invocations : /\ socket[i] # <<>>
                                           /\ socket' = [socket EXCEPT ![i] = Tail(socket[i])]
           /\ inbox' \in [Nodes -> Seq(Invocations)]
           /\ socket' \in [Invocations -> Seq(Frames)]
           /\ \A j \in Invocations : Range(socket'[j]) \subseteq Range(socket[j])
<1>1. inbox \in [Nodes -> Seq(Invocations)] /\ socket \in [Invocations -> Seq(Frames)]
  BY DEF BusShapes
<1>2. /\ losses < setup.max_losses /\ UNCHANGED <<node, host, handled>>
      /\ losses' = (IF setup.losses_run_out THEN losses + 1 ELSE losses)
      /\ \/ /\ socket' = socket
            /\ \E u \in Nodes : /\ inbox[u] # <<>>
                                /\ inbox' = [inbox EXCEPT ![u] = Tail(inbox[u])]
         \/ /\ inbox' = inbox
            /\ \E i \in Invocations : /\ socket[i] # <<>>
                                      /\ socket' = [socket EXCEPT ![i] = Tail(socket[i])]
  BY DEF Lose
<1>3. /\ inbox' \in [Nodes -> Seq(Invocations)]
      /\ socket' \in [Invocations -> Seq(Frames)]
      /\ \A j \in Invocations : Range(socket'[j]) \subseteq Range(socket[j])
  <2>1. CASE /\ socket' = socket
             /\ \E u \in Nodes : /\ inbox[u] # <<>>
                                 /\ inbox' = [inbox EXCEPT ![u] = Tail(inbox[u])]
    <3>1. PICK u \in Nodes : inbox[u] # <<>> /\ inbox' = [inbox EXCEPT ![u] = Tail(inbox[u])]
      BY <2>1
    <3>2. Tail(inbox[u]) \in Seq(Invocations)
      BY <1>1, <3>1, Removed
    <3> QED
      BY <1>1, <2>1, <3>1, <3>2
  <2>2. CASE /\ inbox' = inbox
             /\ \E i \in Invocations : /\ socket[i] # <<>>
                                       /\ socket' = [socket EXCEPT ![i] = Tail(socket[i])]
    <3>1. PICK i \in Invocations :
             socket[i] # <<>> /\ socket' = [socket EXCEPT ![i] = Tail(socket[i])]
      BY <2>2
    <3>2. Tail(socket[i]) \in Seq(Frames) /\ Range(Tail(socket[i])) \subseteq Range(socket[i])
      BY <1>1, <3>1, Removed
    <3> QED
      BY <1>1, <2>2, <3>1, <3>2
  <2> QED
    BY <1>2, <2>1, <2>2
<1> QED
  BY <1>2, <1>3

LEMMA LoseHonest ==
    ASSUME BusInv, Lose, setup' = setup
    PROVE  BusInv'
<1>1. /\ UNCHANGED <<node, host, handled>> /\ inbox' \in [Nodes -> Seq(Invocations)]
      /\ socket' \in [Invocations -> Seq(Frames)]
      /\ \A j \in Invocations : Range(socket'[j]) \subseteq Range(socket[j])
      /\ losses' = (IF setup.losses_run_out THEN losses + 1 ELSE losses)
  BY Loses DEF BusInv
<1>2. /\ Invocations' = Invocations /\ Frames' = Frames
      /\ \A j : /\ Kind(j)' = Kind(j) /\ Broadcast(j)' = Broadcast(j) /\ Reads(j)' = Reads(j)
  BY SetupFixed
<1>3. losses' \in Nat
  BY <1>1 DEF BusInv, BusShapes
<1>4. BusShapes'
  BY <1>1, <1>2, <1>3 DEF BusInv, BusShapes, HostStates, NodeRecords
<1>5. \A j \in Invocations : Heard(j)' /\ Earned(j, host[j])'
  BY <1>1, <1>2 DEF BusInv, Honest, Heard, Earned, Happened
<1> QED
  BY <1>2, <1>4, <1>5 DEF BusInv, Honest

LEMMA BusInitial ==
    BusInit => BusInv
<1> SUFFICES ASSUME BusInit PROVE BusInv
  OBVIOUS
<1>1. node \in [Nodes -> NodeRecords]
  <2>1. AllFansSafe \in [FanIds -> Duties]
    BY NodeAssumption DEF AllFansSafe
  <2> QED
    BY <2>1, NodeAssumption DEF BusInit, NodeInit, NodeRecords
<1>2. /\ inbox \in [Nodes -> Seq(Invocations)] /\ socket \in [Invocations -> Seq(Frames)]
      /\ \A i \in Invocations : socket[i] = <<>> /\ Range(socket[i]) = {}
  BY Nothing DEF BusInit
<1>3. /\ host \in [Invocations -> HostStates]
      /\ \A i \in Invocations : host[i].pc = "idle" /\ host[i].got = {}
  BY DEF BusInit, HostStates
<1>4. BusShapes
  BY <1>1, <1>2, <1>3 DEF BusInit, BusShapes
<1>5. Honest
  BY <1>2, <1>3 DEF Honest, Heard, Earned
<1> QED
  BY <1>4, <1>5 DEF BusInv

LEMMA BusSteps ==
    BusInv /\ [BusNext]_allVars => BusInv'
<1> SUFFICES ASSUME BusInv, [BusNext]_allVars PROVE BusInv'
  OBVIOUS
<1>1. ASSUME BusNext PROVE BusInv'
  BY <1>1, NodeReceivesHonest, StartHonest, HostReadsHonest, TimesOutHonest, IoErrorHonest,
     LoseHonest DEF BusNext
<1>2. CASE UNCHANGED allVars
  <2>1. UNCHANGED <<setup, node, inbox, socket, host, losses, handled>>
    BY <1>2 DEF allVars, busVars
  <2>2. /\ Invocations' = Invocations /\ Frames' = Frames
        /\ \A j : /\ Kind(j)' = Kind(j) /\ Broadcast(j)' = Broadcast(j) /\ Reads(j)' = Reads(j)
    BY <2>1, SetupFixed
  <2>3. BusShapes'
    BY <2>1, <2>2 DEF BusInv, BusShapes, HostStates, NodeRecords
  <2>4. \A j \in Invocations : Heard(j)' /\ Earned(j, host[j])'
    BY <2>1, <2>2 DEF BusInv, Honest, Heard, Earned, Happened
  <2> QED
    BY <2>2, <2>3, <2>4 DEF BusInv, Honest
<1> QED
  BY <1>1, <1>2

\* What a command reports was done (ReportedResultsHappened): the node whose
\* reply it read had handled that very request, with that result, whatever was
\* lost, late or sent again.
THEOREM ReportsHappened ==
    BusSpec => []ReportedResultsHappened
<1>1. BusInv => ReportedResultsHappened
  BY DEF BusInv, Honest, Earned, Happened, ReportedResultsHappened
<1> QED
  BY <1>1, BusInitial, BusSteps, PTL DEF BusSpec

-----------------------------------------------------------------------------
\* Why retries suffice.

\* Node u is one that invocation i looks for.
Wants(i, u) ==
    \/ /\ Kind(i) \in {"control", "status"}
       /\ ~ Broadcast(i)
       /\ Command(i).node = InitialId(u)
    \/ /\ Kind(i) = "scan"
       /\ Command(i).filter \in {NoId, InitialId(u)}

Wanted(i) == {u \in Nodes : Wants(i, u)}

\* Reply r is the part p of what `status' waits for.
Carries(i, r, p) ==
    \/ p = "accepted" /\ Answers(r, i)
    \/ p = "state" /\ r.kind = "NodeState" /\ r.node = Command(i).node
    \/ p = "info" /\ r.kind = "NodeInfo" /\ r.node = Command(i).node

\* What i still needs of u waits in its socket.
Answered(i, u) ==
    /\ Kind(i) = "control" => \E r \in Range(socket[i]) : Answers(r, i)
    /\ Kind(i) = "status" =>
          \A p \in StatusParts \ host[i].got : \E r \in Range(socket[i]) : Carries(i, r, p)
    /\ Kind(i) = "scan" =>
          \E r \in Range(socket[i]) : /\ r.kind = "DiscoveryResponse" /\ r.nonce = i
                                      /\ r.uid = u /\ r.node_id = InitialId(u)

\* The account of the losses: unless i has found u, u owes it an answer of this
\* attempt, and every attempt before it has cost a frame; or this one has too.
Served(i, u) ==
    \/ Kind(i) = "scan" /\ u \in host[i].got
    \/ losses >= host[i].attempt + 1
    \/ losses >= host[i].attempt /\ (i \in Range(inbox[u]) \/ Answered(i, u))

Account(i) ==
    /\ host[i].attempt <= Retries
    /\ host[i].pc = "idle" => host[i].attempt = 0 /\ host[i].got = {}
    /\ Kind(i) = "scan" => host[i].got \subseteq Wanted(i)
    /\ Kind(i) = "status" /\ Listening(i) =>
          host[i].got \subseteq StatusParts /\ host[i].got # StatusParts
    /\ Listening(i) => \A u \in Wanted(i) : Served(i, u)
    /\ Kind(i) = "scan" /\ host[i].pc \in Exits \ {"Transport"} =>
          /\ host[i].got = Wanted(i)
          /\ host[i].pc = "Timeout" => host[i].got = {}
    /\ Kind(i) # "scan" /\ host[i].pc = "Timeout" => Wanted(i) = {} /\ ~ Broadcast(i)

\* Every node has the address it started with, and says so.
Unmoved ==
    /\ \A u \in Nodes : node[u].node_id = InitialId(u)
    /\ \A i \in Invocations : \A r \in Range(socket[i]) :
          r.kind = "DiscoveryResponse" => r.node_id = InitialId(r.uid)

Enough ==
    /\ Unmoved
    /\ losses <= setup.max_losses
    /\ \A i \in Invocations : Account(i)

RetryInv == BusInv /\ (RetriesSuffice => Enough)

-----------------------------------------------------------------------------
LEMMA RequestsFixed ==
    ASSUME setup' = setup
    PROVE  /\ \A i, u : Wants(i, u)' <=> Wants(i, u)
           /\ \A i : Wanted(i)' = Wanted(i)
           /\ \A i, r : Answers(r, i)' <=> Answers(r, i)
           /\ \A i, r, p : Carries(i, r, p)' <=> Carries(i, r, p)
           /\ RetriesSuffice' <=> RetriesSuffice
<1>1. \A i : /\ Command(i)' = Command(i) /\ Kind(i)' = Kind(i)
             /\ Broadcast(i)' = Broadcast(i)
  BY SetupFixed
<1>2. \A i, u : Wants(i, u)' <=> Wants(i, u)
  BY <1>1 DEF Wants
<1>3. \A i : Wanted(i)' = Wanted(i)
  BY <1>2 DEF Wanted
<1>4. \A i, r : Answers(r, i)' <=> Answers(r, i)
  BY <1>1 DEF Answers
<1>5. \A i, r, p : Carries(i, r, p)' <=> Carries(i, r, p)
  BY <1>1, <1>4 DEF Carries
<1>6. RetriesSuffice' <=> RetriesSuffice
  BY <1>1, SetupFixed DEF RetriesSuffice
<1> QED
  BY <1>2, <1>3, <1>4, <1>5, <1>6

\* An answer that waits in a socket stays one while the socket only grows.
LEMMA AnswerStays ==
    ASSUME setup' = setup, NEW i, NEW u, host'[i] = host[i],
           Range(socket[i]) \subseteq Range(socket'[i]), Answered(i, u)
    PROVE  Answered(i, u)'
<1>1. /\ Kind(i)' = Kind(i)
      /\ \A r : Answers(r, i)' <=> Answers(r, i)
      /\ \A r, p : Carries(i, r, p)' <=> Carries(i, r, p)
  BY SetupFixed, RequestsFixed
<1>2. Kind(i) = "control" => \E r \in Range(socket'[i]) : Answers(r, i)
  BY DEF Answered
<1>3. Kind(i) = "status" =>
         \A p \in StatusParts \ host[i].got : \E r \in Range(socket'[i]) : Carries(i, r, p)
  BY DEF Answered
<1>4. Kind(i) = "scan" =>
         \E r \in Range(socket'[i]) : /\ r.kind = "DiscoveryResponse" /\ r.nonce = i
                                      /\ r.uid = u /\ r.node_id = InitialId(u)
  BY DEF Answered
<1> QED
  BY <1>1, <1>2, <1>3, <1>4 DEF Answered

LEMMA ServiceStays ==
    ASSUME setup' = setup, NEW i, NEW u, host'[i] = host[i], losses' = losses,
           Range(inbox[u]) \subseteq Range(inbox'[u]),
           Range(socket[i]) \subseteq Range(socket'[i]), Served(i, u)
    PROVE  Served(i, u)'
<1>1. Kind(i)' = Kind(i)
  BY SetupFixed
<1>2. Answered(i, u) => Answered(i, u)'
  BY AnswerStays
<1> QED
  BY <1>1, <1>2 DEF Served

\* A process that does nothing is as well off as those it waits for leave it.
LEMMA AccountStays ==
    ASSUME setup' = setup, NEW i, host'[i] = host[i], Account(i),
           Listening(i) => \A u \in Wanted(i) : Served(i, u)'
    PROVE  Account(i)'
<1>1. /\ Kind(i)' = Kind(i) /\ (Broadcast(i)' <=> Broadcast(i)) /\ Retries' = Retries
      /\ Wanted(i)' = Wanted(i)
  BY SetupFixed, RequestsFixed
<1>2. Listening(i)' <=> Listening(i)
  BY DEF Listening
<1> QED
  BY <1>1, <1>2 DEF Account

\* A process that has exited waits for nobody.
LEMMA AccountClosed ==
    ASSUME setup' = setup, NEW i,
           host'[i].pc \in Exits, host'[i].attempt <= Retries,
           Kind(i) = "scan" => host'[i].got \subseteq Wanted(i),
           Kind(i) = "scan" /\ host'[i].pc # "Transport" =>
              /\ host'[i].got = Wanted(i)
              /\ host'[i].pc = "Timeout" => host'[i].got = {},
           Kind(i) # "scan" /\ host'[i].pc = "Timeout" => Wanted(i) = {} /\ ~ Broadcast(i)
    PROVE  Account(i)'
<1>1. /\ Kind(i)' = Kind(i) /\ (Broadcast(i)' <=> Broadcast(i)) /\ Retries' = Retries
      /\ Wanted(i)' = Wanted(i)
  BY SetupFixed, RequestsFixed
<1>2. ~ Listening(i)' /\ host'[i].pc # "idle"
  BY DEF Listening, Exits
<1> QED
  BY <1>1, <1>2 DEF Account

-----------------------------------------------------------------------------
\* A node that is looked for acts on the request, and its replies are what the
\* process that asked is waiting for.
LEMMA OwedIsAnswer ==
    ASSUME BusShapes, Unmoved, NEW u \in Nodes, NEW i \in Invocations, Wants(i, u),
           setup' = setup, Range(Replies(u, i, i)) \subseteq Range(socket'[i])
    PROVE  Answered(i, u)'
<1>1. /\ Kind(i)' = Kind(i)
      /\ \A r : Answers(r, i)' <=> Answers(r, i)
      /\ \A r, p : Carries(i, r, p)' <=> Carries(i, r, p)
  BY SetupFixed, RequestsFixed
<1>2. Kind(i) \in {"control", "status", "scan"}
  BY DEF Wants
<1>3. node[u].node_id = InitialId(u)
  BY DEF Unmoved
<1>4. /\ ResponseTo(u, i).kind = "Response" /\ ResponseTo(u, i).request = i
      /\ ResponseTo(u, i).op = Command(i).op
      /\ StateFor(u, i).kind = "NodeState" /\ StateFor(u, i).node = Command(i).node
      /\ InfoFor(i).kind = "NodeInfo" /\ InfoFor(i).node = Command(i).node
      /\ DiscoveryOf(u, i).kind = "DiscoveryResponse" /\ DiscoveryOf(u, i).nonce = i
      /\ DiscoveryOf(u, i).uid = u /\ DiscoveryOf(u, i).node_id = node[u].node_id
  BY DEF ResponseTo, StateFor, InfoFor, DiscoveryOf
<1>5. Answers(ResponseTo(u, i), i)
  BY <1>4 DEF Answers
<1>6. CASE Kind(i) = "control"
  <2>1. node[u].node_id # NoId
    <3>1. Command(i).node \in NodeIds \cup {BROADCAST_NODE} /\ Command(i).node = InitialId(u)
      BY <1>6, CommandTyped DEF Wants, BusShapes
    <3> QED
      BY <1>3, <3>1, NodeAssumption
  <2>2. ResponseTo(u, i) \in Range(socket'[i])
    BY <1>6, <2>1, RepliesOwed
  <2> QED
    BY <1>1, <1>5, <1>6, <2>2 DEF Answered
<1>7. CASE Kind(i) = "status"
  <2>1. {ResponseTo(u, i), StateFor(u, i), InfoFor(i)} \subseteq Range(socket'[i])
    BY <1>7, RepliesOwed
  <2>2. \A p \in StatusParts : \E r \in Range(socket'[i]) : Carries(i, r, p)
    BY <1>4, <1>5, <2>1 DEF StatusParts, Carries
  <2> QED
    BY <1>1, <1>7, <2>2 DEF Answered
<1>8. CASE Kind(i) = "scan"
  <2>1. DiscoveryOf(u, i) \in Range(socket'[i])
    BY <1>8, RepliesOwed
  <2> QED
    BY <1>1, <1>3, <1>4, <1>8, <2>1 DEF Answered
<1> QED
  BY <1>2, <1>6, <1>7, <1>8

LEMMA WantedActs ==
    ASSUME Unmoved, NEW u \in Nodes, NEW i \in Invocations, Wants(i, u)
    PROVE  Acts(u, Command(i))
BY DEF Wants, Unmoved, Acts, IsControl, Addressed, Kind

LEMMA NodeReceivesEnough ==
    ASSUME BusInv, RetriesSuffice, Enough, NEW u \in Nodes, NodeReceives(u), setup' = setup
    PROVE  Enough'
<1> DEFINE i == Head(inbox[u])
<1>1. /\ inbox[u] # <<>> /\ i \in Invocations
      /\ inbox' = [inbox EXCEPT ![u] = Tail(inbox[u])]
      /\ UNCHANGED <<host, losses>> /\ Handles(u, i)
  BY NodeHandles DEF BusInv
<1>2. /\ Invocations' = Invocations /\ Kind(i) # "commissioning"
  BY <1>1, SetupFixed DEF RetriesSuffice
<1>3. inbox \in [Nodes -> Seq(Invocations)]
  BY DEF BusInv, BusShapes
<1>4. /\ inbox'[u] = Tail(inbox[u])
      /\ Range(inbox[u]) = {i} \cup Range(inbox'[u])
      /\ \A v \in Nodes : v # u => inbox'[v] = inbox[v]
  BY <1>1, <1>3, Removed
<1>5. \A j \in Invocations :
         /\ Range(socket[j]) \subseteq Range(socket'[j])
         /\ Range(socket'[j]) \subseteq Range(socket[j]) \cup Range(Replies(u, i, j))
  BY <1>1 DEF Handles
<1>6. Unmoved'
  <2>1. \A v \in Nodes : node'[v].node_id = InitialId(v)
    BY <1>1, <1>2 DEF Handles, Enough, Unmoved
  <2>2. ASSUME NEW j \in Invocations, NEW r \in Range(socket'[j]), r.kind = "DiscoveryResponse"
        PROVE  r.node_id = InitialId(r.uid)
    <3>1. CASE r \in Range(socket[j])
      BY <2>2, <3>1 DEF Enough, Unmoved
    <3>2. CASE r \in Range(Replies(u, i, j))
      <4>1. \/ r = ResponseTo(u, i)
            \/ r \in {StateFor(u, i), InfoFor(i)}
            \/ r = ResultOf(i)
            \/ r = DiscoveryOf(u, i)
        BY <1>1, <3>2, RepliesRange DEF BusInv
      <4>2. r = DiscoveryOf(u, i)
        BY <2>2, <4>1 DEF ResponseTo, StateFor, InfoFor, ResultOf
      <4> QED
        BY <4>2 DEF DiscoveryOf, Enough, Unmoved
    <3> QED
      BY <1>5, <3>1, <3>2
  <2> QED
    BY <1>2, <2>1, <2>2 DEF Unmoved
<1>7. ASSUME NEW j \in Invocations
      PROVE  Account(j)'
  <2>1. Account(j) /\ host'[j] = host[j]
    BY <1>1 DEF Enough
  <2>2. ASSUME Listening(j), NEW v \in Wanted(j)
        PROVE  Served(j, v)'
    <3>1. v \in Nodes /\ Wants(j, v) /\ Served(j, v)
      BY <2>1, <2>2 DEF Account, Wanted
    <3>2. CASE Range(inbox[v]) \subseteq Range(inbox'[v])
      BY <1>1, <1>5, <2>1, <3>1, <3>2, ServiceStays
    <3>3. CASE ~ (Range(inbox[v]) \subseteq Range(inbox'[v]))
      <4>1. v = u
        BY <1>4, <3>1, <3>3
      <4>2. CASE j = i
        <5>1. Acts(u, Command(i))
          BY <3>1, <4>1, <4>2, WantedActs DEF Enough
        <5>2. Range(Replies(u, i, i)) \subseteq Range(socket'[i])
          BY <1>1, <2>2, <4>2, <5>1 DEF Handles
        <5>3. Answered(j, v)'
          BY <1>1, <3>1, <4>1, <4>2, <5>2, OwedIsAnswer DEF BusInv, Enough
        <5> QED
          BY <1>1, <2>1, <3>1, <5>3, SetupFixed DEF Served
      <4>3. CASE j # i
        <5>1. j \in Range(inbox[v]) => j \in Range(inbox'[v])
          BY <1>4, <4>1, <4>3
        <5>2. Answered(j, v) => Answered(j, v)'
          BY <1>5, <2>1, AnswerStays
        <5> QED
          BY <1>1, <2>1, <3>1, <5>1, <5>2, SetupFixed DEF Served
      <4> QED
        BY <4>2, <4>3
    <3> QED
      BY <3>2, <3>3
  <2> QED
    BY <2>1, <2>2, AccountStays
<1> QED
  BY <1>1, <1>2, <1>6, <1>7 DEF Enough

LEMMA StartEnough ==
    ASSUME BusInv, RetriesSuffice, Enough, NEW i \in Invocations, Start(i), setup' = setup
    PROVE  Enough'
<1>1. /\ host[i].pc = "idle" /\ host' = [host EXCEPT ![i].pc = "waiting"]
      /\ inbox' = [u \in Nodes |-> Append(inbox[u], i)]
      /\ UNCHANGED <<node, socket, losses, handled>>
  BY DEF Start, Transmit
<1>2. Invocations' = Invocations
  BY SetupFixed
<1>3. \A u \in Nodes : Range(inbox'[u]) = Range(inbox[u]) \cup {i}
  BY <1>1, Appended DEF BusInv, BusShapes
<1>4. /\ host'[i].pc = "waiting" /\ host'[i].got = host[i].got
      /\ host'[i].attempt = host[i].attempt
      /\ \A j \in Invocations : j # i => host'[j] = host[j]
  BY <1>1 DEF BusInv, BusShapes, HostStates
<1>5. Unmoved'
  BY <1>1, <1>2 DEF Enough, Unmoved
<1>6. ASSUME NEW j \in Invocations, j # i
      PROVE  Account(j)'
  <2>1. Account(j) /\ host'[j] = host[j]
    BY <1>4, <1>6 DEF Enough
  <2>2. ASSUME Listening(j), NEW v \in Wanted(j)
        PROVE  Served(j, v)'
    BY <1>1, <1>3, <2>1, <2>2, ServiceStays DEF Account, Wanted
  <2> QED
    BY <2>1, <2>2, AccountStays
<1>7. Account(i)'
  <2>1. Account(i) /\ host[i].attempt = 0 /\ host[i].got = {} /\ losses \in Nat
    BY <1>1 DEF Enough, Account, BusInv, BusShapes
  <2>2. ASSUME NEW v \in Wanted(i)
        PROVE  Served(i, v)'
    <3>1. losses' >= host'[i].attempt
      BY <1>1, <1>4, <2>1
    <3>2. i \in Range(inbox'[v])
      BY <1>3 DEF Wanted
    <3> QED
      BY <3>1, <3>2 DEF Served
  <2>3. /\ Kind(i)' = Kind(i) /\ (Broadcast(i)' <=> Broadcast(i)) /\ Retries' = Retries
        /\ Wanted(i)' = Wanted(i)
    BY SetupFixed, RequestsFixed
  <2>4. {} # StatusParts /\ "waiting" \notin Exits
    BY DEF StatusParts, Exits
  <2> QED
    BY <1>4, <2>1, <2>2, <2>3, <2>4 DEF Account
<1> QED
  BY <1>1, <1>2, <1>5, <1>6, <1>7 DEF Enough

\* A reply brings a process nearer to what it waits for, or was not for it.
LEMMA ReadingAccounts ==
    ASSUME BusInv, RetriesSuffice, Enough, NEW i \in Invocations, HostReads(i), setup' = setup
    PROVE  Account(i)'
<1> DEFINE r == Head(socket[i])
           h == AfterReading(i, r)
<1>1. /\ Listening(i) /\ socket[i] # <<>>
      /\ host' = [host EXCEPT ![i] = h]
      /\ socket' = [socket EXCEPT ![i] = IF host'[i].pc = "waiting" THEN Tail(socket[i]) ELSE <<>>]
      /\ UNCHANGED <<node, inbox, losses, handled>>
  BY DEF HostReads
<1>2. /\ Kind(i)' = Kind(i) /\ (Broadcast(i)' <=> Broadcast(i)) /\ Retries' = Retries
      /\ Wanted(i)' = Wanted(i)
      /\ \A s : Answers(s, i)' <=> Answers(s, i)
      /\ \A s, p : Carries(i, s, p)' <=> Carries(i, s, p)
  BY SetupFixed, RequestsFixed
<1>3. /\ socket[i] \in Seq(Frames) /\ i \in DOMAIN host /\ i \in DOMAIN socket
      /\ host[i] \in HostStates /\ host[i].pc = "waiting"
  BY <1>1 DEF BusInv, BusShapes, Listening
<1>4. r \in Frames /\ Range(socket[i]) = {r} \cup Range(Tail(socket[i]))
  BY <1>1, <1>3, Removed
<1>5. r.kind \in Reads(i)
  BY <1>4 DEF BusInv, Honest, Heard
<1>6. /\ h \in HostStates /\ h.attempt = host[i].attempt /\ h.pc \in {"waiting", "ok", "NodeRejected"}
      /\ host'[i] = h
  BY <1>1, <1>3, <1>4, <1>5, ReadingShapes DEF BusInv
<1>7. Account(i)
  BY DEF Enough
<1> HIDE DEF h
<1>8. CASE h.pc # "waiting"
  <2>1. Kind(i) # "scan"
    BY <1>3, <1>8 DEF h, AfterReading, HostStates
  <2> QED
    BY <1>6, <1>7, <1>8, <2>1, AccountClosed DEF Account, Exits
<1>9. CASE h.pc = "waiting"
  <2>1. Range(socket[i]) = {r} \cup Range(socket'[i])
    BY <1>1, <1>3, <1>4, <1>6, <1>9
  <2>2. Kind(i) = "scan" => h.got \subseteq Wanted(i)
    <3> SUFFICES ASSUME Kind(i) = "scan" PROVE h.got \subseteq Wanted(i)
      OBVIOUS
    <3>1. r.kind = "DiscoveryResponse"
      BY <1>5 DEF Reads
    <3>2. r.uid \in Nodes /\ r.node_id = InitialId(r.uid)
      BY <1>4, <3>1, FrameKinds DEF Enough, Unmoved
    <3>3. h = host[i] \/ (h = [host[i] EXCEPT !.got = @ \cup {r.uid}]
                          /\ Command(i).filter \in {NoId, r.node_id})
      BY DEF h, AfterReading
    <3>4. host[i].got \subseteq Wanted(i)
      BY <1>7 DEF Account
    <3> QED
      BY <1>3, <3>2, <3>3, <3>4 DEF HostStates, Wanted, Wants
  <2>3. Kind(i) = "status" =>
           h.got = Collected(i, r) /\ h.got # StatusParts /\ h.got \subseteq StatusParts
    <3> SUFFICES ASSUME Kind(i) = "status"
                 PROVE  h.got = Collected(i, r) /\ h.got # StatusParts /\ h.got \subseteq StatusParts
      OBVIOUS
    <3>1. h = [host[i] EXCEPT !.got = Collected(i, r)] /\ Collected(i, r) # StatusParts
      BY <1>3, <1>9 DEF h, AfterReading, HostStates
    <3>2. host[i].got \subseteq StatusParts
      BY <1>1, <1>7 DEF Account
    <3>3. Collected(i, r) \subseteq StatusParts
      BY <3>2 DEF Collected, StatusParts
    <3> QED
      BY <1>3, <3>1, <3>3 DEF HostStates
  <2>4. ASSUME NEW u \in Wanted(i)
        PROVE  Served(i, u)'
    <3>1. Served(i, u) /\ u \in Nodes /\ Wants(i, u)
      BY <1>1, <1>7 DEF Account, Wanted
    <3>2. Kind(i) = "scan" => host[i].got \subseteq h.got
      BY <1>3 DEF h, AfterReading, HostStates
    <3>3. Answered(i, u) => Answered(i, u)' \/ (Kind(i) = "scan" /\ u \in h.got)
      <4> SUFFICES ASSUME Answered(i, u)
                   PROVE  Answered(i, u)' \/ (Kind(i) = "scan" /\ u \in h.got)
        OBVIOUS
      <4>1. CASE Kind(i) = "control"
        <5>1. ~ Answers(r, i)
          <6>1. Answers(r, i) => h.pc = Exit(r.result)
            BY <1>3, <4>1 DEF h, AfterReading, HostStates
          <6> QED
            BY <1>9, <6>1 DEF Exit
        <5>2. \E s \in Range(socket'[i]) : Answers(s, i)
          BY <2>1, <4>1, <5>1 DEF Answered
        <5> QED
          BY <1>2, <4>1, <5>2 DEF Answered
      <4>2. CASE Kind(i) = "status"
        <5>1. ASSUME NEW p \in StatusParts \ h.got
              PROVE  \E s \in Range(socket'[i]) : Carries(i, s, p)
          <6>1. p \notin host[i].got /\ ~ Carries(i, r, p)
            BY <2>3, <4>2, <5>1 DEF Collected, Carries, Answers, StatusParts
          <6>2. PICK s \in Range(socket[i]) : Carries(i, s, p)
            BY <4>2, <5>1, <6>1 DEF Answered
          <6> QED
            BY <2>1, <6>1, <6>2
        <5> QED
          BY <1>2, <1>6, <4>2, <5>1 DEF Answered
      <4>3. CASE Kind(i) = "scan"
        <5>1. PICK s \in Range(socket[i]) :
                 /\ s.kind = "DiscoveryResponse" /\ s.nonce = i
                 /\ s.uid = u /\ s.node_id = InitialId(u)
          BY <4>3 DEF Answered
        <5>2. CASE s = r
          <6>1. h = [host[i] EXCEPT !.got = @ \cup {r.uid}]
            BY <3>1, <4>3, <5>1, <5>2 DEF h, AfterReading, Wants
          <6> QED
            BY <1>3, <4>3, <5>1, <5>2, <6>1 DEF HostStates
        <5>3. CASE s # r
          BY <1>2, <2>1, <4>3, <5>1, <5>3 DEF Answered
        <5> QED
          BY <5>2, <5>3
      <4> QED
        BY <3>1, <4>1, <4>2, <4>3 DEF Wants
    <3> QED
      BY <1>1, <1>2, <1>6, <3>1, <3>2, <3>3 DEF Served
  <2>5. "waiting" # "idle" /\ "waiting" \notin Exits
    BY DEF Exits
  <2> QED
    BY <1>2, <1>6, <1>7, <1>9, <2>2, <2>3, <2>4, <2>5 DEF Account
<1> QED
  BY <1>8, <1>9

LEMMA HostReadsEnough ==
    ASSUME BusInv, RetriesSuffice, Enough, NEW i \in Invocations, HostReads(i), setup' = setup
    PROVE  Enough'
<1>1. /\ Listening(i) /\ socket[i] # <<>>
      /\ host' = [host EXCEPT ![i] = AfterReading(i, Head(socket[i]))]
      /\ socket' = [socket EXCEPT ![i] = IF host'[i].pc = "waiting" THEN Tail(socket[i]) ELSE <<>>]
      /\ UNCHANGED <<node, inbox, losses, handled>>
  BY DEF HostReads
<1>2. Invocations' = Invocations
  BY SetupFixed
<1>3. /\ \A j \in Invocations : j # i => host'[j] = host[j] /\ socket'[j] = socket[j]
      /\ Range(socket'[i]) \subseteq Range(socket[i])
  <2>1. socket[i] \in Seq(Frames) /\ i \in DOMAIN socket
    BY DEF BusInv, BusShapes
  <2>2. Range(Tail(socket[i])) \subseteq Range(socket[i])
    BY <1>1, <2>1, Removed
  <2> QED
    BY <1>1, <2>1, <2>2, Nothing DEF BusInv, BusShapes
<1>4. Unmoved'
  BY <1>1, <1>2, <1>3 DEF Enough, Unmoved
<1>5. ASSUME NEW j \in Invocations, j # i
      PROVE  Account(j)'
  <2>1. Account(j) /\ host'[j] = host[j] /\ socket'[j] = socket[j]
    BY <1>3, <1>5 DEF Enough
  <2>2. ASSUME Listening(j), NEW v \in Wanted(j)
        PROVE  Served(j, v)'
    BY <1>1, <2>1, <2>2, ServiceStays DEF Account
  <2> QED
    BY <2>1, <2>2, AccountStays
<1>6. Account(i)'
  BY ReadingAccounts
<1> QED
  BY <1>1, <1>2, <1>4, <1>5, <1>6 DEF Enough

\* When nothing is in flight, whoever is still missing has cost a frame in this
\* attempt too.
LEMMA NothingOwed ==
    ASSUME BusInv, RetriesSuffice, Enough, NEW i \in Invocations, Listening(i), Quiet(i),
           NEW u \in Wanted(i)
    PROVE  \/ Kind(i) = "scan" /\ u \in host[i].got
           \/ losses >= host[i].attempt + 1
<1>1. u \in Nodes /\ Wants(i, u) /\ Served(i, u) /\ Account(i)
  BY DEF Wanted, Enough, Account
<1>2. i \notin Range(inbox[u])
  <2>1. inbox[u] \in Seq(Invocations) /\ ~ Contains(inbox[u], i)
    BY <1>1 DEF BusInv, BusShapes, Quiet
  <2> QED
    BY <2>1, ContainsIsRange
<1>3. ~ Answered(i, u)
  <2>1. Range(socket[i]) = {}
    BY Nothing DEF Quiet
  <2>2. Kind(i) = "status" => StatusParts \ host[i].got # {}
    BY <1>1 DEF Account
  <2> QED
    BY <1>1, <2>1, <2>2 DEF Answered, Wants
<1> QED
  BY <1>1, <1>2, <1>3 DEF Served

LEMMA TimesOutEnough ==
    ASSUME BusInv, RetriesSuffice, Enough, NEW i \in Invocations, HostTimesOut(i),
           setup' = setup
    PROVE  Enough'
<1>1. /\ Listening(i) /\ Quiet(i) /\ (Retry(i) \/ GiveUp(i))
      /\ UNCHANGED <<node, losses, handled>>
  BY DEF HostTimesOut, RetriesSuffice
<1>2. /\ Invocations' = Invocations
      /\ Kind(i)' = Kind(i) /\ (Broadcast(i)' <=> Broadcast(i)) /\ Retries' = Retries
      /\ Wanted(i)' = Wanted(i)
  BY SetupFixed, RequestsFixed
<1>3. /\ Account(i) /\ host[i].pc = "waiting" /\ host[i].attempt <= Retries
      /\ host[i].attempt \in Nat /\ losses \in Nat /\ Retries \in Nat
      /\ setup.max_losses \in Nat /\ losses <= setup.max_losses /\ setup.max_losses <= Retries
  BY <1>1, CommandTyped
     DEF Enough, Account, Listening, BusInv, BusShapes, HostStates, RetriesSuffice
<1>4. \A u \in Wanted(i) : \/ Kind(i) = "scan" /\ u \in host[i].got
                           \/ losses >= host[i].attempt + 1
  BY <1>1, NothingOwed
<1>5. /\ \A j \in Invocations : j # i => host'[j] = host[j]
      /\ \A j \in Invocations : j # i => socket'[j] = socket[j]
      /\ \A j \in Invocations : Range(socket'[j]) \subseteq Range(socket[j])
      /\ \A u \in Nodes : Range(inbox[u]) \subseteq Range(inbox'[u])
      /\ Account(i)'
  <2>1. CASE Retry(i)
    <3>1. /\ ~ LastAttempt(i)
          /\ host'[i].attempt = host[i].attempt + 1 /\ host'[i].pc = host[i].pc
          /\ host'[i].got = IF Kind(i) = "scan" THEN host[i].got ELSE {}
          /\ \A j \in Invocations : j # i => host'[j] = host[j]
          /\ \A u \in Nodes : Range(inbox'[u]) = Range(inbox[u]) \cup {i}
          /\ socket' = socket
      BY <2>1, Resends DEF BusInv
    <3>2. host'[i].attempt <= Retries
      BY <1>3, <3>1 DEF LastAttempt
    <3>3. ASSUME NEW u \in Wanted(i)
          PROVE  Served(i, u)'
      <4>1. CASE Kind(i) = "scan" /\ u \in host[i].got
        BY <1>2, <3>1, <4>1 DEF Served
      <4>2. CASE losses >= host[i].attempt + 1
        <5>1. losses' >= host'[i].attempt
          BY <1>1, <3>1, <4>2
        <5>2. i \in Range(inbox'[u])
          BY <3>1 DEF Wanted
        <5> QED
          BY <5>1, <5>2 DEF Served
      <4> QED
        BY <1>4, <4>1, <4>2
    <3>4. {} # StatusParts /\ "waiting" \notin Exits
      BY DEF StatusParts, Exits
    <3>5. Account(i)'
      BY <1>2, <1>3, <3>1, <3>2, <3>3, <3>4 DEF Account
    <3> QED
      BY <3>1, <3>5
  <2>2. CASE GiveUp(i)
    <3>1. /\ LastAttempt(i)
          /\ host'[i].got = host[i].got /\ host'[i].attempt = host[i].attempt
          /\ host'[i].pc \in {"ok", "Timeout"}
          /\ host'[i].pc = "Timeout" =>
                ~ Broadcast(i) /\ (Kind(i) = "scan" => host[i].got = {})
          /\ \A j \in Invocations : j # i => host'[j] = host[j] /\ socket'[j] = socket[j]
          /\ Range(socket'[i]) = {} /\ inbox' = inbox
      BY <2>2, GivesUp DEF BusInv
    <3>2. ~ Broadcast(i) => \A u \in Wanted(i) : Kind(i) = "scan" /\ u \in host[i].got
      BY <1>3, <1>4, <3>1 DEF LastAttempt
    <3>3. Kind(i) = "scan" => ~ Broadcast(i) /\ host[i].got \subseteq Wanted(i)
      BY <1>3 DEF Broadcast, Account
    <3>4. Kind(i) = "scan" => host'[i].got = Wanted(i)
      BY <3>1, <3>2, <3>3
    <3>5. Kind(i) # "scan" /\ host'[i].pc = "Timeout" => Wanted(i) = {} /\ ~ Broadcast(i)
      BY <3>1, <3>2
    <3>6. Account(i)'
      BY <1>3, <3>1, <3>4, <3>5, AccountClosed DEF Exits
    <3> QED
      BY <3>1, <3>6
  <2> QED
    BY <1>1, <2>1, <2>2
<1>6. Unmoved'
  BY <1>1, <1>2, <1>5 DEF Enough, Unmoved
<1>7. ASSUME NEW j \in Invocations, j # i
      PROVE  Account(j)'
  <2>1. Account(j) /\ host'[j] = host[j] /\ socket'[j] = socket[j]
    BY <1>5, <1>7 DEF Enough
  <2>2. ASSUME Listening(j), NEW v \in Wanted(j)
        PROVE  Served(j, v)'
    BY <1>1, <1>5, <2>1, <2>2, ServiceStays DEF Account, Wanted
  <2> QED
    BY <2>1, <2>2, AccountStays
<1> QED
  BY <1>1, <1>2, <1>5, <1>6, <1>7 DEF Enough

LEMMA IoErrorEnough ==
    ASSUME BusInv, RetriesSuffice, Enough, NEW i \in Invocations, IoError(i), setup' = setup
    PROVE  Enough'
<1>1. /\ host[i].pc \notin Exits /\ host'[i].pc = "Transport"
      /\ host'[i].got = host[i].got /\ host'[i].attempt = host[i].attempt
      /\ \A j \in Invocations : j # i => host'[j] = host[j] /\ socket'[j] = socket[j]
      /\ Range(socket'[i]) = {}
      /\ UNCHANGED <<node, inbox, losses, handled>>
  BY IoErrorMoves DEF BusInv
<1>2. Invocations' = Invocations
  BY SetupFixed
<1>3. Unmoved'
  BY <1>1, <1>2 DEF Enough, Unmoved
<1>4. ASSUME NEW j \in Invocations, j # i
      PROVE  Account(j)'
  <2>1. Account(j) /\ host'[j] = host[j] /\ socket'[j] = socket[j]
    BY <1>1, <1>4 DEF Enough
  <2>2. ASSUME Listening(j), NEW v \in Wanted(j)
        PROVE  Served(j, v)'
    BY <1>1, <2>1, <2>2, ServiceStays DEF Account
  <2> QED
    BY <2>1, <2>2, AccountStays
<1>5. Account(i)'
  <2>1. /\ host[i].attempt <= Retries
        /\ Kind(i) = "scan" => host[i].got \subseteq Wanted(i)
    BY DEF Enough, Account
  <2>2. host'[i].pc \in Exits
    BY <1>1 DEF Exits
  <2>3. /\ Kind(i) = "scan" /\ host'[i].pc # "Transport" =>
              /\ host'[i].got = Wanted(i)
              /\ host'[i].pc = "Timeout" => host'[i].got = {}
        /\ Kind(i) # "scan" /\ host'[i].pc = "Timeout" => Wanted(i) = {} /\ ~ Broadcast(i)
    BY <1>1
  <2> QED
    BY <1>1, <2>1, <2>2, <2>3, AccountClosed
<1> QED
  BY <1>1, <1>2, <1>3, <1>4, <1>5 DEF Enough

LEMMA LoseEnough ==
    ASSUME BusInv, RetriesSuffice, Enough, Lose, setup' = setup
    PROVE  Enough'
<1>1. /\ losses < setup.max_losses /\ UNCHANGED <<node, host, handled>>
      /\ losses' = losses + 1
      /\ \A j \in Invocations : Range(socket'[j]) \subseteq Range(socket[j])
  BY Loses DEF BusInv, RetriesSuffice
<1>2. Invocations' = Invocations
  BY SetupFixed
<1>3. losses \in Nat /\ setup.max_losses \in Nat
  BY BusAssumption DEF BusInv, BusShapes
<1>4. Unmoved'
  BY <1>1, <1>2 DEF Enough, Unmoved
<1>5. ASSUME NEW j \in Invocations
      PROVE  Account(j)'
  <2>1. Account(j) /\ host'[j] = host[j] /\ host[j].attempt \in Nat
    BY <1>1 DEF Enough, BusInv, BusShapes, HostStates
  <2>2. ASSUME Listening(j), NEW v \in Wanted(j)
        PROVE  Served(j, v)'
    <3>1. Served(j, v)
      BY <2>1, <2>2 DEF Account
    <3>2. \/ Kind(j) = "scan" /\ v \in host'[j].got
          \/ losses' >= host'[j].attempt + 1
      BY <1>1, <1>3, <2>1, <3>1 DEF Served
    <3> QED
      BY <3>2, SetupFixed DEF Served
  <2> QED
    BY <2>1, <2>2, AccountStays
<1> QED
  BY <1>1, <1>2, <1>3, <1>4, <1>5 DEF Enough

LEMMA EnoughInitial ==
    BusInit => RetryInv
<1> SUFFICES ASSUME BusInit PROVE RetryInv
  OBVIOUS
<1>1. BusInv
  BY BusInitial
<1>2. Retries \in Nat /\ setup.max_losses \in Nat
  BY BusAssumption DEF BusInit, Retries
<1>3. /\ \A u \in Nodes : node[u].node_id = InitialId(u)
      /\ \A i \in Invocations : Range(socket[i]) = {}
  BY Nothing DEF BusInit, NodeInit
<1>4. Unmoved
  BY <1>3 DEF Unmoved
<1>5. ASSUME NEW i \in Invocations
      PROVE  Account(i)
  <2>1. host[i].pc = "idle" /\ host[i].attempt = 0 /\ host[i].got = {}
    BY DEF BusInit
  <2> QED
    BY <1>2, <2>1 DEF Account, Listening, Exits
<1> QED
  BY <1>1, <1>2, <1>4, <1>5 DEF RetryInv, Enough, BusInit

LEMMA EnoughSteps ==
    RetryInv /\ [BusNext]_allVars => RetryInv'
<1> SUFFICES ASSUME RetryInv, [BusNext]_allVars PROVE RetryInv'
  OBVIOUS
<1>1. BusInv /\ BusInv'
  BY BusSteps DEF RetryInv
<1>2. setup' = setup
  BY DEF BusNext, allVars
<1>3. RetriesSuffice' <=> RetriesSuffice
  BY <1>2, RequestsFixed
<1>4. ASSUME RetriesSuffice PROVE Enough'
  <2>1. Enough
    BY <1>4 DEF RetryInv
  <2>2. CASE BusNext
    BY <1>1, <1>2, <1>4, <2>1, <2>2, NodeReceivesEnough, StartEnough, HostReadsEnough,
       TimesOutEnough, IoErrorEnough, LoseEnough DEF BusNext
  <2>3. CASE UNCHANGED allVars
    <3>1. UNCHANGED <<setup, node, inbox, socket, host, losses, handled>>
      BY <2>3 DEF allVars, busVars
    <3>2. Invocations' = Invocations
      BY <1>2, SetupFixed
    <3>3. Unmoved'
      BY <2>1, <3>1, <3>2 DEF Enough, Unmoved
    <3>4. ASSUME NEW j \in Invocations
          PROVE  Account(j)'
      <4>1. Account(j)
        BY <2>1 DEF Enough
      <4>2. ASSUME Listening(j), NEW v \in Wanted(j)
            PROVE  Served(j, v)'
        BY <3>1, <4>1, <4>2, ServiceStays DEF Account
      <4> QED
        BY <3>1, <4>1, <4>2, AccountStays
    <3> QED
      BY <2>1, <3>1, <3>2, <3>3, <3>4 DEF Enough
  <2> QED
    BY <2>2, <2>3
<1> QED
  BY <1>1, <1>3, <1>4 DEF RetryInv

\* A command times out only on an address nobody has, if no more frames are lost
\* than it has retries (OnlyAbsentNodesTimeOut): each attempt that missed a
\* present node has cost a frame of its own.
THEOREM TimeoutsMeanAbsence ==
    BusSpec => []OnlyAbsentNodesTimeOut
<1>1. RetryInv => OnlyAbsentNodesTimeOut
  <2> SUFFICES ASSUME RetryInv, RetriesSuffice, NEW i \in Invocations,
                      host[i].pc = "Timeout", NEW u \in Nodes, Acts(u, Command(i))
               PROVE  Kind(i) = "scan" /\ Command(i).filter \notin {NoId, node[u].node_id}
    BY DEF OnlyAbsentNodesTimeOut
  <2>1. /\ Account(i) /\ node[u].node_id = InitialId(u) /\ Kind(i) # "commissioning"
        /\ Kind(i) \in {"control", "status", "commissioning", "scan"}
    BY CommandTyped DEF RetryInv, Enough, Unmoved, BusInv, BusShapes, RetriesSuffice
  <2>2. Wanted(i) = {} /\ (Kind(i) # "scan" => ~ Broadcast(i))
    BY <2>1 DEF Account, Exits
  <2>3. ~ Wants(i, u)
    BY <2>2 DEF Wanted
  <2>4. CASE Kind(i) \in {"control", "status"}
    <3>1. Addressed(u, Command(i))
      BY <2>4 DEF Acts, IsControl, Kind
    <3>2. Command(i).node # BROADCAST_NODE
      <4>1. CASE Kind(i) = "control"
        BY <2>2, <4>1 DEF Broadcast
      <4>2. CASE Kind(i) = "status"
        <5>1. Command(i).op = "RequestStatus"
          BY <4>2, CommandTyped DEF RetryInv, BusInv, BusShapes
        <5>2. Command(i).node \in NodeIds
          BY <4>2, CommandTyped DEF RetryInv, BusInv, BusShapes
        <5> QED
          BY <5>2, NodeAssumption
      <4> QED
        BY <2>4, <4>1, <4>2
    <3> QED
      BY <2>1, <2>2, <2>3, <2>4, <3>1, <3>2 DEF Addressed, Wants
  <2>5. CASE Kind(i) = "scan"
    BY <2>1, <2>3, <2>5 DEF Wants
  <2> QED
    BY <2>1, <2>4, <2>5
<1> QED
  BY <1>1, EnoughInitial, EnoughSteps, PTL DEF BusSpec

\* A scan that ends has found exactly the nodes it looks for, whichever ones
\* each of its attempts missed (ScanFindsEveryNode).
THEOREM ScansFindAll ==
    BusSpec => []ScanFindsEveryNode
<1>1. RetryInv => ScanFindsEveryNode
  <2> SUFFICES ASSUME RetryInv, RetriesSuffice, NEW i \in Invocations,
                      Kind(i) = "scan", host[i].pc \in Exits \ {"Transport"}
               PROVE  host[i].got = {u \in Nodes : Command(i).filter \in {NoId, node[u].node_id}}
    BY DEF ScanFindsEveryNode
  <2>1. Account(i) /\ \A u \in Nodes : node[u].node_id = InitialId(u)
    BY DEF RetryInv, Enough, Unmoved
  <2> QED
    BY <2>1 DEF Account, Wanted, Wants
<1> QED
  BY <1>1, EnoughInitial, EnoughSteps, PTL DEF BusSpec
=============================================================================
