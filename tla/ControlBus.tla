----------------------------- MODULE ControlBus -----------------------------
(***************************************************************************)
(* `pdcan' invocations (firmware/tools/pdcan/src/main.rs, mod linux) that  *)
(* scan, commission, query and control the simulated nodes of one bus.     *)
(*                                                                         *)
(* An invocation sends one request and retransmits that same frame at each *)
(* timeout, so a frame to the nodes is named by its invocation.  All hosts *)
(* share one interface: frames keep their order, every node has a receive  *)
(* buffer of its own, and a frame can be lost in any of them.              *)
(***************************************************************************)
EXTENDS SimulatedNode, Sequences, SequencesExt

\* A setup is what a behaviour starts from: the processes, whose request ids
\* are distinct, and the bus.
CONSTANT Setups

\* The requests the command line has: to a Node ID, of which only an emergency may
\* go to all instead, to a UID, or to whoever is there.
Commands ==
    [kind : {"control"}, op : {"EmergencyDisable"}, node : NodeIds \cup {BROADCAST_NODE}]
    \cup [kind : {"control"}, op : {"AcknowledgeEmergency"}, node : NodeIds]
    \cup [kind : {"control"}, op : {"SetCarrierPolicy"}, node : NodeIds, enabled : BOOLEAN]
    \cup [kind : {"control"}, op : {"SetFan"}, node : NodeIds, fan : FanIds, duty : Duties]
    \cup [kind : {"control"}, op : {"SetBinding"}, node : NodeIds,
          binding : Bindings \cup {NoBinding}]
    \cup [kind : {"status"}, op : {"RequestStatus"}, node : NodeIds]
    \cup [kind : {"commissioning"}, op : {"AssignNode"}, uid : Nodes, node_id : NodeIds]
    \cup [kind : {"commissioning"}, op : {"ClearNode", "Identify"}, uid : Nodes]
    \cup [kind : {"scan"}, op : {"Discover"}, filter : NodeIds \cup {NoId}]

ASSUME BusAssumption ==
    \A s \in Setups :
        /\ \A i \in DOMAIN s.commands : s.commands[i] \in Commands
        /\ {s.retries, s.max_losses} \subseteq Nat
        /\ {s.losses_run_out, s.patient, s.io_fails} \subseteq BOOLEAN

VARIABLES
    setup,      \* the setup of this behaviour
    inbox,      \* per node, the invocations whose frame it has yet to read
    socket,     \* per invocation, the replies it has yet to read
    host,       \* per invocation, its program counter, attempt and what it got
    losses,     \* how many frames were lost
    handled     \* history: [request, uid, result] of every request handled

busVars == <<inbox, socket, losses>>
allVars == <<setup, node, busVars, host, handled>>

Command(i) == setup.commands[i]
Invocations == DOMAIN setup.commands
Retries == setup.retries    \* --retries, 3 by default

Kind(i) == Command(i).kind   \* "control", "status", "commissioning" or "scan"

Broadcast(i) == Kind(i) = "control" /\ Command(i).node = BROADCAST_NODE

\* The exits of CliError these commands can take: Codec and Internal are for frames
\* no command builds.
Exits == {"ok", "NodeRejected", "Timeout", "Transport"}
Listening(i) == host[i].pc = "waiting"

BusInit ==
    /\ setup \in Setups
    /\ NodeInit
    /\ inbox = [u \in Nodes |-> <<>>]
    /\ socket = [i \in Invocations |-> <<>>]
    /\ host = [i \in Invocations |-> [pc |-> "idle", attempt |-> 0, got |-> {}]]
    /\ losses = 0
    /\ handled = {}

-----------------------------------------------------------------------------
\* The nodes.

IsControl(c) == c.kind \in {"control", "status"}

\* Whether node u acts on the request, and whether it can sign an answer.
Acts(u, c) ==
    \/ IsControl(c) /\ Addressed(u, c)
    \/ c.kind = "commissioning" /\ c.uid = u
    \/ c.kind = "scan"

Result(u, c) == IF IsControl(c) THEN ControlResult(u, c) ELSE "Ok"

\* The replies a command looks at; it decodes any other to an error.
Reads(j) ==
    CASE Kind(j) = "control" -> {"Response"}
      [] Kind(j) = "status" -> {"Response", "NodeState", "NodeInfo"}
      [] Kind(j) = "commissioning" -> {"Result"}
      [] Kind(j) = "scan" -> {"DiscoveryResponse"}

Seen(j, r) == IF r.kind \in Reads(j) THEN <<r>> ELSE <<>>

\* Of the frames node u answers request i with those that invocation j looks
\* at, in the order the node writes them.
Replies(u, i, j) ==
    LET c == Command(i)
        response == Seen(j, [kind |-> "Response", request |-> i, op |-> c.op,
                             result |-> ControlResult(u, c)])
    IN CASE c.kind = "control" /\ node[u].node_id = NoId -> <<>>
         [] c.kind = "control" /\ node[u].node_id # NoId -> response
         [] c.kind = "status" ->
                response
                \o Seen(j, [kind |-> "NodeState", node |-> c.node, body |-> NodeState(u)])
                \o Seen(j, [kind |-> "NodeInfo", node |-> c.node])
         [] c.kind = "commissioning" ->
                Seen(j, [kind |-> "Result", request |-> i, op |-> c.op, result |-> "Ok"])
         [] c.kind = "scan" ->
                Seen(j, [kind |-> "DiscoveryResponse", nonce |-> i, uid |-> u,
                         node_id |-> node[u].node_id])

Deliver(u, i) ==
    socket' = [j \in Invocations |->
        IF Listening(j) THEN socket[j] \o Replies(u, i, j) ELSE socket[j]]

\* handle_frame on the next frame in the node's buffer.
NodeReceives(u) ==
    /\ inbox[u] # <<>>
    /\ LET i == Head(inbox[u])
           c == Command(i)
       IN IF Acts(u, c)
          THEN /\ IF IsControl(c) THEN HandleControl(u, c) ELSE HandleCommissioning(u, c)
               /\ Deliver(u, i)
               /\ handled' = handled \cup {[request |-> i, uid |-> u, result |-> Result(u, c)]}
          ELSE UNCHANGED <<node, socket, handled>>
    /\ inbox' = [inbox EXCEPT ![u] = Tail(@)]
    /\ UNCHANGED <<host, losses>>

-----------------------------------------------------------------------------
\* The host.

\* write_frame: every node's buffer gets a copy.
Transmit(i) == inbox' = [u \in Nodes |-> Append(inbox[u], i)]

Start(i) ==
    /\ host[i].pc = "idle"
    /\ host' = [host EXCEPT ![i].pc = "waiting"]
    /\ Transmit(i)
    /\ UNCHANGED <<node, socket, losses, handled>>

\* Mutant: the filter forgets to compare the request id.
Answers_AnyRequest(r, i) ==
    /\ r.kind \in {"Response", "Result"}
    /\ r.op = Command(i).op

\* Whether reply r carries the answer to request i.
Answers(r, i) ==
    /\ r.kind \in {"Response", "Result"}
    /\ r.request = i
    /\ r.op = Command(i).op

\* The pc after an answer.
Exit(result) == IF result = "Ok" THEN "ok" ELSE "NodeRejected"

StatusParts == {"accepted", "state", "info"}

\* What `status' has once it has also read r.
Collected(i, r) ==
    host[i].got \cup
        CASE Answers(r, i) -> {"accepted"}
          [] r.kind = "NodeState" /\ r.node = Command(i).node -> {"state"}
          [] r.kind = "NodeInfo" /\ r.node = Command(i).node -> {"info"}
          [] OTHER -> {}

\* Where invocation i is once it has read r.
AfterReading(i, r) ==
    LET h == host[i]
    IN CASE Kind(i) = "scan" ->
              IF r.nonce = i /\ Command(i).filter \in {NoId, r.node_id}
              THEN [h EXCEPT !.got = @ \cup {r.uid}]
              ELSE h
         [] Kind(i) = "status" ->
              IF Answers(r, i) /\ r.result # "Ok"
              THEN [h EXCEPT !.pc = "NodeRejected", !.got = {}]
              ELSE IF Collected(i, r) = StatusParts
                   THEN [h EXCEPT !.pc = "ok", !.got = {}]
                   ELSE [h EXCEPT !.got = Collected(i, r)]
         [] OTHER ->
              IF Answers(r, i) THEN [h EXCEPT !.pc = Exit(r.result)] ELSE h

\* A process that exits closes its socket.
HostReads(i) ==
    /\ Listening(i)
    /\ socket[i] # <<>>
    /\ host' = [host EXCEPT ![i] = AfterReading(i, Head(socket[i]))]
    /\ socket' = [socket EXCEPT ![i] = IF host'[i].pc = "waiting" THEN Tail(@) ELSE <<>>]
    /\ UNCHANGED <<node, inbox, losses, handled>>

\* No frame that i could still wait for is in flight: a patient host's timer
\* outlasts those that are.
Quiet(i) ==
    /\ socket[i] = <<>>
    /\ \A u \in Nodes : ~ Contains(inbox[u], i)

\* Mutant: one attempt too few.
LastAttempt_OffByOne(i) ==
    \/ host[i].attempt + 1 >= Retries
    \/ Broadcast(i)

\* A broadcast is never retransmitted.
LastAttempt(i) ==
    \/ host[i].attempt = Retries
    \/ Broadcast(i)

\* Mutant: every attempt of a scan starts with an empty map.
Retry_Forgets(i) ==
    /\ ~ LastAttempt(i)
    /\ host' = [host EXCEPT ![i].attempt = @ + 1, ![i].got = {}]
    /\ Transmit(i)
    /\ UNCHANGED socket

\* Mutant: the attempts are not counted.
Retry_Uncounted(i) ==
    /\ ~ LastAttempt(i)
    /\ host' = [host EXCEPT ![i].got = {}]
    /\ Transmit(i)
    /\ UNCHANGED socket

\* `status' starts each attempt with nothing; a scan keeps what it found.
Retry(i) ==
    /\ ~ LastAttempt(i)
    /\ host' = [host EXCEPT ![i].attempt = @ + 1,
                            ![i].got = IF Kind(i) = "scan" THEN @ ELSE {}]
    /\ Transmit(i)
    /\ UNCHANGED socket

GiveUp(i) ==
    /\ LastAttempt(i)
    /\ host' = [host EXCEPT ![i].pc =
            CASE Kind(i) = "scan" -> IF host[i].got = {} THEN "Timeout" ELSE "ok"
              [] Kind(i) = "control" ->
                    IF Broadcast(i) THEN "ok" ELSE "Timeout"
              [] OTHER -> "Timeout"]
    /\ socket' = [socket EXCEPT ![i] = <<>>]
    /\ UNCHANGED inbox

HostTimesOut(i) ==
    /\ Listening(i)
    /\ setup.patient => Quiet(i)
    /\ Retry(i) \/ GiveUp(i)
    /\ UNCHANGED <<node, losses, handled>>

\* The interface fails while the socket is opened, read or written: nothing is
\* sent and the process gives up.
IoError(i) ==
    /\ setup.io_fails
    /\ host[i].pc \notin Exits
    /\ host' = [host EXCEPT ![i].pc = "Transport"]
    /\ socket' = [socket EXCEPT ![i] = <<>>]
    /\ UNCHANGED <<node, inbox, losses, handled>>

-----------------------------------------------------------------------------
\* Losses, in the receive buffer of a node or of a host's socket: max_losses
\* bounds how many there are, unless they never run out.

Lose ==
    /\ losses < setup.max_losses
    /\ losses' = IF setup.losses_run_out THEN losses + 1 ELSE losses
    /\ \/ \E u \in Nodes : /\ inbox[u] # <<>>
                           /\ inbox' = [inbox EXCEPT ![u] = Tail(@)]
                           /\ UNCHANGED socket
       \/ \E i \in Invocations : /\ socket[i] # <<>>
                                 /\ socket' = [socket EXCEPT ![i] = Tail(@)]
                                 /\ UNCHANGED inbox
    /\ UNCHANGED <<node, host, handled>>

BusNext ==
    /\ \/ \E u \in Nodes : NodeReceives(u)
       \/ \E i \in Invocations : Start(i) \/ HostReads(i) \/ HostTimesOut(i)
       \/ \E i \in Invocations : IoError(i)
       \/ Lose
    /\ UNCHANGED setup

BusSpec == BusInit /\ [][BusNext]_allVars

\* The processes of any setup.
Processes == UNION {DOMAIN s.commands : s \in Setups}

\* A node that has a frame reads it, and a host blocked in read_until either
\* reads a frame or its deadline passes.
FairBusSpec ==
    /\ BusSpec
    /\ \A u \in Nodes : WF_allVars(NodeReceives(u) /\ UNCHANGED setup)
    /\ \A i \in Processes :
          /\ WF_allVars(i \in Invocations /\ HostReads(i) /\ UNCHANGED setup)
          /\ WF_allVars(i \in Invocations /\ HostTimesOut(i) /\ UNCHANGED setup)

-----------------------------------------------------------------------------
(***************************************************************************)
(* Properties.                                                             *)
(***************************************************************************)

\* What a command reports was done: it says `ok' only if some node carried out
\* its request, and reports a refusal only if some node refused it.  A
\* broadcast is the exception, its `ok' promises nothing (main.rs:644).
ReportedResultsHappened ==
    \A i \in Invocations :
        /\ host[i].pc = "ok" /\ ~ Broadcast(i) =>
              \E r \in handled : r.request = i /\ r.result = "Ok"
        /\ host[i].pc = "NodeRejected" =>
              \E r \in handled : r.request = i /\ r.result = "Unsupported"

\* No more frames are lost than a command has retries, every answer comes in
\* time, and no process assigns or clears a Node ID.
RetriesSuffice ==
    /\ setup.patient /\ setup.losses_run_out /\ setup.max_losses <= Retries
    /\ \A i \in Invocations : Kind(i) # "commissioning"

\* A command then times out only on an address nobody has: the retries outlive
\* the losses, whichever frames they hit.
OnlyAbsentNodesTimeOut ==
    \A i \in Invocations : RetriesSuffice /\ host[i].pc = "Timeout" =>
        \A u \in Nodes : \/ ~ Acts(u, Command(i))
                         \/ Kind(i) = "scan" /\ Command(i).filter \notin {NoId, node[u].node_id}

\* And a scan has found every node it looks for when it ends, although each of
\* its attempts may have missed another one, unless its interface failed.
ScanFindsEveryNode ==
    \A i \in Invocations : RetriesSuffice /\ Kind(i) = "scan"
            /\ host[i].pc \in Exits \ {"Transport"} =>
        host[i].got = {u \in Nodes : Command(i).filter \in {NoId, node[u].node_id}}

\* Every command ends, even if frames are lost for ever: again and again no
\* process is left waiting.
EveryCommandExits == []<>(\A i \in Invocations : ~ Listening(i))

\* On a bus that loses nothing a broadcast emergency reaches every node: one
\* that has just lost its Node ID too, and long after the host has exited.  One
\* whose interface failed may not have sent it, and says so.
EmergencyReachesEveryNode ==
    []<>(setup.max_losses = 0 =>
            \A i \in Invocations, u \in Nodes :
                Broadcast(i) /\ host[i].pc \notin {"idle", "Transport"} =>
                    \E r \in handled : r.request = i /\ r.uid = u)
=============================================================================
