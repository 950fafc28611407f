-------------------------- MODULE FirmwareTransfer --------------------------
(***************************************************************************)
(* Firmware updates over the CAN bus: `pdcan firmware' invocations on the  *)
(* host (firmware/tools/pdcan/src/main.rs, mod linux) talking to one node  *)
(* (UpdateNode) through a bus that can lose frames.                        *)
(*                                                                         *)
(* Each invocation is an operating-system process of its own that runs one *)
(* command: "stage", "activate", "update" (stage, then activate) or        *)
(* "abort".  Its program counter names the call it is blocked in, and at   *)
(* the end the outcome it exits with.  Request ids are unique per          *)
(* invocation (a time stamp), so id <<i, k>> is options.request_id + k of  *)
(* invocation i, and the session it derives from its id is i itself.       *)
(***************************************************************************)
EXTENDS UpdateNode, Sequences

\* A setup is what a behaviour starts from: the processes and the bus.
CONSTANT Setups

ASSUME HostAssumption ==
    /\ MaxLen \in Nat \ {0}
    /\ \A s \in Setups :
          /\ DOMAIN s.commands \subseteq Sessions \ {0}
          /\ \A i \in DOMAIN s.commands : LET c == s.commands[i] IN
                /\ c.verb \in {"stage", "activate", "update", "abort"}
                /\ c.allow \in BOOLEAN
                /\ c.bundle \in Manifests
                /\ c.bundle.digest \in [0..(c.bundle.image_size - 1) -> Bytes]
          /\ s.retries \in Nat
          /\ s.window \in Nat \ {0}
          /\ {s.patient, s.losses_run_out, s.io_fails} \subseteq BOOLEAN

VARIABLES
    setup,       \* the setup of this behaviour
    bus,         \* frames on their way to the node
    socket,      \* per invocation, frames its open socket has buffered
    host,        \* per invocation, its program counter and locals
    losses,      \* how many frames were lost so far
    staged_log,  \* history: <<session, manifest>> of every image ever staged
    active_log,  \* history: the sessions whose activation was accepted
    abort_log    \* history: the sessions an abort discarded

busVars == <<bus, socket, losses>>
logVars == <<staged_log, active_log, abort_log>>
allVars == <<setup, nodeVars, busVars, host, logVars>>

Command(i) == setup.commands[i]    \* [verb, bundle, allow]
Invocations == DOMAIN setup.commands
Retries == setup.retries           \* --retries, 3 by default
FIRMWARE_WINDOW_FRAMES == setup.window    \* 8 in the source

Verb(i)   == Command(i).verb
Bundle(i) == Command(i).bundle

Stages(i) == Verb(i) \in {"stage", "update"}
Activates(i) == Verb(i) \in {"activate", "update"}

\* The calls an invocation blocks in, and the exits of CliError it can take:
\* Codec and Internal are for frames no command builds.
Waiting == {"begin", "window", "finish", "status", "activate", "abort"}
Exits == {"ok", "NodeRejected", "Timeout", "InterruptionRequired", "Transport"}

Listening(i) == host[i].pc \in Waiting \cup {"sending"}

-----------------------------------------------------------------------------
\* Frames.  FW_DATA carries no request id and is acknowledged under id 0.

NoRequest == <<0, 0>>

BeginFrame(i) ==
    [op |-> "Begin", id |-> <<i, 0>>, session |-> i, manifest |-> Bundle(i)]

ChunkLen(i, offset) ==
    IF Bundle(i).image_size - offset < MaxLen
    THEN Bundle(i).image_size - offset
    ELSE MaxLen

DataFrame(i, offset) ==
    [op |-> "Data", id |-> NoRequest, session |-> i, offset |-> offset,
     len |-> ChunkLen(i, offset),
     bytes |-> [j \in 0..(ChunkLen(i, offset) - 1) |-> Bundle(i).digest[offset + j]]]

FinishFrame(i) == [op |-> "Finish", id |-> <<i, 1>>, session |-> i]

StatusFrame(i) == [op |-> "Status", id |-> <<i, 0>>]

ActivateFrame(i, s) ==
    [op |-> "Activate", id |-> <<i, 2>>, session |-> s, allow |-> Command(i).allow]

AbortFrame(i, s) == [op |-> "Abort", id |-> <<i, 3>>, session |-> s]

\* The frame a blocked call retransmits.
Pending(i) ==
    CASE host[i].pc = "begin"    -> BeginFrame(i)
      [] host[i].pc = "finish"   -> FinishFrame(i)
      [] host[i].pc = "status"   -> StatusFrame(i)
      [] host[i].pc = "activate" -> ActivateFrame(i, host[i].session)
      [] host[i].pc = "abort"    -> AbortFrame(i, host[i].session)

-----------------------------------------------------------------------------
\* The node.

Handle(f, e) ==
    \/ f.op = "Begin" /\ FwBegin(f.session, f.manifest, e)
    \/ f.op = "Data" /\ FwData(f.session, f.offset, f.len, f.bytes, e)
    \/ f.op = "Finish" /\ FwFinish(f.session, e)
    \/ f.op = "Activate" /\ FwActivate(f.session, f.allow, e)
    \/ f.op = "Abort" /\ FwAbort(f.session, e)

\* A reply reaches every open socket.  Every filter of the host compares the
\* request id or its own session, so the other sockets would only skip it.
Deliver(reply) ==
    socket' = [i \in Invocations |->
        IF Listening(i) /\ (reply.id[1] = i \/ reply.body.session = i)
        THEN Append(socket[i], reply)
        ELSE socket[i]]

NodeReceives ==
    /\ bus # <<>>
    /\ bus' = Tail(bus)
    /\ \/ /\ Head(bus).op = "Status"
          /\ UNCHANGED nodeVars
          /\ Deliver([op |-> "Status", id |-> Head(bus).id, body |-> FirmwareStatus])
       \/ \E e \in AckError :
             /\ Handle(Head(bus), e)
             /\ Deliver([op |-> "Ack", id |-> Head(bus).id, body |-> FirmwareAck(e)])
    /\ staged_log' = IF state' = "Staged"
                     THEN staged_log \cup {<<session', manifest'>>}
                     ELSE staged_log
    /\ active_log' = IF state' = "Activating"
                     THEN active_log \cup {session'}
                     ELSE active_log
    /\ abort_log' = IF Head(bus).op = "Abort" /\ state' = "Idle"
                    THEN abort_log \cup {session}
                    ELSE abort_log
    /\ UNCHANGED <<host, losses>>

-----------------------------------------------------------------------------
\* The host.

\* The call of program counter p has just sent f for the first time.
Send(i, f, h) ==
    /\ host' = [host EXCEPT ![i] = h]
    /\ bus' = Append(bus, f)

Exit(i, outcome) ==
    /\ host' = [host EXCEPT ![i].pc = outcome]
    /\ UNCHANGED bus

Enter(i, p) == [host[i] EXCEPT !.pc = p, !.attempt = 0]

Start(i) ==
    /\ host[i].pc = "start"
    /\ \/ /\ Stages(i)
          /\ Send(i, BeginFrame(i), Enter(i, "begin"))
       \/ /\ ~Stages(i)
          /\ Send(i, StatusFrame(i), Enter(i, "status"))
    /\ UNCHANGED <<nodeVars, socket, losses, logVars>>

\* The head of transfer_image's loop: the next window, or Finish.
Continue(i, offset) ==
    \/ /\ offset < Bundle(i).image_size
       /\ host' = [host EXCEPT ![i] = [Enter(i, "sending") EXCEPT
                                          !.offset = offset,
                                          !.sent_until = offset]]
       /\ UNCHANGED bus
    \/ /\ offset >= Bundle(i).image_size
       /\ Send(i, FinishFrame(i), [Enter(i, "finish") EXCEPT !.offset = offset])

WindowSent(i) ==
    \/ host[i].sent_until >= Bundle(i).image_size
    \/ host[i].sent_until >= host[i].offset + FIRMWARE_WINDOW_FRAMES * MaxLen

\* send_data_window, one frame per step: other frames may come in between.
SendChunk(i) ==
    /\ host[i].pc = "sending"
    /\ ~WindowSent(i)
    /\ Send(i, DataFrame(i, host[i].sent_until),
            [host[i] EXCEPT !.sent_until = @ + ChunkLen(i, @)])
    /\ UNCHANGED <<nodeVars, socket, losses, logVars>>

AwaitWindow(i) ==
    /\ host[i].pc = "sending"
    /\ WindowSent(i)
    /\ host' = [host EXCEPT ![i].pc = "window", ![i].cumulative = host[i].offset]
    /\ UNCHANGED <<nodeVars, busVars, logVars>>

\* The last of the Retries + 1 attempts has timed out.
Exhausted(i) == host[i].attempt = Retries

\* Mutants: a stall counts as progress; a window is taken to have arrived
\* whole as soon as any of it has.
EndWindow_StallIsProgress(i, cumulative) == Continue(i, cumulative)

EndWindow_Optimistic(i, cumulative) == Continue(i, host[i].sent_until)

\* The end of one attempt at a window: progress moves the window on, none is
\* another attempt.
EndWindow(i, cumulative) ==
    \/ /\ cumulative > host[i].offset
       /\ Continue(i, cumulative)
    \/ /\ cumulative <= host[i].offset
       /\ ~Exhausted(i)
       /\ host' = [host EXCEPT ![i].pc = "sending",
                               ![i].attempt = @ + 1,
                               ![i].sent_until = host[i].offset]
       /\ UNCHANGED bus
    \/ /\ cumulative <= host[i].offset
       /\ Exhausted(i)
       /\ Exit(i, "Timeout")

\* A patient host's timer outlasts every frame in flight.
Expired(i) ==
    setup.patient => bus = <<>> /\ socket[i] = <<>>

Timeout(i) ==
    /\ host[i].pc \in Waiting
    /\ Expired(i)
    /\ \/ /\ host[i].pc = "window"
          /\ EndWindow(i, host[i].cumulative)
       \/ /\ host[i].pc # "window"
          /\ ~Exhausted(i)
          /\ Send(i, Pending(i), [host[i] EXCEPT !.attempt = @ + 1])
       \/ /\ host[i].pc # "window"
          /\ Exhausted(i)
          /\ Exit(i, "Timeout")
    /\ UNCHANGED <<nodeVars, socket, losses, logVars>>

\* The filters of send_firmware_request, receive_window_ack and
\* firmware_status.
Matches(i, f) ==
    \/ host[i].pc = "begin" /\ f.op = "Ack" /\ f.id = <<i, 0>> /\ f.body.session = i
    \/ host[i].pc = "window" /\ f.op = "Ack" /\ f.body.session = i
    \/ host[i].pc = "finish" /\ f.op = "Ack" /\ f.id = <<i, 1>> /\ f.body.session = i
    \/ host[i].pc = "status" /\ f.op = "Status" /\ f.id = <<i, 0>>
    \/ /\ host[i].pc = "activate"
       /\ f.op = "Ack" /\ f.id = <<i, 2>> /\ f.body.session = host[i].session
    \/ host[i].pc = "abort" /\ f.op = "Ack" /\ f.id = <<i, 3>>

Take(i) == socket' = [socket EXCEPT ![i] = Tail(@)]

\* firmware_status and activate each open a socket of their own.
Reopen(i) == socket' = [socket EXCEPT ![i] = <<>>]

Skip(i) ==
    /\ host[i].pc \in Waiting
    /\ socket[i] # <<>>
    /\ ~Matches(i, Head(socket[i]))
    /\ Take(i)
    /\ UNCHANGED <<nodeVars, bus, losses, host, logVars>>

\* Mutant: Busy is taken for a node that is still at it.
Refused_ButBusy(code) == code \notin {"None", "Busy"}

\* require_update_ok
Refused(code) == code # "None"

\* ... and the check of stage that the image was staged.
Fails(i, ack) ==
    \/ Refused(ack.error)
    \/ host[i].pc = "finish" /\ ack.state # "Staged"

ReceiveAck(i, ack) ==
    \/ /\ Fails(i, ack)
       /\ Exit(i, "NodeRejected")
       /\ Take(i)
    \/ /\ ~Fails(i, ack)
       /\ \/ /\ host[i].pc = "begin"
             /\ Continue(i, ack.next_offset)
          \/ /\ host[i].pc = "window"
             /\ ack.next_offset >= host[i].sent_until
             /\ EndWindow(i, ack.next_offset)
          \/ /\ host[i].pc = "window"
             /\ ack.next_offset < host[i].sent_until
             /\ host' = [host EXCEPT ![i].cumulative = ack.next_offset]
             /\ UNCHANGED bus
          \/ /\ host[i].pc = "finish" /\ Verb(i) = "stage"
             /\ Exit(i, "ok")
          \/ /\ host[i].pc \in {"activate", "abort"}
             /\ Exit(i, "ok")
       /\ Take(i)
    \/ /\ ~Fails(i, ack)
       /\ host[i].pc = "finish" /\ Verb(i) = "update"
       /\ Send(i, StatusFrame(i), Enter(i, "status"))
       /\ Reopen(i)

ReceiveStatus(i, status) ==
    \/ /\ Verb(i) # "abort"
       /\ status.state # "Staged"
       /\ Exit(i, "NodeRejected")
       /\ Take(i)
    \/ /\ Verb(i) # "abort"
       /\ status.state = "Staged"
       /\ status.impact = "Interrupt" /\ ~Command(i).allow
       /\ Exit(i, "InterruptionRequired")
       /\ Take(i)
    \/ /\ Verb(i) # "abort"
       /\ status.state = "Staged"
       /\ status.impact = "Interrupt" => Command(i).allow
       /\ Send(i, ActivateFrame(i, status.session),
               [Enter(i, "activate") EXCEPT !.session = status.session])
       /\ Reopen(i)
    \/ /\ Verb(i) = "abort"
       /\ Send(i, AbortFrame(i, status.session),
               [Enter(i, "abort") EXCEPT !.session = status.session])
       /\ Reopen(i)

Receive(i) ==
    /\ host[i].pc \in Waiting
    /\ socket[i] # <<>>
    /\ Matches(i, Head(socket[i]))
    /\ \/ host[i].pc # "status" /\ ReceiveAck(i, Head(socket[i]).body)
       \/ host[i].pc = "status" /\ ReceiveStatus(i, Head(socket[i]).body)
    /\ UNCHANGED <<nodeVars, losses, logVars>>

HostStep(i) ==
    \/ Start(i)
    \/ SendChunk(i)
    \/ AwaitWindow(i)
    \/ Timeout(i)
    \/ Skip(i)
    \/ Receive(i)

\* The interface fails while a socket is opened, read or written: nothing is
\* sent and the process gives up.
IoError(i) ==
    /\ setup.io_fails
    /\ host[i].pc \notin Exits
    /\ Exit(i, "Transport")
    /\ UNCHANGED <<nodeVars, socket, losses, logVars>>

-----------------------------------------------------------------------------
\* The bus.

\* One frame of kind k is lost: max_losses bounds how many are, unless they
\* never run out.
Lose(k) ==
    /\ k \in setup.lossable
    /\ losses < setup.max_losses
    /\ losses' = IF setup.losses_run_out THEN losses + 1 ELSE losses

LoseRequest ==
    /\ bus # <<>>
    /\ Lose(Head(bus).op)
    /\ bus' = Tail(bus)
    /\ UNCHANGED <<nodeVars, socket, host, logVars>>

\* What a reply is lost as: data acknowledgements apart from the others.
ReplyKind(f) == IF f.id = NoRequest THEN "DataAck" ELSE f.op

LoseReply(i) ==
    /\ socket[i] # <<>>
    /\ Lose(ReplyKind(Head(socket[i])))
    /\ Take(i)
    /\ UNCHANGED <<nodeVars, bus, host, logVars>>

-----------------------------------------------------------------------------

TransferInit ==
    /\ setup \in Setups
    /\ NodeInit
    /\ bus = <<>>
    /\ socket = [i \in Invocations |-> <<>>]
    /\ host = [i \in Invocations |->
                  [pc |-> "start", attempt |-> 0, offset |-> 0, sent_until |-> 0,
                   cumulative |-> 0, session |-> 0]]
    /\ losses = 0
    /\ staged_log = {}
    /\ active_log = {}
    /\ abort_log = {}

TransferNext ==
    /\ \/ NodeReceives
       \/ \E i \in Invocations : HostStep(i)
       \/ \E i \in Invocations : IoError(i)
       \/ LoseRequest
       \/ \E i \in Invocations : LoseReply(i)
    /\ UNCHANGED setup

TransferSpec == TransferInit /\ [][TransferNext]_allVars

\* The node answers what reaches it and every pdcan process keeps running:
\* its reads are bounded by timeouts.  Losses and failures are never forced.
FairTransferSpec ==
    /\ TransferSpec
    /\ WF_allVars(NodeReceives /\ UNCHANGED setup)
    /\ \A i \in Sessions : WF_allVars(i \in Invocations /\ HostStep(i) /\ UNCHANGED setup)

-----------------------------------------------------------------------------

\* The host never counts a byte as delivered that the node serving its
\* session has not stored, however its acknowledgements were lost or delayed:
\* a window never starts past a hole.
HostNeverAhead ==
    \A i \in Invocations :
        session = i /\ state \in InProgress =>
            /\ host[i].offset <= next_offset
            /\ host[i].cumulative <= next_offset

\* A process that exits with success has done it, whatever was lost or
\* answered late and whatever other processes did to the node: the node has
\* staged its own bundle under its session; has accepted the activation of a
\* session that was staged whole; or has discarded the session it asked for.
\* Which session an update activates it takes from the node's status: it is
\* its own when no other process stages (see UpdatesActivateTheirImage).
ReportsAreTrue ==
    \A i \in Invocations : host[i].pc = "ok" =>
        LET s == host[i].session IN
        /\ Stages(i) => <<i, Bundle(i)>> \in staged_log
        /\ Activates(i) => s \in active_log /\ <<s, Bundle(s)>> \in staged_log
        /\ Verb(i) = "update" /\ (\A j \in Invocations \ {i} : ~Stages(j)) => s = i
        /\ Verb(i) = "abort" => s \in abort_log

\* What the help says of `firmware update', "Stage and then activate an
\* image": the image it activates is the one it staged.
UpdatesActivateTheirImage ==
    \A i \in Invocations :
        Verb(i) = "update" /\ host[i].pc = "ok" => i \in active_log

\* Every pdcan process exits, whatever is lost and whatever the other
\* processes do to the node in the meantime.
EveryInvocationExits ==
    <>(\A i \in Invocations : host[i].pc \in Exits)

\* What the retries are for: a process that has the node to itself, on a bus
\* that loses no more frames than it retries, and of them only those whose
\* repetition is harmless.
Recoverable ==
    /\ Invocations = {1} /\ ~setup.io_fails
    /\ setup.losses_run_out /\ setup.max_losses <= Retries
    /\ setup.lossable \subseteq {"DataAck", "Status"}

\* The transfer gets through: an update ends with success and leaves the node
\* running the bundle's version.
RecoverableUpdatesSucceed ==
    <>(Recoverable /\ Verb(1) = "update" =>
          host[1].pc = "ok" /\ firmware = Bundle(1).version)

\* A lost frame is made up for by a retransmission: a process that has the
\* node to itself is never told that the node refused.
RetransmissionHarmless ==
    \A i \in Invocations : host[i].pc # "NodeRejected"

=============================================================================
