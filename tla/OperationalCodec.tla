---------------------------- MODULE OperationalCodec ----------------------------
(***************************************************************************)
(* The encoders and decoders of the messages a commissioned node exchanges  *)
(* in normal operation (pdcan-protocol/src/lib.rs): control requests and    *)
(* their response, node and fan state, telemetry, and management.           *)
(*                                                                         *)
(* Enumerations are their wire numbers.  The order in which a decoder makes *)
(* its checks only decides which error it returns, which is left out; the   *)
(* length is always checked before the payload is indexed.                  *)
(***************************************************************************)
EXTENDS Wire

-----------------------------------------------------------------------------
(* Headers.                                                                  *)

Framed(h, len, writes) ==
    {[id |-> HeaderEncode(x), payload |-> Payload(len, writes)] :
        x \in IF len \in CanFdLengths THEN HeaderNew(h) ELSE {}}

ProtocolHeader(priority, class, node, target, opcode) ==
    [priority |-> priority, class |-> MessageClass[class], node |-> node,
     target |-> target, requester |-> PROTOCOL, opcode |-> opcode]

IsProtocolHeader_AnyOpcode(h, priority, class, opcode) ==
    h.class = MessageClass[class] /\ h.priority = priority /\ h.requester = PROTOCOL

(* The header of a frame the given unsolicited node message may have. *)
IsProtocolHeader(h, priority, class, opcode) ==
    /\ h.class = MessageClass[class]
    /\ h.opcode = opcode
    /\ h.priority = priority
    /\ h.requester = PROTOCOL

NodeMessage(f, priority, class, opcode, len) ==
    {h \in HeaderDecode(f.id) :
        /\ IsProtocolHeader(h, priority, class, opcode)
        /\ ValidNodeId(h.node)
        /\ h.target = NODE_TARGET
        /\ Length(f.payload) = len}

ScopedNodeMessage_AnyRequester(f, priority, class, opcode, len) ==
    {h \in HeaderDecode(f.id) :
        /\ h.class = MessageClass[class] /\ h.opcode = opcode /\ h.priority = priority
        /\ ValidNodeId(h.node) /\ h.target = NODE_TARGET /\ Length(f.payload) = len}

ScopedNodeMessage(f, priority, class, opcode, len) ==
    {h \in HeaderDecode(f.id) :
        /\ h.class = MessageClass[class]
        /\ h.opcode = opcode
        /\ h.priority = priority
        /\ ValidNodeId(h.node)
        /\ h.target = NODE_TARGET
        /\ HostRequester(h.requester)
        /\ Length(f.payload) = len}

-----------------------------------------------------------------------------
(* Control requests and their response.                                      *)

RequestId(m) == <<0, LittleEndian(m.request)>>

ControlWrites(m) ==
    CASE m.kind = "SET_CARRIER_POLICY" ->
            << <<8, <<Flag(m.enabled)>>>> >> \o
            IF m.limits = NONE THEN <<>>
            ELSE << <<9, <<1>>>>, <<12, LittleEndian(m.limits.voltage)>>,
                    <<16, LittleEndian(m.limits.current)>>,
                    <<20, LittleEndian(m.limits.power)>> >>
      [] m.kind = "SET_FAN" -> << <<8, <<m.duty>>>> >>
      [] m.kind = "SET_BINDING" ->
            IF m.binding = NONE THEN << <<9, <<255>>>> >>
            ELSE << <<8, <<1>>>>, <<9, <<m.binding.slot>>>>, <<12, m.binding.uid>> >>
      [] OTHER -> <<>>

ControlLength(kind) ==
    IF kind \in {"SET_CARRIER_POLICY", "SET_BINDING"} THEN 24
    ELSE IF kind = "SET_FAN" THEN 12 ELSE 8

EncodeControlRequest(m) ==
    LET emergency == m.kind = "EMERGENCY_DISABLE"
        header == [priority |-> Flag(~emergency), class |-> MessageClass.control,
                   node |-> m.node, requester |-> m.requester,
                   target |-> IF m.kind = "SET_FAN" THEN m.fan ELSE NODE_TARGET,
                   opcode |-> Opcode[m.kind]]
    IN  IF /\ HostRequester(m.requester)
           /\ ValidNodeId(m.node) \/ (emergency /\ m.node = BROADCAST_NODE)
           /\ m.kind = "SET_FAN" => ValidDuty(m.duty)
        THEN Framed(header, ControlLength(m.kind), <<RequestId(m)>> \o ControlWrites(m))
        ELSE {}

StandardControl_AnyNode(h) == h.priority = 1 /\ h.target = NODE_TARGET

StandardControl(h) == h.priority = 1 /\ ValidNodeId(h.node) /\ h.target = NODE_TARGET

(* The optional binding at bytes flag and flag + 1 with its UID at uid. *)
DecodeBindingAt(p, flag, uid) ==
    IF p[flag] = 0
    THEN When(p[flag + 1] = 255 /\ Zero(p, uid, uid + 12), NONE)
    ELSE When(p[flag + 1] \in Slot, [slot |-> p[flag + 1], uid |-> ReadUid(p, uid)])

DecodeLimits_Leftover(p) ==
    IF p[9] = 0 THEN {NONE}
    ELSE {[voltage |-> ReadLe(p, 12, 4), current |-> ReadLe(p, 16, 4),
           power |-> ReadLe(p, 20, 4)]}

DecodeLimits(p) ==
    IF p[9] = 0 THEN When(Zero(p, 12, 24), NONE)
    ELSE {[voltage |-> ReadLe(p, 12, 4), current |-> ReadLe(p, 16, 4),
           power |-> ReadLe(p, 20, 4)]}

(* The command of a request whose opcode is that of kind: its arguments. *)
DecodeCommand(kind, h, p) ==
    CASE kind = "EMERGENCY_DISABLE" ->
            When(/\ h.priority = 0
                 /\ h.target = NODE_TARGET
                 /\ Length(p) = 8
                 /\ h.node = BROADCAST_NODE \/ ValidNodeId(h.node), <<>>)
      [] kind \in {"ACKNOWLEDGE_EMERGENCY", "REQUEST_STATUS"} ->
            When(StandardControl(h) /\ Length(p) = 8, <<>>)
      [] kind = "SET_CARRIER_POLICY" ->
            {[enabled |-> p[8] = 1, limits |-> limits] : limits \in
                IF StandardControl(h) /\ Length(p) = 24 /\ Bool(p[8]) /\ Bool(p[9])
                                      /\ Zero(p, 10, 12)
                THEN DecodeLimits(p) ELSE {}}
      [] kind = "SET_FAN" ->
            When(/\ h.priority = 1
                 /\ ValidNodeId(h.node)
                 /\ Length(p) = 12
                 /\ Zero(p, 9, 12)
                 /\ h.target \in FanId
                 /\ ValidDuty(p[8]), [fan |-> h.target, duty |-> p[8]])
      [] kind = "SET_BINDING" ->
            {[binding |-> binding] : binding \in
                IF StandardControl(h) /\ Length(p) = 24 /\ Bool(p[8]) /\ Zero(p, 10, 12)
                THEN DecodeBindingAt(p, 8, 12) ELSE {}}

ControlKinds == {"EMERGENCY_DISABLE", "SET_CARRIER_POLICY", "ACKNOWLEDGE_EMERGENCY",
                 "REQUEST_STATUS", "SET_FAN", "SET_BINDING"}

DecodeControlRequest(f) ==
    LET Request(h, kind) ==
            {Join([kind |-> kind, node |-> h.node, requester |-> h.requester,
                   request |-> ReadLe(f.payload, 0, 8)], args) :
                args \in DecodeCommand(kind, h, f.payload)}
    IN  UNION {UNION {Request(h, kind) : kind \in {k \in ControlKinds : Opcode[k] = h.opcode}} :
               h \in {h \in HeaderDecode(f.id) :
                        /\ h.class = MessageClass.control
                        /\ HostRequester(h.requester)
                        /\ Length(f.payload) >= 8}}

EncodeCommandResponse(m) ==
    IF ValidNodeId(m.node) /\ HostRequester(m.requester)
    THEN Framed([priority |-> 2, class |-> MessageClass.response, node |-> m.node,
                 target |-> NODE_TARGET, requester |-> m.requester,
                 opcode |-> Opcode.COMMAND_RESPONSE], 16,
                <<RequestId(m), <<8, <<m.opcode>>>>, <<9, <<m.target>>>>,
                  <<10, <<m.result>>>>, <<12, LittleEndian(m.detail)>>>>)
    ELSE {}

DecodeCommandResponse(f) ==
    LET p == f.payload IN
    {[kind |-> "COMMAND_RESPONSE", node |-> h.node, requester |-> h.requester,
      request |-> ReadLe(p, 0, 8), opcode |-> p[8], target |-> p[9],
      result |-> p[10], detail |-> ReadLe(p, 12, 4)] :
        h \in {h \in ScopedNodeMessage(f, 2, "response", Opcode.COMMAND_RESPONSE, 16) :
                p[11] = 0 /\ p[10] \in CommandResult}}

-----------------------------------------------------------------------------
(* Unsolicited state, telemetry and management messages.                     *)

Bit(byte, k) == (byte \div 2 ^ k) % 2 = 1

EncodeNodeState(m) ==
    IF ValidNodeId(m.node)
    THEN Framed(ProtocolHeader(3, "state", m.node, NODE_TARGET, Opcode.NODE_STATE), 16,
                <<<<0, LittleEndian(m.sequence)>>, <<2, <<m.service>>>>,
                  <<3, <<Flag(m.output) + 2 * Flag(m.good) + 4 * Flag(m.emergency)>>>>,
                  <<4, LittleEndian(m.faults)>>, <<8, LittleEndian(m.uptime)>>>>)
    ELSE {}

DecodeNodeState(f) ==
    LET p == f.payload IN
    {[kind |-> "NODE_STATE", node |-> h.node, sequence |-> ReadLe(p, 0, 2),
      service |-> p[2], output |-> Bit(p[3], 0), good |-> Bit(p[3], 1),
      emergency |-> Bit(p[3], 2), faults |-> ReadLe(p, 4, 4), uptime |-> ReadLe(p, 8, 4)] :
        h \in {h \in NodeMessage(f, 3, "state", Opcode.NODE_STATE, 16) :
                Zero(p, 12, 16) /\ p[3] < 8 /\ p[2] \in ServiceState}}

EncodeFanState(m) ==
    IF ValidNodeId(m.node) /\ ValidDuty(m.duty)
    THEN Framed(ProtocolHeader(3, "state", m.node, m.fan, Opcode.FAN_STATE), 12,
                <<<<0, LittleEndian(m.sequence)>>, <<2, <<m.duty>>>>,
                  <<3, <<Flag(m.stalled)>>>>, <<4, LittleEndian(m.rpm)>>>>)
    ELSE {}

DecodeFanState(f) ==
    LET p == f.payload IN
    {[kind |-> "FAN_STATE", node |-> h.node, fan |-> h.target, duty |-> p[2],
      sequence |-> ReadLe(p, 0, 2), rpm |-> ReadLe(p, 4, 2), stalled |-> p[3] # 0] :
        h \in {h \in HeaderDecode(f.id) :
                /\ IsProtocolHeader(h, 3, "state", Opcode.FAN_STATE)
                /\ ValidNodeId(h.node)
                /\ Length(p) = 12
                /\ Bool(p[3])
                /\ Zero(p, 6, 12)
                /\ h.target \in FanId
                /\ ValidDuty(p[2])}}

EncodePower(m) ==
    IF ValidNodeId(m.node)
    THEN Framed(ProtocolHeader(4, "telemetry", m.node, NODE_TARGET, Opcode.POWER), 16,
                <<<<0, LittleEndian(m.sequence)>>, <<2, <<m.source>>>>,
                  <<4, LittleEndian(m.voltage)>>, <<8, LittleEndian(m.current)>>,
                  <<12, LittleEndian(m.power)>>>>)
    ELSE {}

DecodePower(f) ==
    LET p == f.payload IN
    {[kind |-> "POWER", node |-> h.node, source |-> p[2], sequence |-> ReadLe(p, 0, 2),
      voltage |-> ReadLe(p, 4, 4), current |-> ReadLe(p, 8, 4), power |-> ReadLe(p, 12, 4)] :
        h \in {h \in NodeMessage(f, 4, "telemetry", Opcode.POWER, 16) :
                p[3] = 0 /\ p[2] \in PowerSource}}

EncodeTemperature(m) ==
    IF ValidNodeId(m.node) /\ ValidReading(m)
    THEN Framed(ProtocolHeader(4, "telemetry", m.node, NODE_TARGET, Opcode.TEMPERATURE), 16,
                <<<<0, LittleEndian(m.sequence)>>, <<2, <<m.source>>>>, <<3, <<m.status>>>>,
                  <<8, LittleEndian(m.identifier)>>>>
                \o IF m.centi = NONE THEN <<>> ELSE <<<<4, LittleEndian(m.centi)>>>>)
    ELSE {}

TemperatureReading(h, p) ==
    [kind |-> "TEMPERATURE", node |-> h.node, sequence |-> ReadLe(p, 0, 2),
     source |-> p[2], status |-> p[3], identifier |-> ReadLe(p, 8, 8),
     centi |-> IF p[3] \in MEASURED THEN ReadLe(p, 4, 2) ELSE NONE]

DecodeTemperature(f) ==
    LET p == f.payload IN
    {TemperatureReading(h, p) :
        h \in {h \in NodeMessage(f, 4, "telemetry", Opcode.TEMPERATURE, 16) :
                /\ Zero(p, 6, 8)
                /\ p[3] \in UNMEASURED => Zero(p, 4, 6)
                /\ ValidReading(TemperatureReading(h, p))}}

InfoWrites_Overlap(d, o) ==
    <<<<o, <<d.role>>>>, <<o + 1, <<ProfileByte(d.profile)>>>>, <<o + 2, <<d.revision>>>>,
      <<o + 3, <<d.impact>>>>, <<o + 4, LittleEndian(d.caps)>>, <<o + 12, <<d.outputs>>>>,
      <<o + 13, <<d.fans>>>>, <<o + 14, <<d.sensors>>>>, <<o + 15, <<d.layout>>>>,
      <<o + 16, Version(d.firmware)>>, <<o + 21, Version(d.bootloader)>>>>

(* The 32 bytes NODE_INFO and DISCOVERY_RESPONSE share. *)
InfoWrites(d, o) ==
    <<<<o, <<d.role>>>>, <<o + 1, <<ProfileByte(d.profile)>>>>, <<o + 2, <<d.revision>>>>,
      <<o + 3, <<d.impact>>>>, <<o + 4, LittleEndian(d.caps)>>, <<o + 12, <<d.outputs>>>>,
      <<o + 13, <<d.fans>>>>, <<o + 14, <<d.sensors>>>>, <<o + 15, <<d.layout>>>>,
      <<o + 16, Version(d.firmware)>>, <<o + 22, Version(d.bootloader)>>>>

DecodeInfo(p, o) ==
    LET d == [role |-> p[o], profile |-> OptionalProfile(p[o + 1]), revision |-> p[o + 2],
              impact |-> p[o + 3], caps |-> ReadLe(p, o + 4, 8), outputs |-> p[o + 12],
              fans |-> p[o + 13], sensors |-> p[o + 14], layout |-> p[o + 15],
              firmware |-> ReadVersion(p, o + 16), bootloader |-> ReadVersion(p, o + 22)]
    IN  When(/\ Zero(p, o + 28, o + 32)
             /\ d.revision \in HardwareRevision
             /\ d.impact \in UpdateImpact
             /\ ValidDescriptor(d), d)

EncodeNodeInfo(m) ==
    IF ValidNodeId(m.node) /\ ValidDescriptor(m.info)
    THEN Framed(ProtocolHeader(5, "management", m.node, NODE_TARGET, Opcode.NODE_INFO), 32,
                InfoWrites(m.info, 0))
    ELSE {}

DecodeNodeInfo(f) ==
    UNION {{[kind |-> "NODE_INFO", node |-> h.node, info |-> d] : d \in DecodeInfo(f.payload, 0)} :
           h \in NodeMessage(f, 5, "management", Opcode.NODE_INFO, 32)}

EncodeHeartbeat(m) ==
    IF ValidNodeId(m.node)
    THEN Framed(ProtocolHeader(5, "management", m.node, NODE_TARGET, Opcode.HEARTBEAT), 16,
                <<<<0, LittleEndian(m.sequence)>>, <<2, <<m.service>>>>, <<3, <<m.update>>>>,
                  <<4, LittleEndian(m.faults)>>, <<8, LittleEndian(m.uptime)>>>>)
    ELSE {}

DecodeHeartbeat(f) ==
    LET p == f.payload IN
    {[kind |-> "HEARTBEAT", node |-> h.node, sequence |-> ReadLe(p, 0, 2), service |-> p[2],
      update |-> p[3], faults |-> ReadLe(p, 4, 4), uptime |-> ReadLe(p, 8, 4)] :
        h \in {h \in NodeMessage(f, 5, "management", Opcode.HEARTBEAT, 16) :
                Zero(p, 12, 16) /\ p[2] \in ServiceState /\ p[3] \in UpdateState}}

EncodeBinding(m) ==
    IF ValidNodeId(m.node)
    THEN Framed(ProtocolHeader(5, "management", m.node, NODE_TARGET, Opcode.BINDING), 16,
                IF m.binding = NONE THEN <<<<1, <<255>>>>>>
                ELSE <<<<0, <<1>>>>, <<1, <<m.binding.slot>>>>, <<4, m.binding.uid>>>>)
    ELSE {}

DecodeBinding(f) ==
    LET p == f.payload IN
    UNION {{[kind |-> "BINDING", node |-> h.node, binding |-> b] : b \in DecodeBindingAt(p, 0, 4)} :
           h \in {h \in NodeMessage(f, 5, "management", Opcode.BINDING, 16) :
                   Bool(p[0]) /\ Zero(p, 2, 4)}}
=============================================================================
