---------------------------- MODULE MessageTypes ----------------------------
(***************************************************************************)
(* The values the codecs carry: what the types of pdcan-types and of        *)
(* pdcan-protocol let a message be.  A field of the Rust type u8 is any     *)
(* byte, also where an encoder goes on to refuse some of them.              *)
(***************************************************************************)
EXTENDS ServiceCodec

Byte == 0 .. 255

(* The digits of an n-byte integer, or n bytes. *)
Word(n) == [1 .. n -> Byte]

Option(T) == T \cup {NONE}

NodeId      == 1 .. 254
RequesterId == 0 .. 15
NodeUid     == Word(12)
RequestIds  == Word(8)
Sha256      == Word(32)

FirmwareVersion == [major : Word(2), minor : Word(2), patch : Word(2)]

CarrierBinding == [slot : Slot, uid : NodeUid]

PdLimits == [voltage : Word(4), current : Word(4), power : Word(4)]

(* A node descriptor with the versions of a NodeInfo. *)
NodeDescriptor ==
    [role : {BACKPLANE, CARRIER}, profile : Option(1 .. 4), revision : HardwareRevision,
     impact : UpdateImpact, caps : Word(8), outputs : Byte, fans : Byte, sensors : Byte,
     layout : Byte, firmware : FirmwareVersion, bootloader : FirmwareVersion]

PlainCommand ==
    [kind : {"EMERGENCY_DISABLE", "ACKNOWLEDGE_EMERGENCY", "REQUEST_STATUS"},
     node : Byte, requester : RequesterId, request : RequestIds]

SetCarrierPolicy ==
    [kind : {"SET_CARRIER_POLICY"}, node : Byte, requester : RequesterId,
     request : RequestIds, enabled : BOOLEAN, limits : Option(PdLimits)]

SetFan ==
    [kind : {"SET_FAN"}, node : Byte, requester : RequesterId, request : RequestIds,
     fan : FanId, duty : Byte]

SetBinding ==
    [kind : {"SET_BINDING"}, node : Byte, requester : RequesterId, request : RequestIds,
     binding : Option(CarrierBinding)]

ControlRequest == PlainCommand \cup SetCarrierPolicy \cup SetFan \cup SetBinding

CommandResponse ==
    [kind : {"COMMAND_RESPONSE"}, node : Byte, requester : RequesterId, request : RequestIds,
     opcode : Byte, target : Byte, result : CommandResult, detail : Word(4)]

NodeState ==
    [kind : {"NODE_STATE"}, node : Byte, sequence : Word(2), service : ServiceState,
     output : BOOLEAN, good : BOOLEAN, emergency : BOOLEAN, faults : Word(4), uptime : Word(4)]

FanState ==
    [kind : {"FAN_STATE"}, node : Byte, fan : FanId, duty : Byte, sequence : Word(2),
     rpm : Word(2), stalled : BOOLEAN]

PowerTelemetry ==
    [kind : {"POWER"}, node : Byte, source : PowerSource, sequence : Word(2),
     voltage : Word(4), current : Word(4), power : Word(4)]

TemperatureTelemetry ==
    [kind : {"TEMPERATURE"}, node : Byte, sequence : Word(2),
     source : DIE_SENSORS \cup {ONE_WIRE}, status : MEASURED \cup UNMEASURED,
     identifier : Word(8), centi : Option(Word(2))]

NodeInfo == [kind : {"NODE_INFO"}, node : Byte, info : NodeDescriptor]

Heartbeat ==
    [kind : {"HEARTBEAT"}, node : Byte, sequence : Word(2), service : ServiceState,
     update : UpdateState, faults : Word(4), uptime : Word(4)]

BindingInfo == [kind : {"BINDING"}, node : Byte, binding : Option(CarrierBinding)]

NodeClaim ==
    [kind : {"NODE_CLAIM"}, requester : RequesterId, uid : NodeUid, node : NodeId,
     state : CommissioningState, nonce : Word(2)]

Discover == [kind : {"DISCOVER"}, requester : RequesterId, nonce : Word(8)]

(* The NodeInfo in a DiscoveryInfo is of the same node: the encoder refuses another. *)
DiscoveryResponse ==
    [kind : {"DISCOVERY_RESPONSE"}, requester : RequesterId, uid : NodeUid,
     node : Option(NodeId), state : CommissioningState, major : Byte, minor : Byte,
     nonce : Word(8), info : NodeDescriptor]

Identify ==
    [kind : {"IDENTIFY"}, requester : RequesterId, request : RequestIds, uid : NodeUid,
     seconds : Word(2)]

AssignNode ==
    [kind : {"ASSIGN_NODE"}, requester : RequesterId, request : RequestIds, uid : NodeUid,
     node : NodeId]

ClearNode ==
    [kind : {"CLEAR_NODE"}, requester : RequesterId, request : RequestIds, uid : NodeUid]

CommissioningResult ==
    [kind : {"COMMISSIONING_RESULT"}, requester : RequesterId, request : RequestIds,
     uid : NodeUid, opcode : Byte, result : CommandResult, node : Option(NodeId),
     state : CommissioningState]

CommissioningMessage ==
    NodeClaim \cup Discover \cup DiscoveryResponse \cup Identify \cup AssignNode
        \cup ClearNode \cup CommissioningResult

Begin ==
    [kind : {"FW_BEGIN"}, node : NodeId, requester : RequesterId, request : RequestIds,
     session : Word(4), size : Word(4), role : {BACKPLANE, CARRIER},
     profile : Option(1 .. 4), revision : HardwareRevision, layout : Byte,
     version : FirmwareVersion, digest : Sha256]

Data ==
    [kind : {"FW_DATA"}, node : NodeId, requester : RequesterId, session : Word(4),
     offset : Word(4), len : Byte, bytes : Word(FIRMWARE_CHUNK_BYTES)]

FinishOrAbort ==
    [kind : {"FW_FINISH", "FW_ABORT"}, node : NodeId, requester : RequesterId,
     request : RequestIds, session : Word(4)]

Activate ==
    [kind : {"FW_ACTIVATE"}, node : NodeId, requester : RequesterId, request : RequestIds,
     session : Word(4), interrupt : BOOLEAN]

StatusRequest ==
    [kind : {"FW_STATUS"}, node : NodeId, requester : RequesterId, request : RequestIds]

FirmwareRequest == Begin \cup Data \cup FinishOrAbort \cup Activate \cup StatusRequest

FirmwareAck ==
    [kind : {"FW_ACK"}, node : Byte, requester : RequesterId, request : RequestIds,
     session : Word(4), next : Word(4), state : UpdateState, error : UpdateError,
     window : Byte, detail : Word(4)]

FirmwareStatus ==
    [kind : {"FW_STATUS_RESPONSE"}, node : Byte, requester : RequesterId,
     request : RequestIds, state : UpdateState, error : UpdateError, impact : UpdateImpact,
     running : FirmwareVersion, staged : Option(FirmwareVersion), session : Word(4),
     next : Word(4), digest : Sha256]

Message ==
    ControlRequest \cup CommandResponse \cup NodeState \cup FanState \cup PowerTelemetry
        \cup TemperatureTelemetry \cup NodeInfo \cup Heartbeat \cup BindingInfo
        \cup CommissioningMessage \cup FirmwareRequest \cup FirmwareAck \cup FirmwareStatus

(* An absent option is none of the values an option may hold. *)
ASSUME NoneAssumption ==
    /\ NONE \notin Byte
    /\ NONE \notin Word(2)
    /\ NONE \notin FirmwareVersion
    /\ NONE \notin CarrierBinding
    /\ NONE \notin PdLimits
=============================================================================
