----------------------------- MODULE Codec_proofs -----------------------------
(***************************************************************************)
(* Proofs about the codecs, for every frame and every message.             *)
(*                                                                         *)
(* One meaning: each of the thirteen decoders accepts frames of classes    *)
(* and opcodes that no other one accepts (Apart), and reads a frame in one *)
(* way only.  What a decoder checks is what MESSAGE_DEFINITIONS says.      *)
(*                                                                         *)
(* Round trip: the writes of an encoder lie one after another (Laid), so a *)
(* payload is the one they make exactly when it shows each of them and     *)
(* zeros between (Shows), and an identifier is the one a header makes      *)
(* exactly when its fields are the header's (Marked).  For each message    *)
(* this is, word for word, what its decoder checks and reads (the lemmas   *)
(* ending in Layout and Trip).  Encoders make one legal frame or none (the *)
(* lemmas ending in Sent), and what is not changed stays that frame.       *)
(***************************************************************************)
EXTENDS Codec, FiniteSetTheorems, SequenceTheorems, WellFoundedInduction, TLAPS

-----------------------------------------------------------------------------
(* The tables, entry by entry. *)

Row(class, priority, target, len, scoped) ==
    [class |-> class, priority |-> priority, target |-> target, len |-> len, scoped |-> scoped]

LEMMA Opcodes ==
    /\ Opcode["EMERGENCY_DISABLE"] = 0
    /\ Opcode["SET_CARRIER_POLICY"] = 1
    /\ Opcode["ACKNOWLEDGE_EMERGENCY"] = 2
    /\ Opcode["REQUEST_STATUS"] = 3
    /\ Opcode["SET_FAN"] = 4
    /\ Opcode["SET_BINDING"] = 5
    /\ Opcode["COMMAND_RESPONSE"] = 0
    /\ Opcode["NODE_STATE"] = 0
    /\ Opcode["FAN_STATE"] = 1
    /\ Opcode["POWER"] = 0
    /\ Opcode["TEMPERATURE"] = 1
    /\ Opcode["HEARTBEAT"] = 0
    /\ Opcode["NODE_INFO"] = 1
    /\ Opcode["BINDING"] = 2
    /\ Opcode["FW_BEGIN"] = 0
    /\ Opcode["FW_DATA"] = 1
    /\ Opcode["FW_FINISH"] = 2
    /\ Opcode["FW_ACTIVATE"] = 3
    /\ Opcode["FW_ABORT"] = 4
    /\ Opcode["FW_STATUS"] = 5
    /\ Opcode["FW_ACK"] = 6
    /\ Opcode["FW_STATUS_RESPONSE"] = 7
    /\ Opcode["NODE_CLAIM"] = 0
    /\ Opcode["DISCOVER"] = 1
    /\ Opcode["DISCOVERY_RESPONSE"] = 2
    /\ Opcode["IDENTIFY"] = 3
    /\ Opcode["ASSIGN_NODE"] = 4
    /\ Opcode["CLEAR_NODE"] = 5
    /\ Opcode["COMMISSIONING_RESULT"] = 6
BY DEF Opcode

LEMMA MessageClasses ==
    /\ MessageClass["control"] = 0
    /\ MessageClass["response"] = 1
    /\ MessageClass["state"] = 2
    /\ MessageClass["telemetry"] = 3
    /\ MessageClass["management"] = 4
    /\ MessageClass["configuration"] = 5
    /\ MessageClass["firmware"] = 6
    /\ MessageClass["commissioning"] = 14
    /\ MessageClass["debug"] = 15
BY DEF MessageClass

LEMMA Rows ==
    /\ Registry["EMERGENCY_DISABLE"] = Row(0, 0, "node", 8, TRUE)
    /\ Registry["SET_CARRIER_POLICY"] = Row(0, 1, "node", 24, TRUE)
    /\ Registry["ACKNOWLEDGE_EMERGENCY"] = Row(0, 1, "node", 8, TRUE)
    /\ Registry["REQUEST_STATUS"] = Row(0, 1, "node", 8, TRUE)
    /\ Registry["SET_FAN"] = Row(0, 1, "fan", 12, TRUE)
    /\ Registry["SET_BINDING"] = Row(0, 1, "node", 24, TRUE)
    /\ Registry["COMMAND_RESPONSE"] = Row(1, 2, "node", 16, TRUE)
    /\ Registry["NODE_STATE"] = Row(2, 3, "node", 16, FALSE)
    /\ Registry["FAN_STATE"] = Row(2, 3, "fan", 12, FALSE)
    /\ Registry["POWER"] = Row(3, 4, "node", 16, FALSE)
    /\ Registry["TEMPERATURE"] = Row(3, 4, "node", 16, FALSE)
    /\ Registry["HEARTBEAT"] = Row(4, 5, "node", 16, FALSE)
    /\ Registry["NODE_INFO"] = Row(4, 5, "node", 32, FALSE)
    /\ Registry["BINDING"] = Row(4, 5, "node", 16, FALSE)
    /\ Registry["FW_BEGIN"] = Row(6, 5, "node", 64, TRUE)
    /\ Registry["FW_DATA"] = Row(6, 5, "node", 64, TRUE)
    /\ Registry["FW_FINISH"] = Row(6, 5, "node", 16, TRUE)
    /\ Registry["FW_ACTIVATE"] = Row(6, 5, "node", 16, TRUE)
    /\ Registry["FW_ABORT"] = Row(6, 5, "node", 16, TRUE)
    /\ Registry["FW_STATUS"] = Row(6, 5, "node", 8, TRUE)
    /\ Registry["FW_ACK"] = Row(6, 5, "node", 24, TRUE)
    /\ Registry["FW_STATUS_RESPONSE"] = Row(6, 5, "node", 64, TRUE)
    /\ Registry["NODE_CLAIM"] = Row(14, 6, "token", 16, FALSE)
    /\ Registry["DISCOVER"] = Row(14, 6, "token", 8, TRUE)
    /\ Registry["DISCOVERY_RESPONSE"] = Row(14, 6, "token", 64, TRUE)
    /\ Registry["IDENTIFY"] = Row(14, 6, "token", 24, TRUE)
    /\ Registry["ASSIGN_NODE"] = Row(14, 6, "token", 24, TRUE)
    /\ Registry["CLEAR_NODE"] = Row(14, 6, "token", 20, TRUE)
    /\ Registry["COMMISSIONING_RESULT"] = Row(14, 6, "token", 24, TRUE)
BY MessageClasses, SMTT(30) DEF Row, Registry

-----------------------------------------------------------------------------
(* The identifier of a frame. *)

Header(id) ==
    [f \in {"priority", "class", "node", "target", "requester", "opcode"} |-> Bits(id, f)]

LEMMA Decoding ==
    ASSUME NEW id, NEW h \in HeaderDecode(id)
    PROVE  /\ h = Header(id)
           /\ h.priority = Bits(id, "priority") /\ h.class = Bits(id, "class")
           /\ h.node = Bits(id, "node") /\ h.target = Bits(id, "target")
           /\ h.requester = Bits(id, "requester") /\ h.opcode = Bits(id, "opcode")
<1>1. h = Header(id)
  BY DEF HeaderDecode, HeaderNew, When, Header
<1> QED BY <1>1 DEF Header

(* A frame as its row of the registry has it.  Only an emergency has priority 0,
   and only an emergency is addressed to all nodes. *)
Described(f, kind) ==
    /\ Describes(Registry[kind], kind, f)
    /\ kind # "EMERGENCY_DISABLE" =>
          /\ Registry[kind].priority \in 1 .. 6
          /\ Registry[kind].target # "token" => Bits(f.id, "node") # BROADCAST_NODE

(* The decoder whose frames have this class and opcode. *)
Owner(class, opcode) ==
    IF class = 0 THEN 1
    ELSE IF class = 1 THEN 2
    ELSE IF class = 2 THEN IF opcode = 0 THEN 3 ELSE 4
    ELSE IF class = 3 THEN IF opcode = 0 THEN 5 ELSE 6
    ELSE IF class = 4 THEN IF opcode = 1 THEN 7 ELSE IF opcode = 0 THEN 8 ELSE 9
    ELSE IF class = 14 THEN 10
    ELSE IF opcode \in 0 .. 5 THEN 11 ELSE IF opcode = 6 THEN 12 ELSE 13

Single(S) == \A x, y \in S : x = y

(* What is to be shown of the decoder with number n, which makes S of a frame. *)
Apart(f, S, n) ==
    /\ Single(S)
    /\ \A m \in S : /\ Described(f, m.kind)
                    /\ Owner(Bits(f.id, "class"), Bits(f.id, "opcode")) = n

LEMMA NodeHeaders ==
    ASSUME NEW f, NEW priority, NEW class, NEW opcode, NEW len
    PROVE  /\ Single(NodeMessage(f, priority, class, opcode, len))
           /\ Single(ScopedNodeMessage(f, priority, class, opcode, len))
BY Decoding DEF NodeMessage, ScopedNodeMessage, Single

LEMMA NodeFrames ==
    ASSUME NEW f, NEW priority, NEW class, NEW opcode, NEW len,
           NEW h \in NodeMessage(f, priority, class, opcode, len)
    PROVE  /\ Bits(f.id, "class") = MessageClass[class] /\ Bits(f.id, "opcode") = opcode
           /\ Bits(f.id, "priority") = priority /\ Bits(f.id, "requester") = PROTOCOL
           /\ ValidNodeId(Bits(f.id, "node")) /\ Bits(f.id, "target") = NODE_TARGET
           /\ Length(f.payload) = len
<1>1. /\ h \in HeaderDecode(f.id) /\ IsProtocolHeader(h, priority, class, opcode)
      /\ ValidNodeId(h.node) /\ h.target = NODE_TARGET /\ Length(f.payload) = len
  BY DEF NodeMessage
<1> QED BY <1>1, Decoding DEF IsProtocolHeader

LEMMA ScopedFrames ==
    ASSUME NEW f, NEW priority, NEW class, NEW opcode, NEW len,
           NEW h \in ScopedNodeMessage(f, priority, class, opcode, len)
    PROVE  /\ Bits(f.id, "class") = MessageClass[class] /\ Bits(f.id, "opcode") = opcode
           /\ Bits(f.id, "priority") = priority /\ Bits(f.id, "requester") # PROTOCOL
           /\ ValidNodeId(Bits(f.id, "node")) /\ Bits(f.id, "target") = NODE_TARGET
           /\ Length(f.payload) = len
<1>1. /\ h \in HeaderDecode(f.id) /\ h.class = MessageClass[class] /\ h.opcode = opcode
      /\ h.priority = priority /\ HostRequester(h.requester)
      /\ ValidNodeId(h.node) /\ h.target = NODE_TARGET /\ Length(f.payload) = len
  BY DEF ScopedNodeMessage
<1> QED BY <1>1, Decoding DEF HostRequester

-----------------------------------------------------------------------------
(* The decoders of unsolicited messages and of answers. *)

LEMMA PartsAreSingle ==
    ASSUME NEW p, NEW a, NEW b
    PROVE  /\ Single(DecodeInfo(p, a)) /\ Single(DecodeBindingAt(p, a, b))
           /\ Single(DecodeLimits(p))
BY DEF DecodeInfo, DecodeBindingAt, DecodeLimits, When, Single

LEMMA NodeStates == ASSUME NEW f PROVE Apart(f, DecodeNodeState(f), 3)
<1> DEFINE H == NodeMessage(f, 3, "state", Opcode["NODE_STATE"], 16)
<1>1. Single(DecodeNodeState(f))
  <2>1. Single(H)
    BY NodeHeaders
  <2> QED BY <2>1 DEF DecodeNodeState, Single
<1>2. ASSUME NEW m \in DecodeNodeState(f)
      PROVE  /\ Described(f, m.kind)
             /\ Owner(Bits(f.id, "class"), Bits(f.id, "opcode")) = 3
  <2>1. PICK h \in H : m.kind = "NODE_STATE"
    BY DEF DecodeNodeState
  <2>2. Registry["NODE_STATE"] = Row(MessageClass["state"], 3, "node", 16, FALSE)
    BY Rows, MessageClasses
  <2>3. /\ Bits(f.id, "class") = MessageClass["state"] /\ Bits(f.id,
               "opcode") = Opcode["NODE_STATE"]
        /\ Described(f, "NODE_STATE")
    BY <2>1, <2>2, NodeFrames DEF Described, Describes, Row, ValidNodeId, BROADCAST_NODE
  <2> QED BY <2>1, <2>3, MessageClasses, Opcodes DEF Owner
<1> QED BY <1>1, <1>2 DEF Apart

LEMMA Powers == ASSUME NEW f PROVE Apart(f, DecodePower(f), 5)
<1> DEFINE H == NodeMessage(f, 4, "telemetry", Opcode["POWER"], 16)
<1>1. Single(DecodePower(f))
  <2>1. Single(H)
    BY NodeHeaders
  <2> QED BY <2>1 DEF DecodePower, Single
<1>2. ASSUME NEW m \in DecodePower(f)
      PROVE  /\ Described(f, m.kind)
             /\ Owner(Bits(f.id, "class"), Bits(f.id, "opcode")) = 5
  <2>1. PICK h \in H : m.kind = "POWER"
    BY DEF DecodePower
  <2>2. Registry["POWER"] = Row(MessageClass["telemetry"], 4, "node", 16, FALSE)
    BY Rows, MessageClasses
  <2>3. /\ Bits(f.id, "class") = MessageClass["telemetry"] /\ Bits(f.id, "opcode") = Opcode["POWER"]
        /\ Described(f, "POWER")
    BY <2>1, <2>2, NodeFrames DEF Described, Describes, Row, ValidNodeId, BROADCAST_NODE
  <2> QED BY <2>1, <2>3, MessageClasses, Opcodes DEF Owner
<1> QED BY <1>1, <1>2 DEF Apart

LEMMA Temperatures == ASSUME NEW f PROVE Apart(f, DecodeTemperature(f), 6)
<1> DEFINE H == NodeMessage(f, 4, "telemetry", Opcode["TEMPERATURE"], 16)
<1>1. Single(DecodeTemperature(f))
  <2>1. Single(H)
    BY NodeHeaders
  <2> QED BY <2>1 DEF DecodeTemperature, Single
<1>2. ASSUME NEW m \in DecodeTemperature(f)
      PROVE  /\ Described(f, m.kind)
             /\ Owner(Bits(f.id, "class"), Bits(f.id, "opcode")) = 6
  <2>1. PICK h \in H : m.kind = "TEMPERATURE"
    <3>1. PICK h \in H : m = TemperatureReading(h, f.payload)
      BY DEF DecodeTemperature
    <3> QED BY <3>1 DEF TemperatureReading
  <2>2. Registry["TEMPERATURE"] = Row(MessageClass["telemetry"], 4, "node", 16, FALSE)
    BY Rows, MessageClasses
  <2>3. /\ Bits(f.id, "class") = MessageClass["telemetry"] /\ Bits(f.id,
               "opcode") = Opcode["TEMPERATURE"]
        /\ Described(f, "TEMPERATURE")
    BY <2>1, <2>2, NodeFrames DEF Described, Describes, Row, ValidNodeId, BROADCAST_NODE
  <2> QED BY <2>1, <2>3, MessageClasses, Opcodes DEF Owner
<1> QED BY <1>1, <1>2 DEF Apart

LEMMA NodeInfos == ASSUME NEW f PROVE Apart(f, DecodeNodeInfo(f), 7)
<1> DEFINE H == NodeMessage(f, 5, "management", Opcode["NODE_INFO"], 32)
<1>1. Single(DecodeNodeInfo(f))
  <2>1. Single(H) /\ Single(DecodeInfo(f.payload, 0))
    BY NodeHeaders, PartsAreSingle
  <2> QED BY <2>1 DEF DecodeNodeInfo, Single
<1>2. ASSUME NEW m \in DecodeNodeInfo(f)
      PROVE  /\ Described(f, m.kind)
             /\ Owner(Bits(f.id, "class"), Bits(f.id, "opcode")) = 7
  <2>1. PICK h \in H : m.kind = "NODE_INFO"
    BY DEF DecodeNodeInfo
  <2>2. Registry["NODE_INFO"] = Row(MessageClass["management"], 5, "node", 32, FALSE)
    BY Rows, MessageClasses
  <2>3. /\ Bits(f.id, "class") = MessageClass["management"] /\ Bits(f.id,
               "opcode") = Opcode["NODE_INFO"]
        /\ Described(f, "NODE_INFO")
    BY <2>1, <2>2, NodeFrames DEF Described, Describes, Row, ValidNodeId, BROADCAST_NODE
  <2> QED BY <2>1, <2>3, MessageClasses, Opcodes DEF Owner
<1> QED BY <1>1, <1>2 DEF Apart

LEMMA Heartbeats == ASSUME NEW f PROVE Apart(f, DecodeHeartbeat(f), 8)
<1> DEFINE H == NodeMessage(f, 5, "management", Opcode["HEARTBEAT"], 16)
<1>1. Single(DecodeHeartbeat(f))
  <2>1. Single(H)
    BY NodeHeaders
  <2> QED BY <2>1 DEF DecodeHeartbeat, Single
<1>2. ASSUME NEW m \in DecodeHeartbeat(f)
      PROVE  /\ Described(f, m.kind)
             /\ Owner(Bits(f.id, "class"), Bits(f.id, "opcode")) = 8
  <2>1. PICK h \in H : m.kind = "HEARTBEAT"
    BY DEF DecodeHeartbeat
  <2>2. Registry["HEARTBEAT"] = Row(MessageClass["management"], 5, "node", 16, FALSE)
    BY Rows, MessageClasses
  <2>3. /\ Bits(f.id, "class") = MessageClass["management"] /\ Bits(f.id,
               "opcode") = Opcode["HEARTBEAT"]
        /\ Described(f, "HEARTBEAT")
    BY <2>1, <2>2, NodeFrames DEF Described, Describes, Row, ValidNodeId, BROADCAST_NODE
  <2> QED BY <2>1, <2>3, MessageClasses, Opcodes DEF Owner
<1> QED BY <1>1, <1>2 DEF Apart

LEMMA Bindings == ASSUME NEW f PROVE Apart(f, DecodeBinding(f), 9)
<1> DEFINE H == NodeMessage(f, 5, "management", Opcode["BINDING"], 16)
<1>1. Single(DecodeBinding(f))
  <2>1. Single(H) /\ Single(DecodeBindingAt(f.payload, 0, 4))
    BY NodeHeaders, PartsAreSingle
  <2> QED BY <2>1 DEF DecodeBinding, Single
<1>2. ASSUME NEW m \in DecodeBinding(f)
      PROVE  /\ Described(f, m.kind)
             /\ Owner(Bits(f.id, "class"), Bits(f.id, "opcode")) = 9
  <2>1. PICK h \in H : m.kind = "BINDING"
    BY DEF DecodeBinding
  <2>2. Registry["BINDING"] = Row(MessageClass["management"], 5, "node", 16, FALSE)
    BY Rows, MessageClasses
  <2>3. /\ Bits(f.id, "class") = MessageClass["management"] /\ Bits(f.id,
               "opcode") = Opcode["BINDING"]
        /\ Described(f, "BINDING")
    BY <2>1, <2>2, NodeFrames DEF Described, Describes, Row, ValidNodeId, BROADCAST_NODE
  <2> QED BY <2>1, <2>3, MessageClasses, Opcodes DEF Owner
<1> QED BY <1>1, <1>2 DEF Apart

LEMMA CommandResponses == ASSUME NEW f PROVE Apart(f, DecodeCommandResponse(f), 2)
<1> DEFINE H == ScopedNodeMessage(f, 2, "response", Opcode["COMMAND_RESPONSE"], 16)
<1>1. Single(DecodeCommandResponse(f))
  <2>1. Single(H)
    BY NodeHeaders
  <2> QED BY <2>1 DEF DecodeCommandResponse, Single
<1>2. ASSUME NEW m \in DecodeCommandResponse(f)
      PROVE  /\ Described(f, m.kind)
             /\ Owner(Bits(f.id, "class"), Bits(f.id, "opcode")) = 2
  <2>1. PICK h \in H : m.kind = "COMMAND_RESPONSE"
    BY DEF DecodeCommandResponse
  <2>2. Registry["COMMAND_RESPONSE"] = Row(MessageClass["response"], 2, "node", 16, TRUE)
    BY Rows, MessageClasses
  <2>3. /\ Bits(f.id, "class") = MessageClass["response"] /\ Bits(f.id,
               "opcode") = Opcode["COMMAND_RESPONSE"]
        /\ Described(f, "COMMAND_RESPONSE")
    BY <2>1, <2>2, ScopedFrames DEF Described, Describes, Row, ValidNodeId, BROADCAST_NODE
  <2> QED BY <2>1, <2>3, MessageClasses, Opcodes DEF Owner
<1> QED BY <1>1, <1>2 DEF Apart

LEMMA FirmwareAcks == ASSUME NEW f PROVE Apart(f, DecodeFirmwareAck(f), 12)
<1> DEFINE H == ScopedNodeMessage(f, 5, "firmware", Opcode["FW_ACK"], 24)
<1>1. Single(DecodeFirmwareAck(f))
  <2>1. Single(H)
    BY NodeHeaders
  <2> QED BY <2>1 DEF DecodeFirmwareAck, Single
<1>2. ASSUME NEW m \in DecodeFirmwareAck(f)
      PROVE  /\ Described(f, m.kind)
             /\ Owner(Bits(f.id, "class"), Bits(f.id, "opcode")) = 12
  <2>1. PICK h \in H : m.kind = "FW_ACK"
    BY DEF DecodeFirmwareAck
  <2>2. Registry["FW_ACK"] = Row(MessageClass["firmware"], 5, "node", 24, TRUE)
    BY Rows, MessageClasses
  <2>3. /\ Bits(f.id, "class") = MessageClass["firmware"] /\ Bits(f.id, "opcode") = Opcode["FW_ACK"]
        /\ Described(f, "FW_ACK")
    BY <2>1, <2>2, ScopedFrames DEF Described, Describes, Row, ValidNodeId, BROADCAST_NODE
  <2> QED BY <2>1, <2>3, MessageClasses, Opcodes DEF Owner
<1> QED BY <1>1, <1>2 DEF Apart

LEMMA FirmwareStatuses == ASSUME NEW f PROVE Apart(f, DecodeFirmwareStatus(f), 13)
<1> DEFINE H == ScopedNodeMessage(f, 5, "firmware", Opcode["FW_STATUS_RESPONSE"], 64)
<1>1. Single(DecodeFirmwareStatus(f))
  <2>1. Single(H)
    BY NodeHeaders
  <2> QED BY <2>1 DEF DecodeFirmwareStatus, Single
<1>2. ASSUME NEW m \in DecodeFirmwareStatus(f)
      PROVE  /\ Described(f, m.kind)
             /\ Owner(Bits(f.id, "class"), Bits(f.id, "opcode")) = 13
  <2>1. PICK h \in H : m.kind = "FW_STATUS_RESPONSE"
    BY DEF DecodeFirmwareStatus
  <2>2. Registry["FW_STATUS_RESPONSE"] = Row(MessageClass["firmware"], 5, "node", 64, TRUE)
    BY Rows, MessageClasses
  <2>3. /\ Bits(f.id, "class") = MessageClass["firmware"] /\ Bits(f.id,
               "opcode") = Opcode["FW_STATUS_RESPONSE"]
        /\ Described(f, "FW_STATUS_RESPONSE")
    BY <2>1, <2>2, ScopedFrames DEF Described, Describes, Row, ValidNodeId, BROADCAST_NODE
  <2> QED BY <2>1, <2>3, MessageClasses, Opcodes DEF Owner
<1> QED BY <1>1, <1>2 DEF Apart

LEMMA FanStates == ASSUME NEW f PROVE Apart(f, DecodeFanState(f), 4)
<1>1. Single(DecodeFanState(f))
  BY Decoding DEF DecodeFanState, Single
<1>2. ASSUME NEW m \in DecodeFanState(f)
      PROVE  /\ Described(f, m.kind)
             /\ Owner(Bits(f.id, "class"), Bits(f.id, "opcode")) = 4
  <2>1. PICK h \in HeaderDecode(f.id) :
          /\ m.kind = "FAN_STATE" /\ IsProtocolHeader(h, 3, "state", Opcode["FAN_STATE"])
          /\ ValidNodeId(h.node) /\ Length(f.payload) = 12 /\ h.target \in FanId
    BY DEF DecodeFanState
  <2>2. Registry["FAN_STATE"] = Row(MessageClass["state"], 3, "fan", 12, FALSE)
    BY Rows, MessageClasses
  <2>3. /\ Bits(f.id, "class") = MessageClass["state"] /\ Bits(f.id, "opcode") = Opcode["FAN_STATE"]
        /\ Bits(f.id, "priority") = 3 /\ Bits(f.id, "requester") = PROTOCOL
        /\ ValidNodeId(Bits(f.id, "node")) /\ Bits(f.id, "target") \in FanId
    BY <2>1, Decoding DEF IsProtocolHeader
  <2>4. Described(f, "FAN_STATE")
    BY <2>1, <2>2, <2>3 DEF Described, Describes, Row, ValidNodeId, BROADCAST_NODE
  <2> QED BY <2>1, <2>3, <2>4, MessageClasses, Opcodes DEF Owner
<1> QED BY <1>1, <1>2 DEF Apart

-----------------------------------------------------------------------------
(* Control requests: one opcode, one kind, one way to read the arguments. *)

LEMMA Merged ==
    ASSUME NEW a, NEW b, NEW x \in DOMAIN a
    PROVE  Join(a, b)[x] = a[x]
BY DEF Join

LEMMA CommandsAreSingle ==
    ASSUME NEW kind \in ControlKinds, NEW h, NEW p
    PROVE  Single(DecodeCommand(kind, h, p))
<1> USE DEF Single, When
<1>1. CASE kind = "EMERGENCY_DISABLE"
  BY <1>1 DEF DecodeCommand
<1>2. CASE kind = "ACKNOWLEDGE_EMERGENCY"
  BY <1>2 DEF DecodeCommand
<1>3. CASE kind = "REQUEST_STATUS"
  BY <1>3 DEF DecodeCommand
<1>4. CASE kind = "SET_CARRIER_POLICY"
  BY <1>4, PartsAreSingle DEF DecodeCommand
<1>5. CASE kind = "SET_FAN"
  BY <1>5 DEF DecodeCommand
<1>6. CASE kind = "SET_BINDING"
  BY <1>6, PartsAreSingle DEF DecodeCommand
<1> QED BY <1>1, <1>2, <1>3, <1>4, <1>5, <1>6 DEF ControlKinds

(* What a command checks of the header and the length. *)
LEMMA CommandChecks ==
    ASSUME NEW kind \in ControlKinds, NEW h, NEW p, NEW args \in DecodeCommand(kind, h, p)
    PROVE  /\ Length(p) = ControlLength(kind)
           /\ kind = "EMERGENCY_DISABLE" => h.priority = 0 /\ h.target = NODE_TARGET
           /\ kind # "EMERGENCY_DISABLE" => h.priority = 1 /\ ValidNodeId(h.node)
           /\ kind = "SET_FAN" => h.target \in FanId
           /\ kind # "SET_FAN" => h.target = NODE_TARGET
<1> USE DEF When, StandardControl, ControlLength
<1>1. CASE kind = "EMERGENCY_DISABLE"
  BY <1>1 DEF DecodeCommand
<1>2. CASE kind = "ACKNOWLEDGE_EMERGENCY"
  BY <1>2 DEF DecodeCommand
<1>3. CASE kind = "REQUEST_STATUS"
  BY <1>3 DEF DecodeCommand
<1>4. CASE kind = "SET_CARRIER_POLICY"
  BY <1>4 DEF DecodeCommand
<1>5. CASE kind = "SET_FAN"
  BY <1>5 DEF DecodeCommand
<1>6. CASE kind = "SET_BINDING"
  BY <1>6 DEF DecodeCommand
<1> QED BY <1>1, <1>2, <1>3, <1>4, <1>5, <1>6 DEF ControlKinds

LEMMA ControlRows ==
    ASSUME NEW kind \in ControlKinds
    PROVE  /\ Registry[kind] = Row(0, IF kind = "EMERGENCY_DISABLE" THEN 0 ELSE 1,
                                   IF kind = "SET_FAN" THEN "fan" ELSE "node",
                                   ControlLength(kind), TRUE)
           /\ \A k \in ControlKinds : Opcode[k] = Opcode[kind] => k = kind
<1>1. \A k \in ControlKinds : Opcode[k] = Opcode[kind] => k = kind
  BY Opcodes DEF ControlKinds
<1> USE DEF ControlLength
<1>2. CASE kind = "EMERGENCY_DISABLE"
  BY <1>1, <1>2, Rows
<1>3. CASE kind \in {"ACKNOWLEDGE_EMERGENCY", "REQUEST_STATUS"}
  BY <1>1, <1>3, Rows, Zenon
<1>4. CASE kind \in {"SET_CARRIER_POLICY", "SET_BINDING"}
  BY <1>1, <1>4, Rows, Zenon
<1>5. CASE kind = "SET_FAN"
  BY <1>1, <1>5, Rows
<1> QED BY <1>2, <1>3, <1>4, <1>5, Zenon DEF ControlKinds

LEMMA ControlRequests == ASSUME NEW f PROVE Apart(f, DecodeControlRequest(f), 1)
<1> DEFINE Result(h, kind, args) ==
             Join([kind |-> kind, node |-> h.node, requester |-> h.requester,
                   request |-> ReadLe(f.payload, 0, 8)], args)
<1>1. ASSUME NEW m \in DecodeControlRequest(f)
      PROVE  \E h \in HeaderDecode(f.id), kind \in ControlKinds :
               /\ h.class = MessageClass["control"] /\ HostRequester(h.requester)
               /\ Opcode[kind] = h.opcode
               /\ \E args \in DecodeCommand(kind, h, f.payload) : m = Result(h, kind, args)
  <2> DEFINE Of(h, kind) == {Result(h, kind, args) : args \in DecodeCommand(kind, h, f.payload)}
             Kinds(h) == {k \in ControlKinds : Opcode[k] = h.opcode}
  <2>1. PICK h \in HeaderDecode(f.id) :
          /\ h.class = MessageClass["control"] /\ HostRequester(h.requester)
          /\ m \in UNION {Of(h, kind) : kind \in Kinds(h)}
    BY DEF DecodeControlRequest
  <2>2. PICK kind \in Kinds(h) : m \in Of(h, kind)
    BY <2>1, Zenon
  <2> QED BY <2>1, <2>2
<1>2. ASSUME NEW m \in DecodeControlRequest(f), NEW n \in DecodeControlRequest(f)
      PROVE  m = n
  <2>1. PICK h \in HeaderDecode(f.id), kind \in ControlKinds :
          /\ Opcode[kind] = h.opcode
          /\ \E args \in DecodeCommand(kind, h, f.payload) : m = Result(h, kind, args)
    BY <1>1, Zenon
  <2>2. PICK g \in HeaderDecode(f.id), other \in ControlKinds :
          /\ Opcode[other] = g.opcode
          /\ \E args \in DecodeCommand(other, g, f.payload) : n = Result(g, other, args)
    BY <1>1
  <2>3. g = h /\ other = kind
    <3>1. g = h
      BY <2>1, <2>2, Decoding
    <3>2. Opcode[other] = Opcode[kind]
      BY <2>1, <2>2, <3>1
    <3> QED BY <3>1, <3>2, ControlRows, Zenon
  <2>4. PICK a \in DecodeCommand(kind, h, f.payload) : m = Result(h, kind, a)
    BY <2>1
  <2>5. PICK b \in DecodeCommand(kind, h, f.payload) : n = Result(h, kind, b)
    BY <2>2, <2>3
  <2>6. a = b
    BY <2>4, <2>5, CommandsAreSingle DEF Single
  <2> QED BY <2>4, <2>5, <2>6
<1>3. ASSUME NEW m \in DecodeControlRequest(f)
      PROVE  /\ Described(f, m.kind)
             /\ Owner(Bits(f.id, "class"), Bits(f.id, "opcode")) = 1
  <2>1. PICK h \in HeaderDecode(f.id), kind \in ControlKinds :
          /\ h.class = MessageClass["control"] /\ HostRequester(h.requester)
          /\ Opcode[kind] = h.opcode
          /\ \E args \in DecodeCommand(kind, h, f.payload) : m = Result(h, kind, args)
    BY <1>1
  <2>2. PICK args \in DecodeCommand(kind, h, f.payload) : m = Result(h, kind, args)
    BY <2>1
  <2>3. m.kind = kind
    BY <2>2, Merged
  <2>4. /\ Bits(f.id, "class") = 0 /\ Bits(f.id, "requester") # PROTOCOL
        /\ Bits(f.id, "opcode") = Opcode[kind]
    BY <2>1, Decoding, MessageClasses DEF HostRequester
  <2>5. /\ Length(f.payload) = ControlLength(kind)
        /\ kind = "EMERGENCY_DISABLE" =>
              Bits(f.id, "priority") = 0 /\ Bits(f.id, "target") = NODE_TARGET
        /\ kind # "EMERGENCY_DISABLE" =>
              Bits(f.id, "priority") = 1 /\ ValidNodeId(Bits(f.id, "node"))
        /\ kind = "SET_FAN" => Bits(f.id, "target") \in FanId
        /\ kind # "SET_FAN" => Bits(f.id, "target") = NODE_TARGET
    BY <2>2, CommandChecks, Decoding
  <2>6. Described(f, kind)
    <3>1. PICK priority, target :
            /\ Registry[kind] = Row(0, priority, target, ControlLength(kind), TRUE)
            /\ priority = IF kind = "EMERGENCY_DISABLE" THEN 0 ELSE 1
            /\ target = IF kind = "SET_FAN" THEN "fan" ELSE "node"
      BY ControlRows, Zenon
    <3>2. /\ Registry[kind].class = 0 /\ Registry[kind].len = ControlLength(kind)
          /\ Registry[kind].priority = priority /\ Registry[kind].target = target
          /\ Registry[kind].scoped
      BY <3>1 DEF Row
    <3>3. Describes(Registry[kind], kind, f)
      <4>1. CASE kind = "EMERGENCY_DISABLE"
        BY <2>4, <2>5, <3>1, <3>2, <4>1, Zenon DEF Describes
      <4>2. CASE kind = "SET_FAN"
        BY <2>4, <2>5, <3>1, <3>2, <4>2, Zenon DEF Describes
      <4>3. CASE kind \notin {"EMERGENCY_DISABLE", "SET_FAN"}
        BY <2>4, <2>5, <3>1, <3>2, <4>3, Zenon DEF Describes
      <4> QED BY <4>1, <4>2, <4>3
    <3>4. kind # "EMERGENCY_DISABLE" => Registry[kind].priority \in 1 .. 6
      <4>1. kind # "EMERGENCY_DISABLE" => Registry[kind].priority = 1
        BY <3>1, <3>2, Zenon
      <4> QED BY <4>1
    <3> QED BY <2>5, <3>3, <3>4 DEF Described, ValidNodeId, BROADCAST_NODE
  <2> QED BY <2>3, <2>4, <2>6 DEF Owner
<1>4. Single(DecodeControlRequest(f))
  BY <1>2 DEF Single
<1> QED BY <1>3, <1>4 DEF Apart

-----------------------------------------------------------------------------
(* Firmware requests and commissioning. *)

LEMMA FirmwareRows ==
    ASSUME NEW kind \in FirmwareKinds
    PROVE  /\ Registry[kind] = Row(6, 5, "node", FirmwareLength(kind), TRUE)
           /\ \A k \in FirmwareKinds : Opcode[k] = Opcode[kind] => k = kind
           /\ Opcode[kind] \in 0 .. 5
<1>1. \A k \in FirmwareKinds : Opcode[k] = Opcode[kind] => k = kind
  BY Opcodes DEF FirmwareKinds
<1>2. Opcode[kind] \in 0 .. 5
  BY Opcodes DEF FirmwareKinds
<1> USE DEF FirmwareLength
<1>3. CASE kind \in {"FW_BEGIN", "FW_DATA"}
  BY <1>1, <1>2, <1>3, Rows, Zenon
<1>4. CASE kind \in {"FW_FINISH", "FW_ACTIVATE", "FW_ABORT"}
  BY <1>1, <1>2, <1>4, Rows, Zenon
<1>5. CASE kind = "FW_STATUS"
  BY <1>1, <1>2, <1>5, Rows
<1> QED BY <1>3, <1>4, <1>5, Zenon DEF FirmwareKinds

LEMMA FirmwareBodiesAreSingle ==
    ASSUME NEW kind \in FirmwareKinds, NEW p
    PROVE  Single(DecodeFirmwareBody(kind, p))
<1> USE DEF Single, When
<1>1. CASE kind = "FW_BEGIN"
  BY <1>1 DEF DecodeFirmwareBody
<1>2. CASE kind = "FW_DATA"
  BY <1>2 DEF DecodeFirmwareBody
<1>3. CASE kind \in {"FW_FINISH", "FW_ABORT"}
  BY <1>3 DEF DecodeFirmwareBody
<1>4. CASE kind = "FW_ACTIVATE"
  BY <1>4 DEF DecodeFirmwareBody
<1>5. CASE kind = "FW_STATUS"
  BY <1>5 DEF DecodeFirmwareBody
<1> QED BY <1>1, <1>2, <1>3, <1>4, <1>5 DEF FirmwareKinds

LEMMA FirmwareRequests == ASSUME NEW f PROVE Apart(f, DecodeFirmwareRequest(f), 11)
<1> DEFINE Result(h, kind, args) ==
             Join([kind |-> kind, node |-> h.node, requester |-> h.requester], args)
<1>1. ASSUME NEW m \in DecodeFirmwareRequest(f)
      PROVE  \E h \in HeaderDecode(f.id), kind \in FirmwareKinds :
               /\ h.class = MessageClass["firmware"] /\ h.priority = 5
               /\ h.target = NODE_TARGET /\ HostRequester(h.requester) /\ ValidNodeId(h.node)
               /\ Opcode[kind] = h.opcode /\ Length(f.payload) = FirmwareLength(kind)
               /\ \E args \in DecodeFirmwareBody(kind, f.payload) : m = Result(h, kind, args)
  <2> DEFINE Of(h, kind) == {Result(h, kind, args) : args \in DecodeFirmwareBody(kind, f.payload)}
             Kinds(h) == {k \in FirmwareKinds : /\ Opcode[k] = h.opcode
                                               /\ Length(f.payload) = FirmwareLength(k)}
  <2>1. PICK h \in HeaderDecode(f.id) :
          /\ h.class = MessageClass["firmware"] /\ h.priority = 5
          /\ h.target = NODE_TARGET /\ HostRequester(h.requester) /\ ValidNodeId(h.node)
          /\ m \in UNION {Of(h, kind) : kind \in Kinds(h)}
    BY DEF DecodeFirmwareRequest
  <2>2. PICK kind \in Kinds(h) : m \in Of(h, kind)
    BY <2>1, Zenon
  <2> QED BY <2>1, <2>2
<1>2. ASSUME NEW m \in DecodeFirmwareRequest(f), NEW n \in DecodeFirmwareRequest(f)
      PROVE  m = n
  <2>1. PICK h \in HeaderDecode(f.id), kind \in FirmwareKinds :
          /\ Opcode[kind] = h.opcode
          /\ \E args \in DecodeFirmwareBody(kind, f.payload) : m = Result(h, kind, args)
    BY <1>1, Zenon
  <2>2. PICK g \in HeaderDecode(f.id), other \in FirmwareKinds :
          /\ Opcode[other] = g.opcode
          /\ \E args \in DecodeFirmwareBody(other, f.payload) : n = Result(g, other, args)
    BY <1>1, Zenon
  <2>3. g = h /\ other = kind
    <3>1. g = h
      BY <2>1, <2>2, Decoding
    <3>2. Opcode[other] = Opcode[kind]
      BY <2>1, <2>2, <3>1
    <3> QED BY <3>1, <3>2, FirmwareRows, Zenon
  <2>4. PICK a \in DecodeFirmwareBody(kind, f.payload) : m = Result(h, kind, a)
    BY <2>1
  <2>5. PICK b \in DecodeFirmwareBody(kind, f.payload) : n = Result(h, kind, b)
    BY <2>2, <2>3
  <2>6. a = b
    BY <2>4, <2>5, FirmwareBodiesAreSingle DEF Single
  <2> QED BY <2>4, <2>5, <2>6
<1>3. ASSUME NEW m \in DecodeFirmwareRequest(f)
      PROVE  /\ Described(f, m.kind)
             /\ Owner(Bits(f.id, "class"), Bits(f.id, "opcode")) = 11
  <2>1. PICK h \in HeaderDecode(f.id), kind \in FirmwareKinds :
          /\ h.class = MessageClass["firmware"] /\ h.priority = 5
          /\ h.target = NODE_TARGET /\ HostRequester(h.requester) /\ ValidNodeId(h.node)
          /\ Opcode[kind] = h.opcode /\ Length(f.payload) = FirmwareLength(kind)
          /\ \E args \in DecodeFirmwareBody(kind, f.payload) : m = Result(h, kind, args)
    BY <1>1, Zenon
  <2>2. m.kind = kind
    BY <2>1, Merged
  <2>3. /\ Bits(f.id, "class") = 6 /\ Bits(f.id, "opcode") = Opcode[kind]
        /\ Bits(f.id, "priority") = 5 /\ Bits(f.id, "requester") # PROTOCOL
        /\ Bits(f.id, "target") = NODE_TARGET /\ ValidNodeId(Bits(f.id, "node"))
    BY <2>1, Decoding, MessageClasses DEF HostRequester
  <2>4. Described(f, kind)
    <3>1. Registry[kind] = Row(6, 5, "node", FirmwareLength(kind), TRUE)
      BY FirmwareRows, Zenon
    <3> QED BY <2>1, <2>3, <3>1 DEF Described, Describes, Row, ValidNodeId, BROADCAST_NODE
  <2>5. Opcode[kind] \in 0 .. 5
    BY FirmwareRows, Zenon
  <2> QED BY <2>2, <2>3, <2>4, <2>5 DEF Owner
<1>4. Single(DecodeFirmwareRequest(f))
  BY <1>2 DEF Single
<1> QED BY <1>3, <1>4 DEF Apart

CommissioningLength(kind) ==
    IF kind = "NODE_CLAIM" THEN 16 ELSE IF kind = "DISCOVER" THEN 8
    ELSE IF kind = "DISCOVERY_RESPONSE" THEN 64 ELSE IF kind = "CLEAR_NODE" THEN 20 ELSE 24

LEMMA CommissioningRows ==
    ASSUME NEW kind \in CommissioningKinds
    PROVE  /\ Registry[kind] = Row(14, 6, "token", CommissioningLength(kind), kind # "NODE_CLAIM")
           /\ \A k \in CommissioningKinds : Opcode[k] = Opcode[kind] => k = kind
<1>1. \A k \in CommissioningKinds : Opcode[k] = Opcode[kind] => k = kind
  BY Opcodes DEF CommissioningKinds
<1> USE DEF CommissioningLength
<1>2. CASE kind = "NODE_CLAIM"
  BY <1>1, <1>2, Rows, Zenon
<1>3. CASE kind = "DISCOVER"
  BY <1>1, <1>3, Rows, Zenon
<1>4. CASE kind = "DISCOVERY_RESPONSE"
  BY <1>1, <1>4, Rows, Zenon
<1>5. CASE kind = "CLEAR_NODE"
  BY <1>1, <1>5, Rows, Zenon
<1>6. CASE kind \in {"IDENTIFY", "ASSIGN_NODE", "COMMISSIONING_RESULT"}
  BY <1>1, <1>6, Rows, Zenon
<1> QED BY <1>2, <1>3, <1>4, <1>5, <1>6 DEF CommissioningKinds

LEMMA CommissioningBodies ==
    ASSUME NEW kind \in CommissioningKinds, NEW h, NEW p
    PROVE  /\ Single(DecodeCommissioningBody(kind, h, p))
           /\ \A args \in DecodeCommissioningBody(kind, h, p) :
                 Length(p) = CommissioningLength(kind)
<1> USE DEF Single, When, CommissioningLength
<1>1. CASE kind = "NODE_CLAIM"
  BY <1>1 DEF DecodeCommissioningBody
<1>2. CASE kind = "DISCOVER"
  BY <1>2 DEF DecodeCommissioningBody
<1>3. CASE kind = "DISCOVERY_RESPONSE"
  <2> DEFINE Response(info) ==
               [uid |-> ReadUid(p, 0), node |-> OptionalNode(p[12]), state |-> p[13],
                major |-> p[14], minor |-> p[15], nonce |-> ReadLe(p, 48, 8), info |-> info]
  <2>1. ASSUME NEW args \in DecodeCommissioningBody(kind, h, p)
        PROVE  Length(p) = 64 /\ \E info \in DecodeInfo(p, 16) : args = Response(info)
    BY <1>3 DEF DecodeCommissioningBody
  <2> HIDE DEF Response
  <2> QED BY <1>3, <2>1, PartsAreSingle, SMTT(30)
<1>4. CASE kind = "IDENTIFY"
  BY <1>4 DEF DecodeCommissioningBody
<1>5. CASE kind = "ASSIGN_NODE"
  BY <1>5 DEF DecodeCommissioningBody
<1>6. CASE kind = "CLEAR_NODE"
  BY <1>6 DEF DecodeCommissioningBody
<1>7. CASE kind = "COMMISSIONING_RESULT"
  BY <1>7 DEF DecodeCommissioningBody
<1> QED BY <1>1, <1>2, <1>3, <1>4, <1>5, <1>6, <1>7 DEF CommissioningKinds

LEMMA CommissioningHeader ==
    ASSUME NEW id, NEW h \in CommissioningHeaderDecode(id)
    PROVE  /\ h = [f \in {"priority", "class", "token", "requester", "opcode"} |-> Bits(id, f)]
           /\ h.priority = Bits(id, "priority") /\ h.class = Bits(id, "class")
           /\ h.token = Bits(id, "token") /\ h.requester = Bits(id, "requester")
           /\ h.opcode = Bits(id, "opcode") /\ h.class = MessageClass["commissioning"]
<1>1. /\ h = [f \in {"priority", "class", "token", "requester", "opcode"} |-> Bits(id, f)]
      /\ h.class = MessageClass["commissioning"]
  BY DEF CommissioningHeaderDecode, When
<1> QED BY <1>1

LEMMA CommissioningMessages == ASSUME NEW f PROVE Apart(f, DecodeCommissioning(f), 10)
<1> DEFINE Result(h, kind, args) == Join([kind |-> kind, requester |-> h.requester], args)
<1>1. ASSUME NEW m \in DecodeCommissioning(f)
      PROVE  \E h \in CommissioningHeaderDecode(f.id), kind \in CommissioningKinds :
               /\ h.priority = 6 /\ (kind = "NODE_CLAIM" <=> ~ HostRequester(h.requester))
               /\ Opcode[kind] = h.opcode
               /\ \E args \in DecodeCommissioningBody(kind, h, f.payload) :
                     m = Result(h, kind, args)
  <2> DEFINE Of(h, kind) ==
               {Result(h, kind, args) : args \in DecodeCommissioningBody(kind, h, f.payload)}
             Kinds(h) == {k \in CommissioningKinds :
                            /\ Opcode[k] = h.opcode
                            /\ k = "NODE_CLAIM" <=> ~HostRequester(h.requester)}
  <2>1. PICK h \in CommissioningHeaderDecode(f.id) :
          h.priority = 6 /\ m \in UNION {Of(h, kind) : kind \in Kinds(h)}
    BY DEF DecodeCommissioning
  <2>2. PICK kind \in Kinds(h) : m \in Of(h, kind)
    BY <2>1
  <2> QED BY <2>1, <2>2
<1>2. ASSUME NEW m \in DecodeCommissioning(f), NEW n \in DecodeCommissioning(f)
      PROVE  m = n
  <2>1. PICK h \in CommissioningHeaderDecode(f.id), kind \in CommissioningKinds :
          /\ Opcode[kind] = h.opcode
          /\ \E args \in DecodeCommissioningBody(kind, h, f.payload) : m = Result(h, kind, args)
    BY <1>1
  <2>2. PICK g \in CommissioningHeaderDecode(f.id), other \in CommissioningKinds :
          /\ Opcode[other] = g.opcode
          /\ \E args \in DecodeCommissioningBody(other, g, f.payload) : n = Result(g, other, args)
    BY <1>1
  <2>3. g = h /\ other = kind
    <3>1. g = h
      BY <2>1, <2>2, CommissioningHeader
    <3>2. Opcode[other] = Opcode[kind]
      BY <2>1, <2>2, <3>1
    <3> QED BY <3>1, <3>2, CommissioningRows
  <2>4. PICK a \in DecodeCommissioningBody(kind, h, f.payload) : m = Result(h, kind, a)
    BY <2>1
  <2>5. PICK b \in DecodeCommissioningBody(kind, h, f.payload) : n = Result(h, kind, b)
    BY <2>2, <2>3
  <2>6. a = b
    BY <2>4, <2>5, CommissioningBodies DEF Single
  <2> QED BY <2>4, <2>5, <2>6
<1>3. ASSUME NEW m \in DecodeCommissioning(f)
      PROVE  /\ Described(f, m.kind)
             /\ Owner(Bits(f.id, "class"), Bits(f.id, "opcode")) = 10
  <2>1. PICK h \in CommissioningHeaderDecode(f.id), kind \in CommissioningKinds :
          /\ h.priority = 6 /\ (kind = "NODE_CLAIM" <=> ~ HostRequester(h.requester))
          /\ Opcode[kind] = h.opcode
          /\ \E args \in DecodeCommissioningBody(kind, h, f.payload) : m = Result(h, kind, args)
    BY <1>1, Zenon
  <2>2. m.kind = kind
    BY <2>1, Merged
  <2>3. /\ Bits(f.id, "class") = 14 /\ Bits(f.id, "opcode") = Opcode[kind]
        /\ Bits(f.id, "priority") = 6 /\ Length(f.payload) = CommissioningLength(kind)
        /\ kind # "NODE_CLAIM" <=> Bits(f.id, "requester") # PROTOCOL
    BY <2>1, CommissioningHeader, CommissioningBodies, MessageClasses DEF HostRequester
  <2>4. Described(f, kind)
    <3>1. PICK scoped \in BOOLEAN :
              /\ Registry[kind] = Row(14, 6, "token", CommissioningLength(kind), scoped)
              /\ scoped <=> kind # "NODE_CLAIM"
      BY CommissioningRows, Zenon
    <3> QED BY <2>3, <3>1 DEF Described, Describes, Row
  <2> QED BY <2>2, <2>3, <2>4 DEF Owner
<1>4. Single(DecodeCommissioning(f))
  BY <1>2 DEF Single
<1> QED BY <1>3, <1>4 DEF Apart

-----------------------------------------------------------------------------
(* All the decoders together. *)

LEMMA Meanings ==
    ASSUME NEW f
    PROVE  /\ Single(Decoded(f))
           /\ \A m \in Decoded(f) : Described(f, m.kind)
<1> DEFINE D == <<DecodeControlRequest(f), DecodeCommandResponse(f), DecodeNodeState(f),
                  DecodeFanState(f), DecodePower(f), DecodeTemperature(f), DecodeNodeInfo(f),
                  DecodeHeartbeat(f), DecodeBinding(f), DecodeCommissioning(f),
                  DecodeFirmwareRequest(f), DecodeFirmwareAck(f), DecodeFirmwareStatus(f)>>
<1>1. \A n \in 1 .. 13 : Apart(f, D[n], n)
  <2>1. /\ Apart(f, D[1], 1) /\ Apart(f, D[2], 2) /\ Apart(f, D[3], 3) /\ Apart(f, D[4], 4)
        /\ Apart(f, D[5], 5) /\ Apart(f, D[6], 6) /\ Apart(f, D[7], 7) /\ Apart(f, D[8], 8)
        /\ Apart(f, D[9], 9) /\ Apart(f, D[10], 10) /\ Apart(f, D[11], 11)
        /\ Apart(f, D[12], 12) /\ Apart(f, D[13], 13)
    BY ControlRequests, CommandResponses, NodeStates, FanStates, Powers, Temperatures,
       NodeInfos, Heartbeats, Bindings, CommissioningMessages, FirmwareRequests,
       FirmwareAcks, FirmwareStatuses
  <2> HIDE DEF D
  <2> QED BY <2>1
<1>2. \A m \in Decoded(f) : \E n \in 1 .. 13 : m \in D[n]
  BY DEF Decoded
<1> HIDE DEF D
<1>3. \A x, y \in Decoded(f) : x = y
  <2> SUFFICES ASSUME NEW x \in Decoded(f), NEW y \in Decoded(f)
               PROVE  x = y
    OBVIOUS
  <2>1. PICK i \in 1 .. 13 : x \in D[i]
    BY <1>2
  <2>2. PICK j \in 1 .. 13 : y \in D[j]
    BY <1>2
  <2>3. i = j
    BY <1>1, <2>1, <2>2 DEF Apart
  <2> QED BY <1>1, <2>1, <2>2, <2>3 DEF Apart, Single
<1>4. \A m \in Decoded(f) : Described(f, m.kind)
  BY <1>1, <1>2 DEF Apart
<1> QED BY <1>3, <1>4 DEF Single

(* No two decoders of the crate accept one frame, and none reads it in two ways: true
   of every identifier and payload, whoever sent them. *)
THEOREM FramesHaveOneMeaning == \A f : Cardinality(Decoded(f)) <= 1
<1> SUFFICES ASSUME NEW f
             PROVE  Cardinality(Decoded(f)) <= 1
  OBVIOUS
<1>1. CASE Decoded(f) = {}
  BY <1>1, FS_EmptySet
<1>2. CASE Decoded(f) # {}
  <2>1. PICK m : m \in Decoded(f)
    BY <1>2
  <2>2. Decoded(f) = {m}
    BY <2>1, Meanings DEF Single
  <2>3. Cardinality({m}) = 1
    BY FS_Singleton
  <2> QED BY <2>2, <2>3
<1> QED BY <1>1, <1>2

(* So it is with every frame of a run (OneMeaning). *)
THEOREM OneMeaningCorrect == Spec => []OneMeaning
<1>1. OneMeaning
  BY FramesHaveOneMeaning DEF OneMeaning
<1> QED BY <1>1, PTL

(* Every frame that some decoder accepts is the one its row of MESSAGE_DEFINITIONS
   describes (RegistryDescribesFrames). *)
THEOREM RegistryCorrect == Spec => []RegistryDescribesFrames
<1>1. RegistryDescribesFrames
  BY Meanings DEF RegistryDescribesFrames, Described
<1> QED BY <1>1, PTL

-----------------------------------------------------------------------------
(* The identifier in numbers. *)

(* The fields of the identifier, as numbers. *)
LEMMA Fields ==
    ASSUME NEW id \in Nat
    PROVE  /\ Bits(id, "priority") = (id \div 67108864) % 8
           /\ Bits(id, "class") = (id \div 4194304) % 16
           /\ Bits(id, "node") = (id \div 16384) % 256
           /\ Bits(id, "target") = (id \div 1024) % 16
           /\ Bits(id, "token") = (id \div 1024) % 4096
           /\ Bits(id, "requester") = (id \div 64) % 16
           /\ Bits(id, "opcode") = id % 64
<1>1. /\ 2 ^ 26 = 67108864 /\ 2 ^ 22 = 4194304 /\ 2 ^ 14 = 16384 /\ 2 ^ 10 = 1024
      /\ 2 ^ 6 = 64 /\ 2 ^ 0 = 1
      /\ 2 ^ 3 = 8 /\ 2 ^ 4 = 16 /\ 2 ^ 8 = 256 /\ 2 ^ 12 = 4096
  BY SMT
<1>2. /\ BitField["priority"] = <<26, 3>> /\ BitField["class"] = <<22, 4>>
      /\ BitField["node"] = <<14, 8>> /\ BitField["target"] = <<10, 4>>
      /\ BitField["token"] = <<10, 12>> /\ BitField["requester"] = <<6, 4>>
      /\ BitField["opcode"] = <<0, 6>>
  BY DEF BitField
<1> QED BY <1>1, <1>2, SMT DEF Bits

LEMMA Places ==
    ASSUME NEW v \in Nat
    PROVE  /\ InPlace("priority", v) = 67108864 * v /\ InPlace("class", v) = 4194304 * v
           /\ InPlace("node", v) = 16384 * v /\ InPlace("target", v) = 1024 * v
           /\ InPlace("token", v) = 1024 * v /\ InPlace("requester", v) = 64 * v
           /\ InPlace("opcode", v) = v
<1>1. /\ 2 ^ 26 = 67108864 /\ 2 ^ 22 = 4194304 /\ 2 ^ 14 = 16384 /\ 2 ^ 10 = 1024
      /\ 2 ^ 6 = 64 /\ 2 ^ 0 = 1
  BY SMT
<1>2. /\ BitField["priority"][1] = 26 /\ BitField["class"][1] = 22
      /\ BitField["node"][1] = 14 /\ BitField["target"][1] = 10
      /\ BitField["token"][1] = 10 /\ BitField["requester"][1] = 6
      /\ BitField["opcode"][1] = 0
  BY DEF BitField
<1> QED BY <1>1, <1>2, SMT DEF InPlace

LEMMA Widths ==
    /\ 2 ^ BitField["priority"][2] = 8 /\ 2 ^ BitField["class"][2] = 16
    /\ 2 ^ BitField["node"][2] = 256 /\ 2 ^ BitField["target"][2] = 16
    /\ 2 ^ BitField["token"][2] = 4096 /\ 2 ^ BitField["requester"][2] = 16
    /\ 2 ^ BitField["opcode"][2] = 64
<1>1. 2 ^ 3 = 8 /\ 2 ^ 4 = 16 /\ 2 ^ 8 = 256 /\ 2 ^ 12 = 4096 /\ 2 ^ 6 = 64
  BY SMT
<1> QED BY <1>1, SMT DEF BitField

(* The fields of a header. *)
HeaderFields == {"priority", "class", "node", "target", "requester", "opcode"}

LEMMA Positions ==
    /\ 2 ^ BitField["priority"][1] = 67108864 /\ 2 ^ BitField["class"][1] = 4194304
    /\ 2 ^ BitField["node"][1] = 16384 /\ 2 ^ BitField["target"][1] = 1024
    /\ 2 ^ BitField["requester"][1] = 64 /\ 2 ^ BitField["opcode"][1] = 1
<1>1. /\ 2 ^ 26 = 67108864 /\ 2 ^ 22 = 4194304 /\ 2 ^ 14 = 16384 /\ 2 ^ 10 = 1024
      /\ 2 ^ 6 = 64 /\ 2 ^ 0 = 1
  BY SMT
<1> QED BY <1>1, SMT DEF BitField

-----------------------------------------------------------------------------
(* Payloads: writes that do not touch each other, and what shows them. *)

(* A finite set of numbers has a greatest one. *)
LEMMA Greatest ==
    ASSUME NEW n \in Nat, NEW T \in SUBSET (0 .. n), T # {}
    PROVE  Max(T) \in T
<1> DEFINE U == {u \in Nat : n - u \in T}
<1>1. U \subseteq Nat /\ U # {}
  <2>1. PICK t \in T : TRUE
    BY Zenon
  <2>2. t \in 0 .. n
    OBVIOUS
  <2>3. n - t \in Nat /\ n - (n - t) = t
    BY <2>2
  <2>4. n - t \in U
    BY <2>1, <2>3
  <2> QED BY <2>4, Zenon
<1>2. PICK x \in U : \A y \in U : ~(<<y, x>> \in OpToRel(<, Nat))
  <2> HIDE DEF U
  <2> QED BY <1>1, NatLessThanWellFounded, WFMin, Zenon
<1>3. \A y \in U : x <= y
  <2> SUFFICES ASSUME NEW y \in U, ~(x <= y) PROVE FALSE
    OBVIOUS
  <2>1. x \in Nat /\ y \in Nat
    BY <1>1
  <2>2. <<y, x>> \in OpToRel(<, Nat)
    BY <2>1 DEF OpToRel
  <2> QED BY <1>2, <2>2, Zenon
<1>4. \A t \in T : t \in 0 .. n /\ n - t \in Nat /\ n - (n - t) = t
  OBVIOUS
<1>5. \A t \in T : n - t \in U
  BY <1>4
<1>6. x \in Nat /\ n - x \in T
  OBVIOUS
<1>7. \A t \in T : n - x >= t
  BY <1>3, <1>4, <1>5, <1>6
<1> QED BY <1>6, <1>7, Zenon DEF Max

Buffer(n) == [0 .. n - 1 -> Byte]

Writes == Nat \X Seq(Byte)

End(w) == w[1] + Len(w[2])

(* No two writes touch one byte, and none goes beyond byte e. *)
Laid(S, e) ==
    /\ S \subseteq Writes
    /\ \A w \in S : End(w) <= e
    /\ \A w, v \in S : w = v \/ End(w) <= v[1] \/ End(v) <= w[1]

Fills(p, o, v) == \A k \in 1 .. Len(v) : p[o + k - 1] = v[k]

(* The first e bytes of p are what the writes put there, over zeros. *)
Shows(p, S, e) ==
    /\ \A w \in S : Fills(p, w[1], w[2])
    /\ \A i \in 0 .. e - 1 : (\A w \in S : i < w[1] \/ End(w) <= i) => p[i] = 0

LEMMA Added ==
    ASSUME NEW p, NEW S, NEW e \in Nat, Laid(S, e), NEW o \in Nat, e <= o, NEW v \in Seq(Byte)
    PROVE  /\ Laid(S \cup {<<o, v>>}, o + Len(v))
           /\ Shows(p, S \cup {<<o, v>>}, o + Len(v)) <=>
                 Shows(p, S, e) /\ Zero(p, e, o) /\ Fills(p, o, v)
<1> DEFINE new == <<o, v>>
           T == S \cup {new}
<1>1. /\ new \in Writes /\ new[1] = o /\ new[2] = v /\ End(new) = o + Len(v)
      /\ Len(v) \in Nat
  BY LenProperties DEF Writes, End
<1>2. \A w \in S : w \in Writes /\ w[1] \in Nat /\ End(w) \in Nat /\ w[1] <= End(w) /\ End(w) <= e
  BY LenProperties DEF Laid, Writes, End
<1> HIDE DEF new
<1>3. Laid(T, o + Len(v))
  <2>1. \A w \in T : w \in Writes /\ End(w) <= o + Len(v)
    BY <1>1, <1>2
  <2>2. \A w \in S : End(w) <= new[1]
    BY <1>1, <1>2
  <2> QED BY <2>1, <2>2 DEF Laid
<1>4. ASSUME Shows(p, T, o + Len(v))
      PROVE  Shows(p, S, e) /\ Zero(p, e, o) /\ Fills(p, o, v)
  <2>1. Fills(p, o, v) /\ \A w \in S : Fills(p, w[1], w[2])
    BY <1>1, <1>4 DEF Shows
  <2>2. ASSUME NEW i \in 0 .. o - 1, \A w \in S : i < w[1] \/ End(w) <= i
        PROVE  p[i] = 0
    <3>1. i \in 0 .. (o + Len(v)) - 1 /\ \A w \in T : i < w[1] \/ End(w) <= i
      BY <1>1, <2>2
    <3> QED BY <1>4, <3>1 DEF Shows
  <2>3. \A i \in e .. o - 1 : p[i] = 0
    BY <1>2, <2>2
  <2>4. Shows(p, S, e)
    BY <2>1, <2>2 DEF Shows
  <2> QED BY <2>1, <2>3, <2>4 DEF Zero
<1>5. ASSUME Shows(p, S, e), Zero(p, e, o), Fills(p, o, v)
      PROVE  Shows(p, T, o + Len(v))
  <2>1. \A w \in T : Fills(p, w[1], w[2])
    BY <1>1, <1>5 DEF Shows
  <2>2. ASSUME NEW i \in 0 .. (o + Len(v)) - 1, \A w \in T : i < w[1] \/ End(w) <= i
        PROVE  p[i] = 0
    <3>1. i < o
      BY <1>1, <2>2
    <3>2. CASE i < e
      BY <1>5, <2>2, <3>2 DEF Shows
    <3>3. CASE e <= i
      BY <1>5, <3>1, <3>3 DEF Zero
    <3> QED BY <3>2, <3>3
  <2> QED BY <2>1, <2>2 DEF Shows
<1> QED BY <1>3, <1>4, <1>5 DEF new

LEMMA Padded ==
    ASSUME NEW p, NEW S, NEW e \in Nat, Laid(S, e), NEW n \in Nat, e <= n
    PROVE  /\ Laid(S, n)
           /\ Shows(p, S, n) <=> Shows(p, S, e) /\ Zero(p, e, n)
<1>1. \A w \in S : w \in Writes /\ w[1] \in Nat /\ End(w) \in Nat /\ w[1] <= End(w) /\ End(w) <= e
  BY LenProperties DEF Laid, Writes, End
<1>2. Laid(S, n)
  BY <1>1 DEF Laid
<1>3. ASSUME Shows(p, S, n) PROVE Shows(p, S, e) /\ Zero(p, e, n)
  BY <1>1, <1>3 DEF Shows, Zero
<1>4. ASSUME Shows(p, S, e), Zero(p, e, n) PROVE Shows(p, S, n)
  BY <1>1, <1>4 DEF Shows, Zero
<1> QED BY <1>2, <1>3, <1>4

(* Byte i is one of the l bytes from a on, or before them, or after them. *)
LEMMA Span ==
    ASSUME NEW i \in Nat, NEW a \in Nat, NEW l \in Nat
    PROVE  /\ i - a \in 0 .. l - 1 <=> ~(i < a \/ a + l <= i)
           /\ ~(i < a \/ a + l <= i) => i - a + 1 \in 1 .. l /\ a + (i - a + 1) - 1 = i
BY SMT

(* The payload that an encoder fills is the one that shows its writes. *)
LEMMA Payloads ==
    ASSUME NEW n \in Nat, NEW writes \in Seq(Writes), Laid(Range(writes), n)
    PROVE  /\ Payload(n, writes) \in [0 .. n - 1 -> Byte]
           /\ \A p \in [0 .. n - 1 -> Byte] : p = Payload(n, writes) <=> Shows(p, Range(writes), n)
<1> DEFINE Hits(i) == {k \in DOMAIN writes : i - writes[k][1] \in 0 .. Len(writes[k][2]) - 1}
           S == Range(writes)
<1>1. DOMAIN writes = 1 .. Len(writes) /\ Len(writes) \in Nat
  BY LenProperties
<1>2. \A k \in DOMAIN writes : writes[k] \in S /\ writes[k] \in Writes
  BY <1>1 DEF Range, Laid
<1>3. \A w \in S : w \in Writes /\ w[1] \in Nat /\ w[2] \in Seq(Byte) /\ Len(w[2]) \in Nat
          /\ End(w) <= n
  BY LenProperties DEF Laid, Writes
<1>4. ASSUME NEW i \in 0 .. n - 1, Hits(i) = {}
      PROVE  /\ Payload(n, writes)[i] = 0
             /\ \A w \in S : i < w[1] \/ End(w) <= i
  <2>1. Payload(n, writes)[i] = 0
    BY <1>4 DEF Payload
  <2>2. ASSUME NEW w \in S PROVE i < w[1] \/ End(w) <= i
    <3>1. PICK k \in DOMAIN writes : w = writes[k]
      BY DEF Range
    <3>2. ~ (i - w[1] \in 0 .. Len(w[2]) - 1)
      BY <1>4, <3>1
    <3>3. i \in Nat /\ w[1] \in Nat /\ Len(w[2]) \in Nat
      BY <1>3
    <3> QED BY <3>2, <3>3, Span, Zenon DEF End
  <2> QED BY <2>1, <2>2, SMTT(30)
<1>5. ASSUME NEW i \in 0 .. n - 1, Hits(i) # {}
      PROVE  \E w \in S : /\ i - w[1] \in 0 .. Len(w[2]) - 1
                          /\ Payload(n, writes)[i] = w[2][i - w[1] + 1]
  <2>1. Hits(i) \subseteq 0 .. Len(writes)
    BY <1>1
  <2>2. Max(Hits(i)) \in Hits(i)
    <3> HIDE DEF Hits
    <3> QED BY <1>1, <1>5, <2>1, Greatest, Zenon
  <2>3. Payload(n, writes)[i] = writes[Max(Hits(i))][2][i - writes[Max(Hits(i))][1] + 1]
    BY <1>5 DEF Payload
  <2> DEFINE k == Max(Hits(i))
  <2>4. k \in DOMAIN writes /\ i - writes[k][1] \in 0 .. Len(writes[k][2]) - 1
    BY <2>2
  <2> HIDE DEF k
  <2> QED BY <1>2, <2>3, <2>4, Zenon DEF k
<1>6. Payload(n, writes) \in [0 .. n - 1 -> Byte]
  <2>1. ASSUME NEW i \in 0 .. n - 1 PROVE Payload(n, writes)[i] \in Byte
    <3>1. CASE Hits(i) = {}
      BY <1>4, <3>1, SMTT(30) DEF Byte
    <3>2. CASE Hits(i) # {}
      <4>1. PICK w \in S : /\ i - w[1] \in 0 .. Len(w[2]) - 1
                           /\ Payload(n, writes)[i] = w[2][i - w[1] + 1]
        BY <1>5, <3>2, Zenon
      <4>2. PICK l \in Nat, a \in Nat : l = Len(w[2]) /\ a = w[1]
        BY <1>3
      <4>0. i \in Nat
        OBVIOUS
      <4>3. i \in Nat /\ i - a \in 0 .. l - 1
        BY <4>0, <4>1, <4>2, Zenon
      <4>4. w[2] \in [1 .. l -> Byte]
        BY <1>3, <4>2, LenProperties
      <4>5. i - a + 1 \in 1 .. l
        BY <4>3, Span, Zenon
      <4> QED BY <4>1, <4>2, <4>4, <4>5, Zenon
    <3> QED BY <3>1, <3>2
  <2>2. Payload(n, writes) = [i \in 0 .. n - 1 |-> Payload(n, writes)[i]]
    BY DEF Payload
  <2> QED BY <2>1, <2>2
<1>7. Shows(Payload(n, writes), S, n)
  <2> DEFINE q == Payload(n, writes)
  <2>1. ASSUME NEW w \in S PROVE Fills(q, w[1], w[2])
    <3> SUFFICES ASSUME NEW k \in 1 .. Len(w[2]) PROVE q[w[1] + k - 1] = w[2][k]
      BY DEF Fills
    <3> DEFINE i == w[1] + k - 1
    <3>0. PICK a \in Nat, l \in Nat : a = w[1] /\ l = Len(w[2]) /\ End(w) = a + l /\ a + l <= n
      BY <1>3, Zenon DEF End
    <3>1. i \in 0 .. n - 1 /\ i - w[1] + 1 = k /\ ~(i < w[1] \/ End(w) <= i)
      <4>1. a + l <= n /\ k \in 1 .. l
        BY <3>0, Zenon
      <4>2. /\ a + k - 1 \in 0 .. n - 1 /\ (a + k - 1) - a + 1 = k
            /\ ~(a + k - 1 < a \/ a + l <= a + k - 1)
        BY <4>1, SMT
      <4> QED BY <3>0, <4>2, Zenon
    <3> HIDE DEF i
    <3>2. Hits(i) # {}
      BY <1>4, <3>1
    <3>3. PICK v \in S : i - v[1] \in 0 .. Len(v[2]) - 1 /\ q[i] = v[2][i - v[1] + 1]
      BY <1>5, <3>1, <3>2, Zenon
    <3>4. v = w
      <4>1. v = w \/ End(v) <= w[1] \/ End(w) <= v[1]
        BY DEF Laid
      <4>2. v[1] \in Nat /\ Len(v[2]) \in Nat /\ w[1] \in Nat /\ End(w) \in Nat
        BY <1>3 DEF End
      <4>3. PICK c \in Nat, d \in Nat : c = v[1] /\ d = Len(v[2])
        BY <4>2
      <4>4. PICK j \in Nat : j = i
        BY <3>1
      <4>5. j - c \in 0 .. d - 1
        BY <3>3, <4>3, <4>4
      <4>6. c <= j /\ j < c + d
        BY <4>5, SMT
      <4>7. End(v) = c + d
        BY <4>3, Zenon DEF End
      <4> QED BY <3>1, <4>1, <4>2, <4>3, <4>4, <4>6, <4>7, SMTT(30)
    <3> QED BY <3>1, <3>3, <3>4, Zenon DEF i
  <2>2. ASSUME NEW i \in 0 .. n - 1, \A w \in S : i < w[1] \/ End(w) <= i PROVE q[i] = 0
    <3>1. Hits(i) = {}
      <4> SUFFICES ASSUME NEW k \in Hits(i) PROVE FALSE
        OBVIOUS
      <4>1. writes[k] \in S /\ i - writes[k][1] \in 0 .. Len(writes[k][2]) - 1
        BY <1>2
      <4>2. PICK w \in S : w = writes[k]
        BY <4>1, Zenon
      <4>3. i \in Nat
        OBVIOUS
      <4> QED BY <1>3, <2>2, <4>1, <4>2, <4>3, Span, Zenon DEF End
    <3> QED BY <1>4, <3>1
  <2> QED BY <2>1, <2>2 DEF Shows
<1>8. ASSUME NEW p \in [0 .. n - 1 -> Byte], Shows(p, S, n) PROVE p = Payload(n, writes)
  <2> DEFINE q == Payload(n, writes)
  <2>1. ASSUME NEW i \in 0 .. n - 1 PROVE p[i] = q[i]
    <3>1. CASE \A w \in S : i < w[1] \/ End(w) <= i
      BY <1>7, <1>8, <3>1 DEF Shows
    <3>2. ASSUME NEW w \in S, ~(i < w[1] \/ End(w) <= i) PROVE p[i] = q[i]
      <4>0. i \in Nat
        OBVIOUS
      <4>1. PICK a \in Nat, l \in Nat : a = w[1] /\ l = Len(w[2]) /\ End(w) = a + l
        BY <1>3, Zenon DEF End
      <4>2. i - a + 1 \in 1 .. l /\ a + (i - a + 1) - 1 = i
        <5>1. ~(i < a \/ a + l <= i)
          BY <3>2, <4>1, Zenon
        <5> QED BY <4>0, <5>1, Span, Zenon
      <4>3. Fills(p, w[1], w[2]) /\ Fills(q, w[1], w[2])
        BY <1>7, <1>8 DEF Shows
      <4> QED BY <4>1, <4>2, <4>3, Zenon DEF Fills
    <3> QED BY <3>1, <3>2
  <2> QED BY <1>6, <2>1
<1> QED BY <1>6, <1>7, <1>8

-----------------------------------------------------------------------------
(* The bytes of words, versions and single values. *)

LEMMA Words ==
    ASSUME NEW n \in Nat, NEW v \in Word(n)
    PROVE  v \in Seq(Byte) /\ Len(v) = n /\ DOMAIN v = 1 .. n
<1>1. v \in [1 .. n -> Byte]
  BY DEF Word
<1>2. v \in Seq(Byte)
  BY <1>1
<1>3. Len(v) \in Nat /\ DOMAIN v = 1 .. Len(v)
  BY <1>2, LenProperties
<1>4. DOMAIN v = 1 .. n
  BY <1>1
<1>5. PICK l \in Nat : l = Len(v) /\ 1 .. l = 1 .. n
  BY <1>3, <1>4, Zenon
<1>6. l = n
  BY <1>5
<1> QED BY <1>2, <1>4, <1>5, <1>6

LEMMA LittleEndians ==
    ASSUME NEW n \in Nat, NEW v \in Word(n)
    PROVE  /\ LittleEndian(v) \in Word(n)
           /\ LittleEndian(v) = [k \in 1 .. n |-> v[n + 1 - k]]
<1>1. LittleEndian(v) = [k \in 1 .. n |-> v[n + 1 - k]]
  BY Words DEF LittleEndian
<1>2. \A k \in 1 .. n : n + 1 - k \in 1 .. n
  OBVIOUS
<1> QED BY <1>1, <1>2 DEF Word

LEMMA Reads ==
    ASSUME NEW m \in Nat, NEW p \in Buffer(m), NEW o \in Nat, NEW n \in Nat, o + n <= m
    PROVE  Bytes(p, o, n) \in Word(n) /\ ReadLe(p, o, n) \in Word(n)
<1>1. \A k \in 1 .. n : o + k - 1 \in 0 .. m - 1
  OBVIOUS
<1>2. Bytes(p, o, n) \in Word(n)
  BY <1>1 DEF Bytes, Word, Buffer
<1> QED BY <1>2, LittleEndians DEF ReadLe

LEMMA FillsBytes ==
    ASSUME NEW p, NEW o \in Nat, NEW n \in Nat, NEW v \in Word(n)
    PROVE  Fills(p, o, v) <=> v = Bytes(p, o, n)
<1>1. v \in [1 .. n -> Byte] /\ Len(v) = n
  BY Words DEF Word
<1>2. v = Bytes(p, o, n) <=> \A k \in 1 .. n : v[k] = p[o + k - 1]
  BY <1>1 DEF Bytes
<1> QED BY <1>1, <1>2 DEF Fills

LEMMA FillsWord ==
    ASSUME NEW p, NEW o \in Nat, NEW n \in Nat, NEW v \in Word(n)
    PROVE  Fills(p, o, LittleEndian(v)) <=> v = ReadLe(p, o, n)
<1> DEFINE u == LittleEndian(v)
           w == Bytes(p, o, n)
<1>1. u \in Word(n) /\ v \in [1 .. n -> Byte]
  BY LittleEndians DEF Word
<1>2. Fills(p, o, u) <=> u = w
  BY <1>1, FillsBytes
<1>3. u = [k \in 1 .. n |-> v[n + 1 - k]] /\ LittleEndian(w) = [k \in 1 .. n |-> w[n + 1 - k]]
  <2>1. w = [k \in 1 .. n |-> w[k]] /\ DOMAIN w = 1 .. n
    BY DEF Bytes
  <2> DEFINE T == {w[k] : k \in 1 .. n}
  <2>2. w \in [1 .. n -> T]
    BY <2>1
  <2>3. w \in Seq(T)
    BY <2>2
  <2>4. Len(w) = n
    <3>1. PICK l \in Nat : l = Len(w) /\ 1 .. l = 1 .. n
      BY <2>1, <2>3, LenProperties
    <3> QED BY <3>1
  <2>5. LittleEndian(w) = [k \in 1 .. n |-> w[n + 1 - k]]
    BY <2>1, <2>4 DEF LittleEndian
  <2> QED BY <2>5, LittleEndians
<1>4. ReadLe(p, o, n) = LittleEndian(w)
  BY DEF ReadLe
<1>0. w = [k \in 1 .. n |-> w[k]]
  BY DEF Bytes
<1> HIDE DEF u, w
<1>5. \A k \in 1 .. n : n + 1 - k \in 1 .. n /\ n + 1 - (n + 1 - k) = k
  OBVIOUS
<1>6. ASSUME u = w PROVE v = LittleEndian(w)
  <2>1. \A k \in 1 .. n : v[k] = w[n + 1 - k]
    BY <1>3, <1>5, <1>6
  <2> QED BY <1>1, <1>3, <2>1
<1>7. ASSUME v = LittleEndian(w) PROVE u = w
  <2>1. \A k \in 1 .. n : u[k] = w[k]
    BY <1>3, <1>5, <1>7
  <2> QED BY <1>0, <1>1, <1>3, <2>1
<1> QED BY <1>2, <1>4, <1>6, <1>7 DEF u

LEMMA FillsByte ==
    ASSUME NEW p, NEW o \in Nat, NEW b
    PROVE  Fills(p, o, <<b>>) <=> p[o] = b
<1>1. Len(<<b>>) = 1 /\ <<b>>[1] = b /\ 1 .. 1 = {1} /\ o + 1 - 1 = o
  OBVIOUS
<1> QED BY <1>1 DEF Fills

LEMMA Single1 ==
    ASSUME NEW b \in Byte
    PROVE  <<b>> \in Seq(Byte) /\ Len(<<b>>) = 1
OBVIOUS

LEMMA Concatenated ==
    ASSUME NEW s \in Seq(Byte), NEW t \in Seq(Byte)
    PROVE  /\ s \o t \in Seq(Byte) /\ Len(s \o t) = Len(s) + Len(t)
           /\ \A i \in 1 .. Len(s) : (s \o t)[i] = s[i]
           /\ \A i \in 1 .. Len(t) : (s \o t)[Len(s) + i] = t[i]
<1>1. s \o t \in Seq(Byte) /\ Len(s \o t) = Len(s) + Len(t)
  BY ConcatProperties
<1>2. PICK l \in Nat, n \in Nat : l = Len(s) /\ n = Len(t)
  BY LenProperties
<1>3. \A i \in 1 .. l + n : (s \o t)[i] = IF i <= l THEN s[i] ELSE t[i - l]
  BY <1>2, ConcatProperties
<1>4. \A i \in 1 .. l : i \in 1 .. l + n /\ i <= l
  OBVIOUS
<1>5. \A i \in 1 .. n : l + i \in 1 .. l + n /\ ~(l + i <= l) /\ (l + i) - l = i
  OBVIOUS
<1>6. \A i \in 1 .. l : (s \o t)[i] = s[i]
  BY <1>3, <1>4, Zenon
<1>7. \A i \in 1 .. n : (s \o t)[l + i] = t[i]
  BY <1>3, <1>5, Zenon
<1> QED BY <1>1, <1>2, <1>6, <1>7

LEMMA Versions ==
    ASSUME NEW v \in FirmwareVersion
    PROVE  Version(v) \in Seq(Byte) /\ Len(Version(v)) = 6
<1> DEFINE a == LittleEndian(v.major)
           b == LittleEndian(v.minor)
           c == LittleEndian(v.patch)
<1>1. a \in Word(2) /\ b \in Word(2) /\ c \in Word(2)
  BY LittleEndians DEF FirmwareVersion
<1>2. /\ a \in Seq(Byte) /\ b \in Seq(Byte) /\ c \in Seq(Byte)
      /\ Len(a) = 2 /\ Len(b) = 2 /\ Len(c) = 2
  BY <1>1, Words, Zenon
<1> HIDE DEF a, b, c
<1>3. Len(a \o b) = Len(a) + Len(b) /\ a \o b \in Seq(Byte)
  BY <1>2, Concatenated, Zenon
<1>4. Len((a \o b) \o c) = Len(a \o b) + Len(c) /\ (a \o b) \o c \in Seq(Byte)
  BY <1>2, <1>3, Concatenated
<1>5. Len((a \o b) \o c) = 6
  BY <1>2, <1>3, <1>4
<1> QED BY <1>4, <1>5 DEF Version, a, b, c

LEMMA ReadsVersion ==
    ASSUME NEW m \in Nat, NEW p \in Buffer(m), NEW o \in Nat, o + 6 <= m
    PROVE  ReadVersion(p, o) \in FirmwareVersion
BY Reads DEF FirmwareVersion, ReadVersion

LEMMA FillsVersion ==
    ASSUME NEW p, NEW o \in Nat, NEW v \in FirmwareVersion
    PROVE  Fills(p, o, Version(v)) <=> v = ReadVersion(p, o)
<1> DEFINE a == LittleEndian(v.major)
           b == LittleEndian(v.minor)
           c == LittleEndian(v.patch)
<1>1. a \in Word(2) /\ b \in Word(2) /\ c \in Word(2)
  BY LittleEndians DEF FirmwareVersion
<1>2. /\ a \in Seq(Byte) /\ b \in Seq(Byte) /\ c \in Seq(Byte)
      /\ Len(a) = 2 /\ Len(b) = 2 /\ Len(c) = 2
  BY <1>1, Words, Zenon
<1>3. /\ v.major = ReadLe(p, o, 2) <=> Fills(p, o, a)
      /\ v.minor = ReadLe(p, o + 2, 2) <=> Fills(p, o + 2, b)
      /\ v.patch = ReadLe(p, o + 4, 2) <=> Fills(p, o + 4, c)
  BY FillsWord DEF FirmwareVersion
<1>4. v = ReadVersion(p, o) <=> /\ v.major = ReadLe(p, o, 2)
                               /\ v.minor = ReadLe(p, o + 2, 2)
                               /\ v.patch = ReadLe(p, o + 4, 2)
  BY DEF FirmwareVersion, ReadVersion
<1> HIDE DEF a, b, c
<1> DEFINE w == a \o b \o c
<1>6. /\ Len(w) = 6
      /\ w[1] = a[1] /\ w[2] = a[2] /\ w[3] = b[1] /\ w[4] = b[2] /\ w[5] = c[1] /\ w[6] = c[2]
  <2> DEFINE ab == a \o b
  <2>1. /\ Len(ab) = Len(a) + Len(b) /\ ab \in Seq(Byte)
        /\ \A k \in 1 .. Len(a) : ab[k] = a[k]
        /\ \A k \in 1 .. Len(b) : ab[Len(a) + k] = b[k]
    BY <1>2, Concatenated, Zenon
  <2>2. w = ab \o c
    OBVIOUS
  <2> HIDE DEF ab, w
  <2>3. /\ Len(ab \o c) = Len(ab) + Len(c)
        /\ \A k \in 1 .. Len(ab) : (ab \o c)[k] = ab[k]
        /\ \A k \in 1 .. Len(c) : (ab \o c)[Len(ab) + k] = c[k]
    <3>1. ab \in Seq(Byte) /\ c \in Seq(Byte)
      BY <1>2, <2>1
    <3> QED BY <3>1, Concatenated
  <2>4. w[1] = ab[1] /\ w[2] = ab[2] /\ w[3] = ab[3] /\ w[4] = ab[4]
    <3>1. Len(ab) = 4
      BY <1>2, <2>1
    <3>2. \A k \in 1 .. 4 : w[k] = ab[k]
      BY <2>2, <2>3, <3>1
    <3> QED BY <3>2
  <2>5. w[4 + 1] = c[1] /\ w[4 + 2] = c[2] /\ Len(w) = 6
    BY <1>2, <2>1, <2>2, <2>3
  <2>6. ab[1] = a[1] /\ ab[2] = a[2] /\ ab[2 + 1] = b[1] /\ ab[2 + 2] = b[2]
    BY <1>2, <2>1
  <2> QED BY <2>4, <2>5, <2>6
<1> HIDE DEF w
<1>7. Fills(p, o, w) <=> Fills(p, o, a) /\ Fills(p, o + 2, b) /\ Fills(p, o + 4, c)
  <2>1. \A x \in Nat : \A s : Len(s) = 2 => (Fills(p, x, s) <=> p[x] = s[1] /\ p[x + 1] = s[2])
    <3> SUFFICES ASSUME NEW x \in Nat, NEW s, Len(s) = 2
                 PROVE  Fills(p, x, s) <=> p[x] = s[1] /\ p[x + 1] = s[2]
      OBVIOUS
    <3>1. 1 .. Len(s) = {1, 2} /\ x + 1 - 1 = x /\ x + 2 - 1 = x + 1
      OBVIOUS
    <3> QED BY <3>1 DEF Fills
  <2>2. Fills(p, o, w) <=> /\ p[o] = w[1] /\ p[o + 1] = w[2] /\ p[o + 2] = w[3]
                           /\ p[o + 3] = w[4] /\ p[o + 4] = w[5] /\ p[o + 5] = w[6]
    <3>1. 1 .. Len(w) = {1, 2, 3, 4, 5, 6}
      BY <1>6
    <3>2. /\ o + 1 - 1 = o /\ o + 2 - 1 = o + 1 /\ o + 3 - 1 = o + 2
          /\ o + 4 - 1 = o + 3 /\ o + 5 - 1 = o + 4 /\ o + 6 - 1 = o + 5
      OBVIOUS
    <3> QED BY <3>1, <3>2, Zenon DEF Fills
  <2>3. o + 2 \in Nat /\ o + 4 \in Nat /\ (o + 2) + 1 = o + 3 /\ (o + 4) + 1 = o + 5
    OBVIOUS
  <2>4. /\ Fills(p, o, a) <=> p[o] = a[1] /\ p[o + 1] = a[2]
        /\ Fills(p, o + 2, b) <=> p[o + 2] = b[1] /\ p[o + 3] = b[2]
        /\ Fills(p, o + 4, c) <=> p[o + 4] = c[1] /\ p[o + 5] = c[2]
    BY <1>2, <2>1, <2>3
  <2> QED BY <1>6, <2>2, <2>4
<1> QED BY <1>3, <1>4, <1>7 DEF Version, w, a, b, c

-----------------------------------------------------------------------------
(* Writes in the order of their offsets. *)

Put(S, o, v) == S \cup {<<o, v>>}

LEMMA Blank ==
    ASSUME NEW p, NEW e \in Nat
    PROVE  Laid({}, e) /\ (Shows(p, {}, e) <=> Zero(p, 0, e))
BY DEF Laid, Shows, Zero

LEMMA NoGap == ASSUME NEW p, NEW e \in Nat PROVE Zero(p, e, e)
BY DEF Zero

LEMMA PutBytes ==
    ASSUME NEW p, NEW S, NEW o \in Nat, Laid(S, o), NEW v \in Seq(Byte),
           NEW e \in Nat, o + Len(v) <= e
    PROVE  /\ Laid(Put(S, o, v), e)
           /\ Shows(p, Put(S, o, v), e) <=>
                 Shows(p, S, o) /\ Fills(p, o, v) /\ Zero(p, o + Len(v), e)
<1>1. Len(v) \in Nat /\ o + Len(v) \in Nat
  BY LenProperties
<1>2. /\ Laid(Put(S, o, v), o + Len(v))
      /\ Shows(p, Put(S, o, v), o + Len(v)) <=> Shows(p, S, o) /\ Zero(p, o, o) /\ Fills(p, o, v)
  <2>1. o <= o
    OBVIOUS
  <2> QED BY <2>1, Added, Zenon DEF Put
<1>3. Zero(p, o, o)
  BY DEF Zero
<1>4. /\ Laid(Put(S, o, v), e)
      /\ Shows(p, Put(S, o, v), e) <=>
            Shows(p, Put(S, o, v), o + Len(v)) /\ Zero(p, o + Len(v), e)
  BY <1>1, <1>2, Padded
<1> QED BY <1>2, <1>3, <1>4

LEMMA PutWord ==
    ASSUME NEW p, NEW S, NEW o \in Nat, Laid(S, o),
           NEW n \in Nat, NEW v \in Word(n), NEW e \in Nat, o + n <= e
    PROVE  /\ Laid(Put(S, o, LittleEndian(v)), e)
           /\ Shows(p, Put(S, o, LittleEndian(v)), e) <=>
                 Shows(p, S, o) /\ v = ReadLe(p, o, n) /\ Zero(p, o + n, e)
<1>1. LittleEndian(v) \in Seq(Byte) /\ Len(LittleEndian(v)) = n
  BY LittleEndians, Words
<1>2. Fills(p, o, LittleEndian(v)) <=> v = ReadLe(p, o, n)
  BY FillsWord
<1> QED BY <1>1, <1>2, PutBytes, Zenon

LEMMA PutUid ==
    ASSUME NEW p, NEW S, NEW o \in Nat, Laid(S, o),
           NEW n \in Nat, NEW v \in Word(n), NEW e \in Nat, o + n <= e
    PROVE  /\ Laid(Put(S, o, v), e)
           /\ Shows(p, Put(S, o, v), e) <=>
                 Shows(p, S, o) /\ v = Bytes(p, o, n) /\ Zero(p, o + n, e)
<1>1. v \in Seq(Byte) /\ Len(v) = n
  BY Words
<1>2. Fills(p, o, v) <=> v = Bytes(p, o, n)
  BY FillsBytes
<1> QED BY <1>1, <1>2, PutBytes, Zenon

LEMMA PutByte ==
    ASSUME NEW p, NEW S, NEW o \in Nat, Laid(S, o), NEW b \in Byte,
           NEW e \in Nat, o + 1 <= e
    PROVE  /\ Laid(Put(S, o, <<b>>), e)
           /\ Shows(p, Put(S, o, <<b>>), e) <=>
                 Shows(p, S, o) /\ p[o] = b /\ Zero(p, o + 1, e)
<1>1. <<b>> \in Seq(Byte) /\ Len(<<b>>) = 1
  BY Single1
<1>2. Fills(p, o, <<b>>) <=> p[o] = b
  BY FillsByte
<1> QED BY <1>1, <1>2, PutBytes, Zenon

LEMMA PutVersion ==
    ASSUME NEW p, NEW S, NEW o \in Nat, Laid(S, o),
           NEW v \in FirmwareVersion, NEW e \in Nat, o + 6 <= e
    PROVE  /\ Laid(Put(S, o, Version(v)), e)
           /\ Shows(p, Put(S, o, Version(v)), e) <=>
                 Shows(p, S, o) /\ v = ReadVersion(p, o) /\ Zero(p, o + 6, e)
<1>1. Version(v) \in Seq(Byte) /\ Len(Version(v)) = 6
  BY Versions
<1>2. Fills(p, o, Version(v)) <=> v = ReadVersion(p, o)
  BY FillsVersion
<1> QED BY <1>1, <1>2, PutBytes, Zenon

-----------------------------------------------------------------------------
(* The digits of an identifier. *)

Identifier == {i \in Nat : i < 536870912}

LEMMA Quotients ==
    ASSUME NEW i \in Identifier
    PROVE  /\ i = 64 * (i \div 64) + (i % 64)
           /\ i \div 64 = 16 * (i \div 1024) + ((i \div 64) % 16)
           /\ i \div 1024 = 16 * (i \div 16384) + ((i \div 1024) % 16)
           /\ i \div 1024 = 4096 * (i \div 4194304) + ((i \div 1024) % 4096)
           /\ i \div 16384 = 256 * (i \div 4194304) + ((i \div 16384) % 256)
           /\ i \div 4194304 = 16 * (i \div 67108864) + ((i \div 4194304) % 16)
           /\ i \div 67108864 = (i \div 67108864) % 8
           /\ i \div 67108864 \in Nat
           /\ i % 64 \in 0 .. 63 /\ (i \div 64) % 16 \in 0 .. 15
           /\ (i \div 1024) % 16 \in 0 .. 15 /\ (i \div 1024) % 4096 \in 0 .. 4095
           /\ (i \div 16384) % 256 \in 0 .. 255 /\ (i \div 4194304) % 16 \in 0 .. 15
<1> USE DEF Identifier
<1>1. i = 64 * (i \div 64) + (i % 64) /\ i % 64 \in 0 .. 63
  BY SMT
<1>2. i \div 64 = 16 * (i \div 1024) + ((i \div 64) % 16) /\ (i \div 64) % 16 \in 0 .. 15
  BY SMT
<1>3. i \div 1024 = 16 * (i \div 16384) + ((i \div 1024) % 16) /\ (i \div 1024) % 16 \in 0 .. 15
  BY SMT
<1>4. /\ i \div 1024 = 4096 * (i \div 4194304) + ((i \div 1024) % 4096)
      /\ (i \div 1024) % 4096 \in 0 .. 4095
  BY SMT
<1>5. /\ i \div 16384 = 256 * (i \div 4194304) + ((i \div 16384) % 256)
      /\ (i \div 16384) % 256 \in 0 .. 255
  BY SMT
<1>6. /\ i \div 4194304 = 16 * (i \div 67108864) + ((i \div 4194304) % 16)
      /\ (i \div 4194304) % 16 \in 0 .. 15
  BY SMT
<1>7. i \div 67108864 = (i \div 67108864) % 8 /\ i \div 67108864 \in Nat
  BY SMT
<1> QED BY <1>1, <1>2, <1>3, <1>4, <1>5, <1>6, <1>7

(* The fields of an identifier. *)
Marked(id, priority, class, node, target, requester, opcode) ==
    /\ Bits(id, "priority") = priority /\ Bits(id, "class") = class
    /\ Bits(id, "node") = node /\ Bits(id, "target") = target
    /\ Bits(id, "requester") = requester /\ Bits(id, "opcode") = opcode

TokenMarked(id, priority, class, token, requester, opcode) ==
    /\ Bits(id, "priority") = priority /\ Bits(id, "class") = class
    /\ Bits(id, "token") = token
    /\ Bits(id, "requester") = requester /\ Bits(id, "opcode") = opcode

Composed(priority, class, node, target, requester, opcode) ==
    67108864 * priority + 4194304 * class + 16384 * node + 1024 * target + 64 * requester + opcode

TokenComposed(priority, class, token, requester, opcode) ==
    67108864 * priority + 4194304 * class + 1024 * token + 64 * requester + opcode

LEMMA FieldsOf ==
    ASSUME NEW i \in Identifier
    PROVE  /\ Bits(i, "priority") = (i \div 67108864) % 8
           /\ Bits(i, "class") = (i \div 4194304) % 16
           /\ Bits(i, "node") = (i \div 16384) % 256
           /\ Bits(i, "target") = (i \div 1024) % 16
           /\ Bits(i, "token") = (i \div 1024) % 4096
           /\ Bits(i, "requester") = (i \div 64) % 16
           /\ Bits(i, "opcode") = i % 64
<1>1. i \in Nat
  BY DEF Identifier
<1> QED BY <1>1, Fields, SMT

LEMMA Digits ==
    ASSUME NEW i \in Identifier, NEW a \in 0 .. 7, NEW b \in 0 .. 15, NEW c \in 0 .. 255,
           NEW d \in 0 .. 15, NEW e \in 0 .. 15, NEW g \in 0 .. 63
    PROVE  i = Composed(a, b, c, d, e, g) <=> Marked(i, a, b, c, d, e, g)
<1> DEFINE G == i % 64
           F == (i \div 64) % 16
           D == (i \div 1024) % 16
           C == (i \div 16384) % 256
           B == (i \div 4194304) % 16
           A == (i \div 67108864) % 8
<1>1. i = 67108864 * A + 4194304 * B + 16384 * C + 1024 * D + 64 * F + G
  BY Quotients, SMTT(30) DEF Identifier
<1>2. A \in Nat /\ B \in 0 .. 15 /\ C \in 0 .. 255 /\ D \in 0 .. 15 /\ F \in 0 .. 15
          /\ G \in 0 .. 63
  BY Quotients
<1> HIDE DEF A, B, C, D, F, G
<1>3. ASSUME i = 67108864 * a + 4194304 * b + 16384 * c + 1024 * d + 64 * e + g
      PROVE  A = a /\ B = b /\ C = c /\ D = d /\ F = e /\ G = g
  BY <1>1, <1>2, <1>3, SMT
<1>4. /\ Bits(i, "priority") = A /\ Bits(i, "class") = B /\ Bits(i, "node") = C
      /\ Bits(i, "target") = D /\ Bits(i, "requester") = F /\ Bits(i, "opcode") = G
  BY FieldsOf, SMT DEF A, B, C, D, F, G
<1> QED BY <1>1, <1>3, <1>4, SMT DEF Composed, Marked

LEMMA SameDigits ==
    ASSUME NEW a \in Nat, NEW b \in Nat, b < 16, NEW c \in Nat, c < 4096,
           NEW e \in Nat, e < 16, NEW g \in Nat, g < 64,
           NEW A \in Nat, NEW B \in Nat, B < 16, NEW C \in Nat, C < 4096,
           NEW F \in Nat, F < 16, NEW G \in Nat, G < 64,
           67108864 * a + 4194304 * b + 1024 * c + 64 * e + g
               = 67108864 * A + 4194304 * B + 1024 * C + 64 * F + G
    PROVE  A = a /\ B = b /\ C = c /\ F = e /\ G = g
BY SMTT(30)

(* The tokens that fit their field. *)
Tokens == 0 .. 4095

LEMMA TokenRange == ASSUME NEW i \in Identifier PROVE Bits(i, "token") \in Tokens
<1>1. (i \div 1024) % 4096 \in 0 .. 4095
  BY Quotients
<1>2. Bits(i, "token") = (i \div 1024) % 4096
  BY FieldsOf
<1> QED BY <1>1, <1>2, SMTT(30) DEF Tokens

LEMMA TokenDigits ==
    ASSUME NEW i \in Identifier, NEW a \in 0 .. 7, NEW b \in 0 .. 15, NEW c \in Tokens,
           NEW e \in 0 .. 15, NEW g \in 0 .. 63
    PROVE  i = TokenComposed(a, b, c, e, g) <=> TokenMarked(i, a, b, c, e, g)
<1> DEFINE G == i % 64
           F == (i \div 64) % 16
           C == (i \div 1024) % 4096
           B == (i \div 4194304) % 16
           A == (i \div 67108864) % 8
<1>1. i = 67108864 * A + 4194304 * B + 1024 * C + 64 * F + G
  BY Quotients, SMTT(30) DEF Identifier
<1>2. A \in Nat /\ B \in 0 .. 15 /\ C \in 0 .. 4095 /\ F \in 0 .. 15 /\ G \in 0 .. 63
  BY Quotients
<1> HIDE DEF A, B, C, F, G
<1>3. ASSUME i = 67108864 * a + 4194304 * b + 1024 * c + 64 * e + g
      PROVE  A = a /\ B = b /\ C = c /\ F = e /\ G = g
  <2>1. /\ a \in Nat /\ b \in Nat /\ b < 16 /\ c \in Nat /\ c < 4096
        /\ e \in Nat /\ e < 16 /\ g \in Nat /\ g < 64
    BY DEF Tokens
  <2>2. /\ A \in Nat /\ B \in Nat /\ B < 16 /\ C \in Nat /\ C < 4096
        /\ F \in Nat /\ F < 16 /\ G \in Nat /\ G < 64
    BY <1>2
  <2>3. 67108864 * a + 4194304 * b + 1024 * c + 64 * e + g
            = 67108864 * A + 4194304 * B + 1024 * C + 64 * F + G
    BY <1>1, <1>3
  <2> QED BY <2>1, <2>2, <2>3, SameDigits
<1>4. /\ Bits(i, "priority") = A /\ Bits(i, "class") = B /\ Bits(i, "token") = C
      /\ Bits(i, "requester") = F /\ Bits(i, "opcode") = G
  BY FieldsOf, SMT DEF A, B, C, F, G
<1> QED BY <1>1, <1>3, <1>4, SMT DEF TokenComposed, TokenMarked

-----------------------------------------------------------------------------
(* Frames. *)

Frame == [id : Identifier, payload : UNION {Buffer(n) : n \in CanFdLengths}]

LEMMA Lengths ==
    ASSUME NEW n \in Nat, NEW p \in Buffer(n)
    PROVE  Length(p) = n
<1>1. DOMAIN p \cup {-1} = -1 .. n - 1
  BY DEF Buffer
<1>2. n - 1 \in -1 .. n - 1 /\ \A y \in -1 .. n - 1 : n - 1 >= y
  OBVIOUS
<1>3. \A x \in -1 .. n - 1 : (\A y \in -1 .. n - 1 : x >= y) => x = n - 1
  <2> SUFFICES ASSUME NEW x \in -1 .. n - 1, \A y \in -1 .. n - 1 : x >= y PROVE x = n - 1
    OBVIOUS
  <2>1. x >= n - 1
    BY <1>2
  <2> QED BY <2>1
<1>4. Max(-1 .. n - 1) = n - 1
  BY <1>2, <1>3 DEF Max
<1>5. Length(p) = Max(-1 .. n - 1) + 1
  BY <1>1, Zenon DEF Length
<1> QED BY <1>4, <1>5

LEMMA Payloaded ==
    ASSUME NEW f \in Frame, NEW n \in Nat, Length(f.payload) = n
    PROVE  f.payload \in Buffer(n)
<1>1. PICK k \in CanFdLengths : f.payload \in Buffer(k)
  BY DEF Frame
<1>2. k \in Nat
  BY DEF CanFdLengths
<1>3. k = n
  BY <1>1, <1>2, Lengths, SMTT(30)
<1> QED BY <1>1, <1>3

(* The fields of an identifier are as wide as their types. *)
LEMMA Ranges ==
    ASSUME NEW id \in Identifier
    PROVE  /\ Bits(id, "priority") \in 0 .. 7 /\ Bits(id, "class") \in 0 .. 15
           /\ Bits(id, "node") \in 0 .. 255 /\ Bits(id, "target") \in 0 .. 15
           /\ Bits(id, "token") \in 0 .. 4095 /\ Bits(id, "requester") \in 0 .. 15
           /\ Bits(id, "opcode") \in 0 .. 63
<1>1. id \in Nat
  BY DEF Identifier
<1>2. (id \div 67108864) % 8 \in 0 .. 7
  BY <1>1, SMT
<1>3. /\ id % 64 \in 0 .. 63 /\ (id \div 64) % 16 \in 0 .. 15
      /\ (id \div 1024) % 16 \in 0 .. 15 /\ (id \div 1024) % 4096 \in 0 .. 4095
      /\ (id \div 16384) % 256 \in 0 .. 255 /\ (id \div 4194304) % 16 \in 0 .. 15
  BY Quotients, SMT
<1>4. /\ Bits(id, "priority") = (id \div 67108864) % 8
      /\ Bits(id, "class") = (id \div 4194304) % 16
      /\ Bits(id, "node") = (id \div 16384) % 256
      /\ Bits(id, "target") = (id \div 1024) % 16
      /\ Bits(id, "token") = (id \div 1024) % 4096
      /\ Bits(id, "requester") = (id \div 64) % 16
      /\ Bits(id, "opcode") = id % 64
  BY <1>1, Fields, SMT
<1> QED BY <1>2, <1>3, <1>4, SMTT(30)

LEMMA FitsMeans ==
    ASSUME NEW h, DOMAIN h = HeaderFields
    PROVE  Fits(h) <=> /\ h.priority \in 0 .. 7 /\ h.class \in 0 .. 15 /\ h.node \in 0 .. 255
                       /\ h.target \in 0 .. 15 /\ h.requester \in 0 .. 15 /\ h.opcode \in 0 .. 63
<1>1. Fits(h) <=> \A x \in HeaderFields : h[x] \in 0 .. 2 ^ BitField[x][2] - 1
  BY DEF Fits
<1> QED BY <1>1, Widths, SMTT(30) DEF HeaderFields

LEMMA HeaderInverse ==
    ASSUME NEW id \in Identifier, NEW h, DOMAIN h = HeaderFields, Fits(h)
    PROVE  id = HeaderEncode(h) <=>
               Marked(id, h.priority, h.class, h.node, h.target, h.requester, h.opcode)
<1>1. /\ h.priority \in 0 .. 7 /\ h.class \in 0 .. 15 /\ h.node \in 0 .. 255
      /\ h.target \in 0 .. 15 /\ h.requester \in 0 .. 15 /\ h.opcode \in 0 .. 63
  BY FitsMeans
<1>2. PICK a \in 0 .. 7, b \in 0 .. 15, c \in 0 .. 255, d \in 0 .. 15, e \in 0 .. 15,
          g \in 0 .. 63 :
        /\ a = h.priority /\ b = h.class /\ c = h.node /\ d = h.target
        /\ e = h.requester /\ g = h.opcode
  BY <1>1, Zenon
<1>3. HeaderEncode(h) = Composed(a, b, c, d, e, g)
  <2>1. HeaderEncode(h) = InPlace("priority", a) + InPlace("class", b) + InPlace("node", c)
                              + InPlace("target", d) + InPlace("requester", e)
                              + InPlace("opcode", g)
    BY <1>2 DEF HeaderEncode
  <2>2. /\ a \in Nat /\ b \in Nat /\ c \in Nat /\ d \in Nat /\ e \in Nat /\ g \in Nat
    OBVIOUS
  <2>3. /\ InPlace("priority", a) = 67108864 * a /\ InPlace("class", b) = 4194304 * b
        /\ InPlace("node", c) = 16384 * c /\ InPlace("target", d) = 1024 * d
        /\ InPlace("requester", e) = 64 * e /\ InPlace("opcode", g) = g
    BY <2>2, Places, SMT
  <2> QED BY <2>1, <2>3, SMT DEF Composed
<1>4. id = Composed(a, b, c, d, e, g) <=> Marked(id, a, b, c, d, e, g)
  BY Digits, Zenon
<1> QED BY <1>2, <1>3, <1>4

LEMMA PayloadShown ==
    ASSUME NEW f \in Frame, NEW len \in CanFdLengths,
           NEW writes \in Seq(Writes), Laid(Range(writes), len)
    PROVE  f.payload = Payload(len, writes) <=>
               Length(f.payload) = len /\ Shows(f.payload, Range(writes), len)
<1>1. len \in Nat
  BY DEF CanFdLengths
<1>2. /\ Payload(len, writes) \in Buffer(len)
      /\ \A p \in Buffer(len) : p = Payload(len, writes) <=> Shows(p, Range(writes), len)
  BY <1>1, Payloads DEF Buffer
<1>3. Length(Payload(len, writes)) = len
  BY <1>1, <1>2, Lengths
<1>4. Length(f.payload) = len => f.payload \in Buffer(len)
  BY <1>1, Payloaded
<1> QED BY <1>2, <1>3, <1>4

(* What it takes of a frame to be one that this header and these writes make. *)
LEMMA FramedMeans ==
    ASSUME NEW f \in Frame, NEW h, DOMAIN h = HeaderFields, NEW len \in CanFdLengths,
           NEW writes \in Seq(Writes), Laid(Range(writes), len)
    PROVE  f \in Framed(h, len, writes) <=>
               /\ Fits(h) /\ h.node # INVALID_NODE
               /\ Marked(f.id, h.priority, h.class, h.node, h.target, h.requester, h.opcode)
               /\ Length(f.payload) = len
               /\ Shows(f.payload, Range(writes), len)
<1>2. f.id \in Identifier
  BY DEF Frame
<1>3. f \in Framed(h, len, writes) <=>
          /\ h.node # INVALID_NODE /\ Fits(h)
          /\ f = [id |-> HeaderEncode(h), payload |-> Payload(len, writes)]
  BY DEF Framed, HeaderNew, When
<1>4. f = [id |-> HeaderEncode(h), payload |-> Payload(len, writes)] <=>
          f.id = HeaderEncode(h) /\ f.payload = Payload(len, writes)
  BY DEF Frame
<1>5. f.payload = Payload(len, writes) <=>
          Length(f.payload) = len /\ Shows(f.payload, Range(writes), len)
  BY PayloadShown
<1>6. Fits(h) => (f.id = HeaderEncode(h) <=>
          Marked(f.id, h.priority, h.class, h.node, h.target, h.requester, h.opcode))
  BY <1>2, HeaderInverse
<1> QED BY <1>3, <1>4, <1>5, <1>6

(* A frame has one header at most. *)
LEMMA HeaderDecodes ==
    ASSUME NEW id \in Identifier, NEW h
    PROVE  h \in HeaderDecode(id) <=>
               /\ h = Header(id) /\ Bits(id, "class") \in Classes
               /\ Bits(id, "node") # INVALID_NODE
<1>1. DOMAIN Header(id) = HeaderFields
  BY DEF Header, HeaderFields
<1>2. /\ Header(id).priority = Bits(id, "priority") /\ Header(id).class = Bits(id, "class")
      /\ Header(id).node = Bits(id, "node") /\ Header(id).target = Bits(id, "target")
      /\ Header(id).requester = Bits(id, "requester") /\ Header(id).opcode = Bits(id, "opcode")
  BY DEF Header
<1>3. Fits(Header(id))
  <2>1. /\ Bits(id, "priority") \in 0 .. 7 /\ Bits(id, "class") \in 0 .. 15
        /\ Bits(id, "node") \in 0 .. 255 /\ Bits(id, "target") \in 0 .. 15
        /\ Bits(id, "requester") \in 0 .. 15 /\ Bits(id, "opcode") \in 0 .. 63
    BY Ranges, SMT
  <2> QED BY <1>1, <1>2, <2>1, FitsMeans
<1>4. HeaderDecode(id) = IF Header(id).class \in Classes THEN HeaderNew(Header(id)) ELSE {}
  BY DEF HeaderDecode, Header
<1>5. h \in HeaderDecode(id) <=>
         Header(id).class \in Classes /\ h = Header(id) /\ Header(id).node # INVALID_NODE
  BY <1>3, <1>4 DEF HeaderNew, When
<1> QED BY <1>2, <1>5

LEMMA HeaderFieldsOf ==
    ASSUME NEW id
    PROVE  /\ Header(id).priority = Bits(id, "priority") /\ Header(id).class = Bits(id, "class")
           /\ Header(id).node = Bits(id, "node") /\ Header(id).target = Bits(id, "target")
           /\ Header(id).requester = Bits(id, "requester") /\ Header(id).opcode = Bits(id, "opcode")
BY DEF Header

LEMMA NodeTags ==
    ASSUME NEW f \in Frame, NEW priority, NEW class, MessageClass[class] \in Classes, NEW opcode,
           NEW len, NEW h
    PROVE  /\ h \in NodeMessage(f, priority, class, opcode, len) <=>
                /\ h = Header(f.id)
                /\ Marked(f.id, priority, MessageClass[class], Bits(f.id, "node"), NODE_TARGET,
                          PROTOCOL, opcode)
                /\ ValidNodeId(Bits(f.id, "node"))
                /\ Length(f.payload) = len
           /\ h \in ScopedNodeMessage(f, priority, class, opcode, len) <=>
                /\ h = Header(f.id)
                /\ Marked(f.id, priority, MessageClass[class], Bits(f.id, "node"), NODE_TARGET,
                          Bits(f.id, "requester"), opcode)
                /\ ValidNodeId(Bits(f.id, "node")) /\ HostRequester(Bits(f.id, "requester"))
                /\ Length(f.payload) = len
<1>1. f.id \in Identifier
  BY DEF Frame
<1>2. h \in HeaderDecode(f.id) <=> /\ h = Header(f.id) /\ Bits(f.id, "class") \in Classes
                                   /\ Bits(f.id, "node") # INVALID_NODE
  BY <1>1, HeaderDecodes
<1>3. \A n : ValidNodeId(n) => n # INVALID_NODE
  BY DEF ValidNodeId, INVALID_NODE
<1>4. h \in NodeMessage(f, priority, class, opcode, len) <=>
        /\ h \in HeaderDecode(f.id) /\ IsProtocolHeader(h, priority, class, opcode)
        /\ ValidNodeId(h.node) /\ h.target = NODE_TARGET /\ Length(f.payload) = len
  BY DEF NodeMessage
<1>5. h \in ScopedNodeMessage(f, priority, class, opcode, len) <=>
        /\ h \in HeaderDecode(f.id) /\ h.class = MessageClass[class] /\ h.opcode = opcode
        /\ h.priority = priority /\ HostRequester(h.requester)
        /\ ValidNodeId(h.node) /\ h.target = NODE_TARGET /\ Length(f.payload) = len
  BY DEF ScopedNodeMessage
<1> QED BY <1>2, <1>3, <1>4, <1>5, HeaderFieldsOf DEF IsProtocolHeader, Marked

(* What the fields of an encoder's header, and the length it fills, may be. *)
Proper(priority, class, node, target, requester, opcode, len) ==
    /\ priority \in 0 .. 7 /\ class \in 0 .. 15 /\ node \in 0 .. 254 /\ target \in 0 .. 15
    /\ requester \in 0 .. 15 /\ opcode \in 0 .. 63 /\ len \in CanFdLengths

LEMMA ScopedFramed ==
    ASSUME NEW f \in Frame, NEW priority, NEW class, NEW node, NEW target, NEW requester,
           NEW opcode, NEW len, Proper(priority, class, node, target, requester, opcode, len),
           NEW writes \in Seq(Writes), Laid(Range(writes), len)
    PROVE  f \in Framed([priority |-> priority, class |-> class, node |-> node,
                         target |-> target, requester |-> requester, opcode |-> opcode],
                        len, writes) <=>
               /\ Marked(f.id, priority, class, node, target, requester, opcode)
               /\ Length(f.payload) = len /\ Shows(f.payload, Range(writes), len)
<1> DEFINE h == [priority |-> priority, class |-> class, node |-> node,
                 target |-> target, requester |-> requester, opcode |-> opcode]
<1>1. /\ DOMAIN h = HeaderFields
      /\ h.priority = priority /\ h.class = class /\ h.node = node
      /\ h.target = target /\ h.requester = requester /\ h.opcode = opcode
  BY DEF HeaderFields
<1>2. node \in 0 .. 255 /\ node # INVALID_NODE
  BY DEF INVALID_NODE, Proper
<1> HIDE DEF h
<1>3. Fits(h) /\ h.node # INVALID_NODE
  BY <1>1, <1>2, FitsMeans, Zenon DEF Proper
<1>4. len \in CanFdLengths
  BY DEF Proper
<1>5. f \in Framed(h, len, writes) <=>
               /\ Fits(h) /\ h.node # INVALID_NODE
               /\ Marked(f.id, h.priority, h.class, h.node, h.target, h.requester, h.opcode)
               /\ Length(f.payload) = len
               /\ Shows(f.payload, Range(writes), len)
  BY <1>1, <1>4, FramedMeans
<1> QED BY <1>1, <1>3, <1>5 DEF h

LEMMA NodeFramed ==
    ASSUME NEW f \in Frame, NEW priority, NEW class, NEW node, NEW target,
           NEW opcode, NEW len,
           Proper(priority, MessageClass[class], node, target, PROTOCOL, opcode, len),
           NEW writes \in Seq(Writes), Laid(Range(writes), len)
    PROVE  f \in Framed(ProtocolHeader(priority, class, node, target, opcode), len, writes) <=>
               /\ Marked(f.id, priority, MessageClass[class], node, target, PROTOCOL, opcode)
               /\ Length(f.payload) = len /\ Shows(f.payload, Range(writes), len)
BY ScopedFramed DEF ProtocolHeader

LEMMA LegalClasses ==
    \A c \in DOMAIN MessageClass : MessageClass[c] \in Classes /\ MessageClass[c] \in 0 .. 15
BY DEF Classes, MessageClass

-----------------------------------------------------------------------------
(* Telemetry, state and acknowledgements: the payloads, then the round trips. *)

LEMMA Widened ==
    ASSUME NEW W, W \in Seq(Range(W)), Range(W) \subseteq Writes
    PROVE  W \in Seq(Writes)
<1>1. \A i \in 1 .. Len(W) : W[i] \in Writes
  <2>1. DOMAIN W = 1 .. Len(W)
    BY LenProperties
  <2> QED BY <2>1 DEF Range
<1>2. W = [i \in 1 .. Len(W) |-> W[i]] /\ Len(W) \in Nat
  BY LenProperties
<1> QED BY <1>1, <1>2, SeqDef

LEMMA HeartbeatLayout ==
    ASSUME NEW m \in Heartbeat, NEW p
    PROVE  LET W == <<<<0, LittleEndian(m.sequence)>>, <<2, <<m.service>>>>, <<3, <<m.update>>>>,
                      <<4, LittleEndian(m.faults)>>, <<8, LittleEndian(m.uptime)>>>>
           IN  /\ W \in Seq(Writes) /\ Laid(Range(W), 16)
               /\ Shows(p, Range(W), 16) <=>
                     /\ m.sequence = ReadLe(p, 0, 2)
                     /\ p[2] = m.service
                     /\ p[3] = m.update
                     /\ m.faults = ReadLe(p, 4, 4)
                     /\ m.uptime = ReadLe(p, 8, 4)
                     /\ Zero(p, 12, 16)
<1> DEFINE a == LittleEndian(m.sequence)
           b == <<m.service>>
           c == <<m.update>>
           d == LittleEndian(m.faults)
           e == LittleEndian(m.uptime)
           W == <<<<0, a>>, <<2, b>>, <<3, c>>, <<4, d>>, <<8, e>>>>
           A == Put({}, 0, a)
           B == Put(A, 2, b)
           C == Put(B, 3, c)
           D == Put(C, 4, d)
           E == Put(D, 8, e)
<1>1. /\ m.sequence \in Word(2) /\ m.service \in Byte /\ m.update \in Byte
      /\ m.faults \in Word(4) /\ m.uptime \in Word(4) /\ 16 \in Nat
  BY DEF Heartbeat, ServiceState, UpdateState, Byte
<1>2. Laid({}, 0) /\ (Shows(p, {}, 0) <=> TRUE)
  BY Blank, NoGap
<1>3. Laid(A, 2) /\ (Shows(p, A, 2) <=> Shows(p, {}, 0) /\ m.sequence = ReadLe(p, 0, 2))
  BY <1>1, <1>2, PutWord, NoGap
<1> HIDE DEF A
<1>4. Laid(B, 3) /\ (Shows(p, B, 3) <=> Shows(p, A, 2) /\ p[2] = m.service)
  BY <1>1, <1>3, PutByte, NoGap
<1> HIDE DEF B
<1>5. Laid(C, 4) /\ (Shows(p, C, 4) <=> Shows(p, B, 3) /\ p[3] = m.update)
  BY <1>1, <1>4, PutByte, NoGap
<1> HIDE DEF C
<1>6. Laid(D, 8) /\ (Shows(p, D, 8) <=> Shows(p, C, 4) /\ m.faults = ReadLe(p, 4, 4))
  BY <1>1, <1>5, PutWord, NoGap
<1> HIDE DEF D
<1>7. /\ Laid(E, 16)
      /\ Shows(p, E, 16) <=> Shows(p, D, 8) /\ m.uptime = ReadLe(p, 8, 4) /\ Zero(p, 12, 16)
  BY <1>1, <1>6, PutWord
<1> HIDE DEF E
<1> HIDE DEF a, b, c, d, e
<1>8. Range(W) = E
  BY DEF A, B, C, D, E, Put, Range
<1>9. E \subseteq Writes
  BY <1>7 DEF Laid
<1>10. W \in Seq(Writes)
  BY <1>8, <1>9 DEF Range
<1> QED BY <1>2, <1>3, <1>4, <1>5, <1>6, <1>7, <1>8, <1>10 DEF a, b, c, d, e

LEMMA PowerLayout ==
    ASSUME NEW m \in PowerTelemetry, NEW p
    PROVE  LET W == <<<<0, LittleEndian(m.sequence)>>, <<2, <<m.source>>>>, <<4,
        LittleEndian(m.voltage)>>,
                      <<8, LittleEndian(m.current)>>, <<12, LittleEndian(m.power)>>>>
           IN  /\ W \in Seq(Writes) /\ Laid(Range(W), 16)
               /\ Shows(p, Range(W), 16) <=>
                     /\ m.sequence = ReadLe(p, 0, 2)
                     /\ p[2] = m.source
                     /\ Zero(p, 3, 4)
                     /\ m.voltage = ReadLe(p, 4, 4)
                     /\ m.current = ReadLe(p, 8, 4)
                     /\ m.power = ReadLe(p, 12, 4)
<1> DEFINE a == LittleEndian(m.sequence)
           b == <<m.source>>
           c == LittleEndian(m.voltage)
           d == LittleEndian(m.current)
           e == LittleEndian(m.power)
           W == <<<<0, a>>, <<2, b>>, <<4, c>>, <<8, d>>, <<12, e>>>>
           A == Put({}, 0, a)
           B == Put(A, 2, b)
           C == Put(B, 4, c)
           D == Put(C, 8, d)
           E == Put(D, 12, e)
<1>1. /\ m.sequence \in Word(2) /\ m.source \in Byte /\ m.voltage \in Word(4)
      /\ m.current \in Word(4) /\ m.power \in Word(4) /\ 16 \in Nat
  BY DEF PowerTelemetry, PowerSource, Byte
<1>2. Laid({}, 0) /\ (Shows(p, {}, 0) <=> TRUE)
  BY Blank, NoGap
<1>3. Laid(A, 2) /\ (Shows(p, A, 2) <=> Shows(p, {}, 0) /\ m.sequence = ReadLe(p, 0, 2))
  BY <1>1, <1>2, PutWord, NoGap
<1> HIDE DEF A
<1>4. Laid(B, 4) /\ (Shows(p, B, 4) <=> Shows(p, A, 2) /\ p[2] = m.source /\ Zero(p, 3, 4))
  BY <1>1, <1>3, PutByte
<1> HIDE DEF B
<1>5. Laid(C, 8) /\ (Shows(p, C, 8) <=> Shows(p, B, 4) /\ m.voltage = ReadLe(p, 4, 4))
  BY <1>1, <1>4, PutWord, NoGap
<1> HIDE DEF C
<1>6. Laid(D, 12) /\ (Shows(p, D, 12) <=> Shows(p, C, 8) /\ m.current = ReadLe(p, 8, 4))
  BY <1>1, <1>5, PutWord, NoGap
<1> HIDE DEF D
<1>7. Laid(E, 16) /\ (Shows(p, E, 16) <=> Shows(p, D, 12) /\ m.power = ReadLe(p, 12, 4))
  BY <1>1, <1>6, PutWord, NoGap
<1> HIDE DEF E
<1> HIDE DEF a, b, c, d, e
<1>8. Range(W) = E
  BY DEF A, B, C, D, E, Put, Range
<1>9. E \subseteq Writes
  BY <1>7 DEF Laid
<1>10. W \in Seq(Writes)
  BY <1>8, <1>9 DEF Range
<1> QED BY <1>2, <1>3, <1>4, <1>5, <1>6, <1>7, <1>8, <1>10 DEF a, b, c, d, e

LEMMA FanStateLayout ==
    ASSUME NEW m \in FanState, NEW p
    PROVE  LET W == <<<<0, LittleEndian(m.sequence)>>, <<2, <<m.duty>>>>, <<3,
        <<Flag(m.stalled)>>>>,
                      <<4, LittleEndian(m.rpm)>>>>
           IN  /\ W \in Seq(Writes) /\ Laid(Range(W), 12)
               /\ Shows(p, Range(W), 12) <=>
                     /\ m.sequence = ReadLe(p, 0, 2)
                     /\ p[2] = m.duty
                     /\ p[3] = Flag(m.stalled)
                     /\ m.rpm = ReadLe(p, 4, 2)
                     /\ Zero(p, 6, 12)
<1> DEFINE a == LittleEndian(m.sequence)
           b == <<m.duty>>
           c == <<Flag(m.stalled)>>
           d == LittleEndian(m.rpm)
           W == <<<<0, a>>, <<2, b>>, <<3, c>>, <<4, d>>>>
           A == Put({}, 0, a)
           B == Put(A, 2, b)
           C == Put(B, 3, c)
           D == Put(C, 4, d)
<1>1. /\ m.sequence \in Word(2) /\ m.duty \in Byte /\ Flag(m.stalled) \in Byte
      /\ m.rpm \in Word(2) /\ 12 \in Nat
  BY DEF FanState, Flag, Byte
<1>2. Laid({}, 0) /\ (Shows(p, {}, 0) <=> TRUE)
  BY Blank, NoGap
<1>3. Laid(A, 2) /\ (Shows(p, A, 2) <=> Shows(p, {}, 0) /\ m.sequence = ReadLe(p, 0, 2))
  BY <1>1, <1>2, PutWord, NoGap
<1> HIDE DEF A
<1>4. Laid(B, 3) /\ (Shows(p, B, 3) <=> Shows(p, A, 2) /\ p[2] = m.duty)
  BY <1>1, <1>3, PutByte, NoGap
<1> HIDE DEF B
<1>5. Laid(C, 4) /\ (Shows(p, C, 4) <=> Shows(p, B, 3) /\ p[3] = Flag(m.stalled))
  BY <1>1, <1>4, PutByte, NoGap
<1> HIDE DEF C
<1>6. /\ Laid(D, 12)
      /\ Shows(p, D, 12) <=> Shows(p, C, 4) /\ m.rpm = ReadLe(p, 4, 2) /\ Zero(p, 6, 12)
  BY <1>1, <1>5, PutWord
<1> HIDE DEF D
<1> HIDE DEF a, b, c, d
<1>7. Range(W) = D
  BY DEF A, B, C, D, Put, Range
<1>8. D \subseteq Writes
  BY <1>6 DEF Laid
<1>9. W \in Seq(Writes)
  BY <1>7, <1>8 DEF Range
<1> QED BY <1>2, <1>3, <1>4, <1>5, <1>6, <1>7, <1>9 DEF a, b, c, d

Flags(m) == Flag(m.output) + 2 * Flag(m.good) + 4 * Flag(m.emergency)

LEMMA NodeStateLayout ==
    ASSUME NEW m \in NodeState, NEW p
    PROVE  LET W == <<<<0, LittleEndian(m.sequence)>>, <<2, <<m.service>>>>, <<3, <<Flags(m)>>>>,
                      <<4, LittleEndian(m.faults)>>, <<8, LittleEndian(m.uptime)>>>>
           IN  /\ W \in Seq(Writes) /\ Laid(Range(W), 16)
               /\ Shows(p, Range(W), 16) <=>
                     /\ m.sequence = ReadLe(p, 0, 2)
                     /\ p[2] = m.service
                     /\ p[3] = Flags(m)
                     /\ m.faults = ReadLe(p, 4, 4)
                     /\ m.uptime = ReadLe(p, 8, 4)
                     /\ Zero(p, 12, 16)
<1> DEFINE a == LittleEndian(m.sequence)
           b == <<m.service>>
           c == <<Flags(m)>>
           d == LittleEndian(m.faults)
           e == LittleEndian(m.uptime)
           W == <<<<0, a>>, <<2, b>>, <<3, c>>, <<4, d>>, <<8, e>>>>
           A == Put({}, 0, a)
           B == Put(A, 2, b)
           C == Put(B, 3, c)
           D == Put(C, 4, d)
           E == Put(D, 8, e)
<1>1. /\ m.sequence \in Word(2) /\ m.service \in Byte /\ Flags(m) \in Byte
      /\ m.faults \in Word(4) /\ m.uptime \in Word(4) /\ 16 \in Nat
  BY DEF NodeState, ServiceState, Flags, Flag, Byte
<1>2. Laid({}, 0) /\ (Shows(p, {}, 0) <=> TRUE)
  BY Blank, NoGap
<1>3. Laid(A, 2) /\ (Shows(p, A, 2) <=> Shows(p, {}, 0) /\ m.sequence = ReadLe(p, 0, 2))
  BY <1>1, <1>2, PutWord, NoGap
<1> HIDE DEF A
<1>4. Laid(B, 3) /\ (Shows(p, B, 3) <=> Shows(p, A, 2) /\ p[2] = m.service)
  BY <1>1, <1>3, PutByte, NoGap
<1> HIDE DEF B
<1>5. Laid(C, 4) /\ (Shows(p, C, 4) <=> Shows(p, B, 3) /\ p[3] = Flags(m))
  BY <1>1, <1>4, PutByte, NoGap
<1> HIDE DEF C
<1>6. Laid(D, 8) /\ (Shows(p, D, 8) <=> Shows(p, C, 4) /\ m.faults = ReadLe(p, 4, 4))
  BY <1>1, <1>5, PutWord, NoGap
<1> HIDE DEF D
<1>7. /\ Laid(E, 16)
      /\ Shows(p, E, 16) <=> Shows(p, D, 8) /\ m.uptime = ReadLe(p, 8, 4) /\ Zero(p, 12, 16)
  BY <1>1, <1>6, PutWord
<1> HIDE DEF E
<1> HIDE DEF a, b, c, d, e
<1>8. Range(W) = E
  BY DEF A, B, C, D, E, Put, Range
<1>9. E \subseteq Writes
  BY <1>7 DEF Laid
<1>10. W \in Seq(Writes)
  BY <1>8, <1>9 DEF Range
<1> QED BY <1>2, <1>3, <1>4, <1>5, <1>6, <1>7, <1>8, <1>10 DEF a, b, c, d, e

LEMMA CommandResponseLayout ==
    ASSUME NEW m \in CommandResponse, NEW p
    PROVE  LET W == <<<<0, LittleEndian(m.request)>>, <<8, <<m.opcode>>>>, <<9, <<m.target>>>>,
        <<10, <<m.result>>>>,
                      <<12, LittleEndian(m.detail)>>>>
           IN  /\ W \in Seq(Writes) /\ Laid(Range(W), 16)
               /\ Shows(p, Range(W), 16) <=>
                     /\ m.request = ReadLe(p, 0, 8)
                     /\ p[8] = m.opcode
                     /\ p[9] = m.target
                     /\ p[10] = m.result
                     /\ Zero(p, 11, 12)
                     /\ m.detail = ReadLe(p, 12, 4)
<1> DEFINE a == LittleEndian(m.request)
           b == <<m.opcode>>
           c == <<m.target>>
           d == <<m.result>>
           e == LittleEndian(m.detail)
           W == <<<<0, a>>, <<8, b>>, <<9, c>>, <<10, d>>, <<12, e>>>>
           A == Put({}, 0, a)
           B == Put(A, 8, b)
           C == Put(B, 9, c)
           D == Put(C, 10, d)
           E == Put(D, 12, e)
<1>1. /\ m.request \in Word(8) /\ m.opcode \in Byte /\ m.target \in Byte /\ m.result \in Byte
      /\ m.detail \in Word(4) /\ 16 \in Nat
  BY DEF CommandResponse, CommandResult, RequestIds, Byte
<1>2. Laid({}, 0) /\ (Shows(p, {}, 0) <=> TRUE)
  BY Blank, NoGap
<1>3. Laid(A, 8) /\ (Shows(p, A, 8) <=> Shows(p, {}, 0) /\ m.request = ReadLe(p, 0, 8))
  BY <1>1, <1>2, PutWord, NoGap
<1> HIDE DEF A
<1>4. Laid(B, 9) /\ (Shows(p, B, 9) <=> Shows(p, A, 8) /\ p[8] = m.opcode)
  BY <1>1, <1>3, PutByte, NoGap
<1> HIDE DEF B
<1>5. Laid(C, 10) /\ (Shows(p, C, 10) <=> Shows(p, B, 9) /\ p[9] = m.target)
  BY <1>1, <1>4, PutByte, NoGap
<1> HIDE DEF C
<1>6. Laid(D, 12) /\ (Shows(p, D, 12) <=> Shows(p, C, 10) /\ p[10] = m.result /\ Zero(p, 11, 12))
  BY <1>1, <1>5, PutByte
<1> HIDE DEF D
<1>7. Laid(E, 16) /\ (Shows(p, E, 16) <=> Shows(p, D, 12) /\ m.detail = ReadLe(p, 12, 4))
  BY <1>1, <1>6, PutWord, NoGap
<1> HIDE DEF E
<1> HIDE DEF a, b, c, d, e
<1>8. Range(W) = E
  BY DEF A, B, C, D, E, Put, Range
<1>9. E \subseteq Writes
  BY <1>7 DEF Laid
<1>10. W \in Seq(Writes)
  BY <1>8, <1>9 DEF Range
<1> QED BY <1>2, <1>3, <1>4, <1>5, <1>6, <1>7, <1>8, <1>10 DEF a, b, c, d, e

LEMMA FirmwareAckLayout ==
    ASSUME NEW m \in FirmwareAck, NEW p
    PROVE  LET W == <<<<0, LittleEndian(m.request)>>, <<8, LittleEndian(m.session)>>, <<12,
        LittleEndian(m.next)>>,
                      <<16, <<m.state>>>>, <<17, <<m.error>>>>, <<18, <<m.window>>>>,
                      <<20, LittleEndian(m.detail)>>>>
           IN  /\ W \in Seq(Writes) /\ Laid(Range(W), 24)
               /\ Shows(p, Range(W), 24) <=>
                     /\ m.request = ReadLe(p, 0, 8)
                     /\ m.session = ReadLe(p, 8, 4)
                     /\ m.next = ReadLe(p, 12, 4)
                     /\ p[16] = m.state
                     /\ p[17] = m.error
                     /\ p[18] = m.window
                     /\ Zero(p, 19, 20)
                     /\ m.detail = ReadLe(p, 20, 4)
<1> DEFINE a == LittleEndian(m.request)
           b == LittleEndian(m.session)
           c == LittleEndian(m.next)
           d == <<m.state>>
           e == <<m.error>>
           f == <<m.window>>
           g == LittleEndian(m.detail)
           W == <<<<0, a>>, <<8, b>>, <<12, c>>, <<16, d>>, <<17, e>>, <<18, f>>, <<20, g>>>>
           A == Put({}, 0, a)
           B == Put(A, 8, b)
           C == Put(B, 12, c)
           D == Put(C, 16, d)
           E == Put(D, 17, e)
           F == Put(E, 18, f)
           G == Put(F, 20, g)
<1>1. /\ m.request \in Word(8) /\ m.session \in Word(4) /\ m.next \in Word(4)
      /\ m.state \in Byte /\ m.error \in Byte /\ m.window \in Byte /\ m.detail \in Word(4)
      /\ 24 \in Nat
  BY DEF FirmwareAck, UpdateState, UpdateError, RequestIds, Byte
<1>2. Laid({}, 0) /\ (Shows(p, {}, 0) <=> TRUE)
  BY Blank, NoGap
<1>3. Laid(A, 8) /\ (Shows(p, A, 8) <=> Shows(p, {}, 0) /\ m.request = ReadLe(p, 0, 8))
  BY <1>1, <1>2, PutWord, NoGap
<1> HIDE DEF A
<1>4. Laid(B, 12) /\ (Shows(p, B, 12) <=> Shows(p, A, 8) /\ m.session = ReadLe(p, 8, 4))
  BY <1>1, <1>3, PutWord, NoGap
<1> HIDE DEF B
<1>5. Laid(C, 16) /\ (Shows(p, C, 16) <=> Shows(p, B, 12) /\ m.next = ReadLe(p, 12, 4))
  BY <1>1, <1>4, PutWord, NoGap
<1> HIDE DEF C
<1>6. Laid(D, 17) /\ (Shows(p, D, 17) <=> Shows(p, C, 16) /\ p[16] = m.state)
  BY <1>1, <1>5, PutByte, NoGap
<1> HIDE DEF D
<1>7. Laid(E, 18) /\ (Shows(p, E, 18) <=> Shows(p, D, 17) /\ p[17] = m.error)
  BY <1>1, <1>6, PutByte, NoGap
<1> HIDE DEF E
<1>8. Laid(F, 20) /\ (Shows(p, F, 20) <=> Shows(p, E, 18) /\ p[18] = m.window /\ Zero(p, 19, 20))
  BY <1>1, <1>7, PutByte
<1> HIDE DEF F
<1>9. Laid(G, 24) /\ (Shows(p, G, 24) <=> Shows(p, F, 20) /\ m.detail = ReadLe(p, 20, 4))
  BY <1>1, <1>8, PutWord, NoGap
<1> HIDE DEF G
<1> HIDE DEF a, b, c, d, e, f, g
<1>10. Range(W) = G
  BY DEF A, B, C, D, E, F, G, Put, Range
<1>11. G \subseteq Writes
  BY <1>9 DEF Laid
<1>12. W \in Seq(Writes)
  BY <1>10, <1>11 DEF Range
<1> QED BY <1>2, <1>3, <1>4, <1>5, <1>6, <1>7, <1>8, <1>9, <1>10, <1>12 DEF a, b, c, d, e, f, g

LEMMA OneByte == ASSUME NEW p, NEW o \in Nat PROVE Zero(p, o, o + 1) <=> p[o] = 0
<1>1. o .. (o + 1) - 1 = {o}
  OBVIOUS
<1> QED BY <1>1 DEF Zero

LEMMA NodeBytes ==
    ASSUME NEW f \in Frame
    PROVE  Bits(f.id, "node") \in Byte /\ Bits(f.id, "requester") \in RequesterId
           /\ Bits(f.id, "target") \in 0 .. 15
<1>1. f.id \in Identifier
  BY DEF Frame
<1> QED BY <1>1, Ranges, SMT DEF Byte, RequesterId

LEMMA NodeStateFlags ==
    ASSUME NEW b \in Byte, NEW m \in NodeState
    PROVE  b = Flags(m) <=> b < 8 /\ m.output = Bit(b, 0) /\ m.good = Bit(b, 1)
        /\ m.emergency = Bit(b, 2)
<1>1. PICK x \in BOOLEAN, y \in BOOLEAN, z \in BOOLEAN : x = m.output /\ y = m.good
          /\ z = m.emergency
  BY DEF NodeState
<1>2. b < 8 => b \in {0, 1, 2, 3, 4, 5, 6, 7}
  BY DEF Byte
<1>3. 2 ^ 0 = 1 /\ 2 ^ 1 = 2 /\ 2 ^ 2 = 4
  BY SMT
<1>4. \A k \in {0, 1, 2, 3, 4, 5, 6, 7} :
         /\ Bit(k, 0) <=> k \in {1, 3, 5, 7}
         /\ Bit(k, 1) <=> k \in {2, 3, 6, 7}
         /\ Bit(k, 2) <=> k \in {4, 5, 6, 7}
  BY <1>3, SMT DEF Bit
<1>5. \A k : Bit(k, 0) \in BOOLEAN /\ Bit(k, 1) \in BOOLEAN /\ Bit(k, 2) \in BOOLEAN
  BY DEF Bit
<1>6. Flags(m) = Flag(x) + 2 * Flag(y) + 4 * Flag(z)
  BY <1>1 DEF Flags
<1>7. Flags(m) \in {0, 1, 2, 3, 4, 5, 6, 7} /\ Flags(m) < 8
  BY <1>6, SMT DEF Flag
<1>8. ASSUME NEW k \in {0, 1, 2, 3, 4, 5, 6, 7}
      PROVE  k = Flags(m) <=> /\ x <=> k \in {1, 3, 5, 7}
                              /\ y <=> k \in {2, 3, 6, 7}
                              /\ z <=> k \in {4, 5, 6, 7}
  BY <1>6, SMT DEF Flag
<1>9. ASSUME NEW k \in {0, 1, 2, 3, 4, 5, 6, 7}
      PROVE  k = Flags(m) <=> x = Bit(k, 0) /\ y = Bit(k, 1) /\ z = Bit(k, 2)
  BY <1>4, <1>5, <1>8
<1> QED BY <1>1, <1>2, <1>7, <1>9

LEMMA HeartbeatTrip ==
    ASSUME NEW f \in Frame
    PROVE  /\ DecodeHeartbeat(f) \subseteq Heartbeat
           /\ \A m \in Heartbeat : f \in EncodeHeartbeat(m) <=> m \in DecodeHeartbeat(f)
<1> DEFINE p == f.payload
           node == Bits(f.id, "node")
           Mine(n) == Marked(f.id, 5, MessageClass["management"], n, NODE_TARGET, PROTOCOL,
                             Opcode["HEARTBEAT"])
           Fine == /\ Zero(p, 12, 16) /\ p[2] \in ServiceState /\ p[3] \in UpdateState
           meant == [kind |-> "HEARTBEAT", node |-> node, sequence |-> ReadLe(p, 0, 2),
                     service |-> p[2], update |-> p[3], faults |-> ReadLe(p, 4, 4),
                     uptime |-> ReadLe(p, 8, 4)]
<1>1. \A m : m \in DecodeHeartbeat(f) <=>
                /\ Mine(node) /\ ValidNodeId(node) /\ Length(p) = 16
                /\ Fine /\ m = meant
  <2>1. \A h : h \in NodeMessage(f, 5, "management", Opcode["HEARTBEAT"], 16) <=>
             h = Header(f.id) /\ Mine(node) /\ ValidNodeId(node) /\ Length(p) = 16
    BY NodeTags, LegalClasses DEF MessageClass
  <2> QED BY <2>1, HeaderFieldsOf DEF DecodeHeartbeat
<1>2. ASSUME Length(p) = 16, Fine PROVE meant \in Heartbeat
  <2>1. p \in Buffer(16)
    BY <1>2, Payloaded
  <2>2. /\ ReadLe(p, 0, 2) \in Word(2) /\ ReadLe(p, 4, 4) \in Word(4)
        /\ ReadLe(p, 8, 4) \in Word(4)
    BY <2>1, Reads
  <2>3. /\ p[2] \in Byte /\ p[3] \in Byte
    BY <2>1 DEF Buffer
  <2> QED BY <1>2, <2>2, <2>3, NodeBytes DEF Heartbeat
<1>3. ASSUME NEW m \in Heartbeat
      PROVE  f \in EncodeHeartbeat(m) <=> m \in DecodeHeartbeat(f)
  <2> DEFINE writes == <<<<0, LittleEndian(m.sequence)>>, <<2, <<m.service>>>>, <<3, <<m.update>>>>,
                        <<4, LittleEndian(m.faults)>>, <<8, LittleEndian(m.uptime)>>>>
  <2>1. m = meant <=>
           /\ m.node = node /\ m.sequence = ReadLe(p, 0, 2)
           /\ m.service = p[2] /\ m.update = p[3] /\ m.faults = ReadLe(p, 4, 4)
           /\ m.uptime = ReadLe(p, 8, 4)
    BY DEF Heartbeat
  <2>2. Mine(m.node) <=> Mine(node) /\ m.node = node
    BY DEF Marked
  <2>3. m.service \in ServiceState /\ m.update \in UpdateState
    BY DEF Heartbeat
  <2>4. /\ writes \in Seq(Writes) /\ Laid(Range(writes), 16)
        /\ Shows(p, Range(writes), 16) <=>
              /\ m.sequence = ReadLe(p, 0, 2) /\ p[2] = m.service /\ p[3] = m.update
              /\ m.faults = ReadLe(p, 4, 4) /\ m.uptime = ReadLe(p, 8, 4) /\ Zero(p, 12, 16)
    BY HeartbeatLayout, Zenon
  <2>5. f \in EncodeHeartbeat(m) <=>
            /\ ValidNodeId(m.node)
            /\ f \in Framed(ProtocolHeader(5, "management", m.node, NODE_TARGET,
                                       Opcode["HEARTBEAT"]), 16, writes)
    BY DEF EncodeHeartbeat
  <2> HIDE DEF writes
  <2>6. ASSUME ValidNodeId(m.node)
        PROVE  f \in Framed(ProtocolHeader(5, "management", m.node, NODE_TARGET,
                                           Opcode["HEARTBEAT"]), 16, writes) <=>
                  Mine(m.node) /\ Length(p) = 16 /\ Shows(p, Range(writes), 16)
    <3>1. Proper(5, MessageClass["management"], m.node, NODE_TARGET, PROTOCOL,
                 Opcode["HEARTBEAT"], 16)
      BY <2>6, Opcodes, MessageClasses
         DEF Proper, ValidNodeId, NODE_TARGET, PROTOCOL, CanFdLengths
    <3> QED BY <2>4, <3>1, NodeFramed
  <2> HIDE DEF p, node, Mine, meant
  <2> QED BY <1>1, <2>1, <2>2, <2>3, <2>4, <2>5, <2>6
<1> QED BY <1>1, <1>2, <1>3

LEMMA PowerTrip ==
    ASSUME NEW f \in Frame
    PROVE  /\ DecodePower(f) \subseteq PowerTelemetry
           /\ \A m \in PowerTelemetry : f \in EncodePower(m) <=> m \in DecodePower(f)
<1> DEFINE p == f.payload
           node == Bits(f.id, "node")
           Mine(n) == Marked(f.id, 4, MessageClass["telemetry"], n, NODE_TARGET, PROTOCOL,
                             Opcode["POWER"])
           Fine == /\ p[3] = 0 /\ p[2] \in PowerSource
           meant == [kind |-> "POWER", node |-> node, source |-> p[2],
                     sequence |-> ReadLe(p, 0, 2), voltage |-> ReadLe(p, 4, 4),
                     current |-> ReadLe(p, 8, 4), power |-> ReadLe(p, 12, 4)]
<1>1. \A m : m \in DecodePower(f) <=>
                /\ Mine(node) /\ ValidNodeId(node) /\ Length(p) = 16
                /\ Fine /\ m = meant
  <2>1. \A h : h \in NodeMessage(f, 4, "telemetry", Opcode["POWER"], 16) <=>
             h = Header(f.id) /\ Mine(node) /\ ValidNodeId(node) /\ Length(p) = 16
    BY NodeTags, LegalClasses DEF MessageClass
  <2> QED BY <2>1, HeaderFieldsOf DEF DecodePower
<1>2. ASSUME Length(p) = 16, Fine PROVE meant \in PowerTelemetry
  <2>1. p \in Buffer(16)
    BY <1>2, Payloaded
  <2>2. /\ ReadLe(p, 0, 2) \in Word(2) /\ ReadLe(p, 4, 4) \in Word(4)
        /\ ReadLe(p, 8, 4) \in Word(4) /\ ReadLe(p, 12, 4) \in Word(4)
    BY <2>1, Reads
  <2>3. /\ p[2] \in Byte
    BY <2>1 DEF Buffer
  <2> QED BY <1>2, <2>2, <2>3, NodeBytes DEF PowerTelemetry
<1>3. ASSUME NEW m \in PowerTelemetry
      PROVE  f \in EncodePower(m) <=> m \in DecodePower(f)
  <2> DEFINE writes == <<<<0, LittleEndian(m.sequence)>>, <<2, <<m.source>>>>, <<4,
          LittleEndian(m.voltage)>>,
                        <<8, LittleEndian(m.current)>>, <<12, LittleEndian(m.power)>>>>
  <2>1. m = meant <=>
           /\ m.node = node /\ m.source = p[2]
           /\ m.sequence = ReadLe(p, 0, 2) /\ m.voltage = ReadLe(p, 4, 4)
           /\ m.current = ReadLe(p, 8, 4) /\ m.power = ReadLe(p, 12, 4)
    BY DEF PowerTelemetry
  <2>2. Mine(m.node) <=> Mine(node) /\ m.node = node
    BY DEF Marked
  <2>3. m.source \in PowerSource /\ (Zero(p, 3, 4) <=> p[3] = 0)
    BY OneByte DEF PowerTelemetry
  <2>4. /\ writes \in Seq(Writes) /\ Laid(Range(writes), 16)
        /\ Shows(p, Range(writes), 16) <=>
              /\ m.sequence = ReadLe(p, 0, 2) /\ p[2] = m.source /\ Zero(p, 3, 4)
              /\ m.voltage = ReadLe(p, 4, 4) /\ m.current = ReadLe(p, 8, 4)
              /\ m.power = ReadLe(p, 12, 4)
    BY PowerLayout, Zenon
  <2>5. f \in EncodePower(m) <=>
            /\ ValidNodeId(m.node)
            /\ f \in Framed(ProtocolHeader(4, "telemetry", m.node, NODE_TARGET,
                                       Opcode["POWER"]), 16, writes)
    BY DEF EncodePower
  <2> HIDE DEF writes
  <2>6. ASSUME ValidNodeId(m.node)
        PROVE  f \in Framed(ProtocolHeader(4, "telemetry", m.node, NODE_TARGET,
                                           Opcode["POWER"]), 16, writes) <=>
                  Mine(m.node) /\ Length(p) = 16 /\ Shows(p, Range(writes), 16)
    <3>1. Proper(4, MessageClass["telemetry"], m.node, NODE_TARGET, PROTOCOL,
                 Opcode["POWER"], 16)
      BY <2>6, Opcodes, MessageClasses
         DEF Proper, ValidNodeId, NODE_TARGET, PROTOCOL, CanFdLengths
    <3> QED BY <2>4, <3>1, NodeFramed
  <2> HIDE DEF p, node, Mine, meant
  <2> QED BY <1>1, <2>1, <2>2, <2>3, <2>4, <2>5, <2>6
<1> QED BY <1>1, <1>2, <1>3

LEMMA NodeStateTrip ==
    ASSUME NEW f \in Frame
    PROVE  /\ DecodeNodeState(f) \subseteq NodeState
           /\ \A m \in NodeState : f \in EncodeNodeState(m) <=> m \in DecodeNodeState(f)
<1> DEFINE p == f.payload
           node == Bits(f.id, "node")
           Mine(n) == Marked(f.id, 3, MessageClass["state"], n, NODE_TARGET, PROTOCOL,
                             Opcode["NODE_STATE"])
           Fine == /\ Zero(p, 12, 16) /\ p[3] < 8 /\ p[2] \in ServiceState
           meant == [kind |-> "NODE_STATE", node |-> node, sequence |-> ReadLe(p, 0, 2),
                     service |-> p[2], output |-> Bit(p[3], 0), good |-> Bit(p[3], 1),
                     emergency |-> Bit(p[3], 2), faults |-> ReadLe(p, 4, 4),
                     uptime |-> ReadLe(p, 8, 4)]
<1>1. \A m : m \in DecodeNodeState(f) <=>
                /\ Mine(node) /\ ValidNodeId(node) /\ Length(p) = 16
                /\ Fine /\ m = meant
  <2>1. \A h : h \in NodeMessage(f, 3, "state", Opcode["NODE_STATE"], 16) <=>
             h = Header(f.id) /\ Mine(node) /\ ValidNodeId(node) /\ Length(p) = 16
    BY NodeTags, LegalClasses DEF MessageClass
  <2> QED BY <2>1, HeaderFieldsOf DEF DecodeNodeState
<1>2. ASSUME Length(p) = 16, Fine PROVE meant \in NodeState
  <2>1. p \in Buffer(16)
    BY <1>2, Payloaded
  <2>2. /\ ReadLe(p, 0, 2) \in Word(2) /\ ReadLe(p, 4, 4) \in Word(4)
        /\ ReadLe(p, 8, 4) \in Word(4)
    BY <2>1, Reads
  <2>3. /\ p[2] \in Byte
    BY <2>1 DEF Buffer
  <2> QED BY <1>2, <2>2, <2>3, NodeBytes DEF NodeState, Bit
<1>3. ASSUME NEW m \in NodeState
      PROVE  f \in EncodeNodeState(m) <=> m \in DecodeNodeState(f)
  <2> DEFINE writes == <<<<0, LittleEndian(m.sequence)>>, <<2, <<m.service>>>>, <<3, <<Flags(m)>>>>,
                        <<4, LittleEndian(m.faults)>>, <<8, LittleEndian(m.uptime)>>>>
  <2>1. m = meant <=>
           /\ m.node = node /\ m.sequence = ReadLe(p, 0, 2)
           /\ m.service = p[2] /\ m.output = Bit(p[3], 0) /\ m.good = Bit(p[3], 1)
           /\ m.emergency = Bit(p[3], 2) /\ m.faults = ReadLe(p, 4, 4)
           /\ m.uptime = ReadLe(p, 8, 4)
    BY DEF NodeState
  <2>2. Mine(m.node) <=> Mine(node) /\ m.node = node
    BY DEF Marked
  <2>3. /\ m.service \in ServiceState
        /\ Length(p) = 16 => (p[3] = Flags(m) <=> p[3] < 8 /\ m.output = Bit(p[3], 0)
                                  /\ m.good = Bit(p[3], 1) /\ m.emergency = Bit(p[3], 2))
    BY Payloaded, NodeStateFlags DEF NodeState, Buffer
  <2>4. /\ writes \in Seq(Writes) /\ Laid(Range(writes), 16)
        /\ Shows(p, Range(writes), 16) <=>
              /\ m.sequence = ReadLe(p, 0, 2) /\ p[2] = m.service /\ p[3] = Flags(m)
              /\ m.faults = ReadLe(p, 4, 4) /\ m.uptime = ReadLe(p, 8, 4) /\ Zero(p, 12, 16)
    BY NodeStateLayout, Zenon DEF Flags
  <2>5. f \in EncodeNodeState(m) <=>
            /\ ValidNodeId(m.node)
            /\ f \in Framed(ProtocolHeader(3, "state", m.node, NODE_TARGET,
                                       Opcode["NODE_STATE"]), 16, writes)
    BY DEF EncodeNodeState, Flags
  <2> HIDE DEF writes
  <2>6. ASSUME ValidNodeId(m.node)
        PROVE  f \in Framed(ProtocolHeader(3, "state", m.node, NODE_TARGET,
                                           Opcode["NODE_STATE"]), 16, writes) <=>
                  Mine(m.node) /\ Length(p) = 16 /\ Shows(p, Range(writes), 16)
    <3>1. Proper(3, MessageClass["state"], m.node, NODE_TARGET, PROTOCOL,
                 Opcode["NODE_STATE"], 16)
      BY <2>6, Opcodes, MessageClasses
         DEF Proper, ValidNodeId, NODE_TARGET, PROTOCOL, CanFdLengths
    <3> QED BY <2>4, <3>1, NodeFramed
  <2> HIDE DEF p, node, Mine, meant
  <2> QED BY <1>1, <2>1, <2>2, <2>3, <2>4, <2>5, <2>6
<1> QED BY <1>1, <1>2, <1>3

LEMMA CommandResponseTrip ==
    ASSUME NEW f \in Frame
    PROVE  /\ DecodeCommandResponse(f) \subseteq CommandResponse
           /\ \A m \in CommandResponse : f \in EncodeCommandResponse(m)
                  <=> m \in DecodeCommandResponse(f)
<1> DEFINE p == f.payload
           node == Bits(f.id, "node")
           requester == Bits(f.id, "requester")
           Mine(n, r) == Marked(f.id, 2, MessageClass["response"], n, NODE_TARGET, r,
                             Opcode["COMMAND_RESPONSE"])
           Fine == /\ p[11] = 0 /\ p[10] \in CommandResult
           meant == [kind |-> "COMMAND_RESPONSE", node |-> node, requester |-> requester,
                     request |-> ReadLe(p, 0, 8), opcode |-> p[8], target |-> p[9],
                     result |-> p[10], detail |-> ReadLe(p, 12, 4)]
<1>1. \A m : m \in DecodeCommandResponse(f) <=>
                /\ Mine(node, requester) /\ ValidNodeId(node) /\ HostRequester(requester)
                       /\ Length(p) = 16
                /\ Fine /\ m = meant
  <2>1. \A h : h \in ScopedNodeMessage(f, 2, "response", Opcode["COMMAND_RESPONSE"], 16) <=>
             h = Header(f.id) /\ Mine(node, requester) /\ ValidNodeId(node)
                 /\ HostRequester(requester) /\ Length(p) = 16
    BY NodeTags, LegalClasses DEF MessageClass
  <2> QED BY <2>1, HeaderFieldsOf DEF DecodeCommandResponse
<1>2. ASSUME Length(p) = 16, Fine PROVE meant \in CommandResponse
  <2>1. p \in Buffer(16)
    BY <1>2, Payloaded
  <2>2. /\ ReadLe(p, 0, 8) \in Word(8) /\ ReadLe(p, 12, 4) \in Word(4)
    BY <2>1, Reads
  <2>3. /\ p[8] \in Byte /\ p[9] \in Byte /\ p[10] \in Byte
    BY <2>1 DEF Buffer
  <2> QED BY <1>2, <2>2, <2>3, NodeBytes DEF CommandResponse, RequestIds
<1>3. ASSUME NEW m \in CommandResponse
      PROVE  f \in EncodeCommandResponse(m) <=> m \in DecodeCommandResponse(f)
  <2> DEFINE writes == <<<<0, LittleEndian(m.request)>>, <<8, <<m.opcode>>>>, <<9,
          <<m.target>>>>, <<10, <<m.result>>>>,
                        <<12, LittleEndian(m.detail)>>>>
  <2>1. m = meant <=>
           /\ m.node = node /\ m.requester = requester
           /\ m.request = ReadLe(p, 0, 8) /\ m.opcode = p[8] /\ m.target = p[9]
           /\ m.result = p[10] /\ m.detail = ReadLe(p, 12, 4)
    BY DEF CommandResponse
  <2>2. Mine(m.node, m.requester) <=> Mine(node, requester) /\ m.node = node
            /\ m.requester = requester
    BY DEF Marked
  <2>3. m.result \in CommandResult /\ (Zero(p, 11, 12) <=> p[11] = 0)
    BY OneByte DEF CommandResponse
  <2>4. /\ writes \in Seq(Writes) /\ Laid(Range(writes), 16)
        /\ Shows(p, Range(writes), 16) <=>
              /\ m.request = ReadLe(p, 0, 8) /\ p[8] = m.opcode /\ p[9] = m.target
              /\ p[10] = m.result /\ Zero(p, 11, 12) /\ m.detail = ReadLe(p, 12, 4)
    BY CommandResponseLayout, Zenon DEF RequestId
  <2>5. f \in EncodeCommandResponse(m) <=>
            /\ ValidNodeId(m.node) /\ HostRequester(m.requester)
            /\ f \in Framed([priority |-> 2, class |-> MessageClass["response"], node |-> m.node,
                         target |-> NODE_TARGET, requester |-> m.requester,
                         opcode |-> Opcode["COMMAND_RESPONSE"]], 16, writes)
    BY DEF EncodeCommandResponse, RequestId
  <2> HIDE DEF writes
  <2>6. ASSUME ValidNodeId(m.node)
        PROVE  f \in Framed([priority |-> 2, class |-> MessageClass["response"], node |-> m.node,
                             target |-> NODE_TARGET, requester |-> m.requester,
                             opcode |-> Opcode["COMMAND_RESPONSE"]], 16, writes) <=>
                  Mine(m.node, m.requester) /\ Length(p) = 16 /\ Shows(p, Range(writes), 16)
    <3>1. Proper(2, MessageClass["response"], m.node, NODE_TARGET, m.requester,
                 Opcode["COMMAND_RESPONSE"], 16)
      BY <2>6, Opcodes, MessageClasses
         DEF Proper, ValidNodeId, NODE_TARGET, PROTOCOL, CanFdLengths, CommandResponse, RequesterId
    <3> QED BY <2>4, <3>1, ScopedFramed
  <2> HIDE DEF p, node, Mine, meant, requester
  <2> QED BY <1>1, <2>1, <2>2, <2>3, <2>4, <2>5, <2>6
<1> QED BY <1>1, <1>2, <1>3

LEMMA FirmwareAckTrip ==
    ASSUME NEW f \in Frame
    PROVE  /\ DecodeFirmwareAck(f) \subseteq FirmwareAck
           /\ \A m \in FirmwareAck : f \in EncodeFirmwareAck(m) <=> m \in DecodeFirmwareAck(f)
<1> DEFINE p == f.payload
           node == Bits(f.id, "node")
           requester == Bits(f.id, "requester")
           Mine(n, r) == Marked(f.id, 5, MessageClass["firmware"], n, NODE_TARGET, r,
                             Opcode["FW_ACK"])
           Fine == /\ p[19] = 0 /\ p[16] \in UpdateState /\ p[17] \in UpdateError
           meant == [kind |-> "FW_ACK", node |-> node, requester |-> requester,
                     request |-> ReadLe(p, 0, 8), session |-> ReadLe(p, 8, 4),
                     next |-> ReadLe(p, 12, 4), state |-> p[16], error |-> p[17],
                     window |-> p[18], detail |-> ReadLe(p, 20, 4)]
<1>1. \A m : m \in DecodeFirmwareAck(f) <=>
                /\ Mine(node, requester) /\ ValidNodeId(node) /\ HostRequester(requester)
                       /\ Length(p) = 24
                /\ Fine /\ m = meant
  <2>1. \A h : h \in ScopedNodeMessage(f, 5, "firmware", Opcode["FW_ACK"], 24) <=>
             h = Header(f.id) /\ Mine(node, requester) /\ ValidNodeId(node)
                 /\ HostRequester(requester) /\ Length(p) = 24
    BY NodeTags, LegalClasses DEF MessageClass
  <2> QED BY <2>1, HeaderFieldsOf DEF DecodeFirmwareAck
<1>2. ASSUME Length(p) = 24, Fine PROVE meant \in FirmwareAck
  <2>1. p \in Buffer(24)
    BY <1>2, Payloaded
  <2>2. /\ ReadLe(p, 0, 8) \in Word(8) /\ ReadLe(p, 8, 4) \in Word(4)
        /\ ReadLe(p, 12, 4) \in Word(4) /\ ReadLe(p, 20, 4) \in Word(4)
    BY <2>1, Reads
  <2>3. /\ p[16] \in Byte /\ p[17] \in Byte /\ p[18] \in Byte
    BY <2>1 DEF Buffer
  <2> QED BY <1>2, <2>2, <2>3, NodeBytes DEF FirmwareAck, RequestIds
<1>3. ASSUME NEW m \in FirmwareAck
      PROVE  f \in EncodeFirmwareAck(m) <=> m \in DecodeFirmwareAck(f)
  <2> DEFINE writes == <<<<0, LittleEndian(m.request)>>, <<8, LittleEndian(m.session)>>, <<12,
          LittleEndian(m.next)>>,
                        <<16, <<m.state>>>>, <<17, <<m.error>>>>, <<18, <<m.window>>>>,
                        <<20, LittleEndian(m.detail)>>>>
  <2>1. m = meant <=>
           /\ m.node = node /\ m.requester = requester
           /\ m.request = ReadLe(p, 0, 8) /\ m.session = ReadLe(p, 8, 4)
           /\ m.next = ReadLe(p, 12, 4) /\ m.state = p[16] /\ m.error = p[17]
           /\ m.window = p[18] /\ m.detail = ReadLe(p, 20, 4)
    BY DEF FirmwareAck
  <2>2. Mine(m.node, m.requester) <=> Mine(node, requester) /\ m.node = node
            /\ m.requester = requester
    BY DEF Marked
  <2>3. /\ m.state \in UpdateState /\ m.error \in UpdateError
        /\ Zero(p, 19, 20) <=> p[19] = 0
    BY OneByte DEF FirmwareAck
  <2>4. /\ writes \in Seq(Writes) /\ Laid(Range(writes), 24)
        /\ Shows(p, Range(writes), 24) <=>
              /\ m.request = ReadLe(p, 0, 8) /\ m.session = ReadLe(p, 8, 4)
              /\ m.next = ReadLe(p, 12, 4) /\ p[16] = m.state /\ p[17] = m.error
              /\ p[18] = m.window /\ Zero(p, 19, 20) /\ m.detail = ReadLe(p, 20, 4)
    BY FirmwareAckLayout, ZenonT(40) DEF RequestId
  <2>5. f \in EncodeFirmwareAck(m) <=>
            /\ ValidNodeId(m.node) /\ HostRequester(m.requester)
            /\ f \in Framed([priority |-> 5, class |-> MessageClass["firmware"], node |-> m.node,
                         target |-> NODE_TARGET, requester |-> m.requester,
                         opcode |-> Opcode["FW_ACK"]], 24, writes)
    BY DEF EncodeFirmwareAck, RequestId
  <2> HIDE DEF writes
  <2>6. ASSUME ValidNodeId(m.node)
        PROVE  f \in Framed([priority |-> 5, class |-> MessageClass["firmware"], node |-> m.node,
                             target |-> NODE_TARGET, requester |-> m.requester,
                             opcode |-> Opcode["FW_ACK"]], 24, writes) <=>
                  Mine(m.node, m.requester) /\ Length(p) = 24 /\ Shows(p, Range(writes), 24)
    <3>1. Proper(5, MessageClass["firmware"], m.node, NODE_TARGET, m.requester,
                 Opcode["FW_ACK"], 24)
      BY <2>6, Opcodes, MessageClasses
         DEF Proper, ValidNodeId, NODE_TARGET, PROTOCOL, CanFdLengths, FirmwareAck, RequesterId
    <3> QED BY <2>4, <3>1, ScopedFramed
  <2> HIDE DEF p, node, Mine, meant, requester
  <2> QED BY <1>1, <2>1, <2>2, <2>3, <2>4, <2>5, <2>6
<1> QED BY <1>1, <1>2, <1>3

LEMMA Booleans ==
    ASSUME NEW b \in BOOLEAN, NEW x
    PROVE  x = Flag(b) <=> Bool(x) /\ b = (x # 0)
BY DEF Flag, Bool

LEMMA HeaderMeans ==
    ASSUME NEW f \in Frame, NEW h
    PROVE  h \in HeaderDecode(f.id) <=>
               /\ h = Header(f.id) /\ Bits(f.id, "class") \in Classes
               /\ Bits(f.id, "node") # INVALID_NODE
<1>1. f.id \in Identifier
  BY DEF Frame
<1> QED BY <1>1, HeaderDecodes

LEMMA FanStateTrip ==
    ASSUME NEW f \in Frame
    PROVE  /\ DecodeFanState(f) \subseteq FanState
           /\ \A m \in FanState : f \in EncodeFanState(m) <=> m \in DecodeFanState(f)
<1> DEFINE p == f.payload
           node == Bits(f.id, "node")
           fan == Bits(f.id, "target")
           Mine(n, t) == Marked(f.id, 3, MessageClass["state"], n, t, PROTOCOL,
                                Opcode["FAN_STATE"])
           Fine == /\ fan \in FanId /\ Bool(p[3]) /\ Zero(p, 6, 12) /\ ValidDuty(p[2])
           meant == [kind |-> "FAN_STATE", node |-> node, fan |-> fan, duty |-> p[2],
                     sequence |-> ReadLe(p, 0, 2), rpm |-> ReadLe(p, 4, 2),
                     stalled |-> p[3] # 0]
<1>1. \A m : m \in DecodeFanState(f) <=>
                /\ Mine(node, fan) /\ ValidNodeId(node) /\ Length(p) = 12
                /\ Fine /\ m = meant
  <2>1. \A n : ValidNodeId(n) => n # INVALID_NODE
    BY DEF ValidNodeId, INVALID_NODE
  <2>2. MessageClass["state"] \in Classes
    BY LegalClasses DEF MessageClass
  <2>3. \A h : h \in HeaderDecode(f.id) /\ IsProtocolHeader(h, 3, "state", Opcode["FAN_STATE"])
                 /\ ValidNodeId(h.node) <=>
             h = Header(f.id) /\ Mine(node, fan) /\ ValidNodeId(node)
    BY <2>1, <2>2, HeaderMeans, HeaderFieldsOf DEF IsProtocolHeader, Marked
  <2> QED BY <2>3, HeaderFieldsOf DEF DecodeFanState
<1>2. ASSUME Length(p) = 12, Fine PROVE meant \in FanState
  <2>1. p \in Buffer(12)
    BY <1>2, Payloaded
  <2>2. ReadLe(p, 0, 2) \in Word(2) /\ ReadLe(p, 4, 2) \in Word(2)
    BY <2>1, Reads
  <2>3. p[2] \in Byte
    BY <2>1 DEF Buffer
  <2> QED BY <1>2, <2>2, <2>3, NodeBytes DEF FanState
<1>3. ASSUME NEW m \in FanState
      PROVE  f \in EncodeFanState(m) <=> m \in DecodeFanState(f)
  <2> DEFINE writes == <<<<0, LittleEndian(m.sequence)>>, <<2, <<m.duty>>>>,
                         <<3, <<Flag(m.stalled)>>>>, <<4, LittleEndian(m.rpm)>>>>
  <2>1. m = meant <=>
           /\ m.node = node /\ m.fan = fan /\ m.duty = p[2] /\ m.sequence = ReadLe(p, 0, 2)
           /\ m.rpm = ReadLe(p, 4, 2) /\ m.stalled = (p[3] # 0)
    BY DEF FanState
  <2>2. Mine(m.node, m.fan) <=> Mine(node, fan) /\ m.node = node /\ m.fan = fan
    BY DEF Marked
  <2>3. m.fan \in FanId /\ (p[3] = Flag(m.stalled) <=> Bool(p[3]) /\ m.stalled = (p[3] # 0))
    BY Booleans DEF FanState
  <2>4. /\ writes \in Seq(Writes) /\ Laid(Range(writes), 12)
        /\ Shows(p, Range(writes), 12) <=>
              /\ m.sequence = ReadLe(p, 0, 2) /\ p[2] = m.duty /\ p[3] = Flag(m.stalled)
              /\ m.rpm = ReadLe(p, 4, 2) /\ Zero(p, 6, 12)
    BY FanStateLayout, Zenon
  <2>5. f \in EncodeFanState(m) <=>
            /\ ValidNodeId(m.node) /\ ValidDuty(m.duty)
            /\ f \in Framed(ProtocolHeader(3, "state", m.node, m.fan, Opcode["FAN_STATE"]), 12,
                            writes)
    BY DEF EncodeFanState
  <2> HIDE DEF writes
  <2>6. ASSUME ValidNodeId(m.node)
        PROVE  f \in Framed(ProtocolHeader(3, "state", m.node, m.fan, Opcode["FAN_STATE"]), 12,
                            writes) <=>
                  Mine(m.node, m.fan) /\ Length(p) = 12 /\ Shows(p, Range(writes), 12)
    <3>1. Proper(3, MessageClass["state"], m.node, m.fan, PROTOCOL, Opcode["FAN_STATE"], 12)
      BY <2>3, <2>6, Opcodes, MessageClasses
         DEF Proper, ValidNodeId, FanId, PROTOCOL, CanFdLengths
    <3> QED BY <2>4, <3>1, NodeFramed
  <2> HIDE DEF p, node, fan, Mine, meant
  <2> QED BY <1>1, <2>1, <2>2, <2>3, <2>4, <2>5, <2>6
<1> QED BY <1>1, <1>2, <1>3

-----------------------------------------------------------------------------
(* Temperatures, with and without a value. *)

LEMMA Joined ==
    ASSUME NEW S, NEW s \in Seq(S), NEW t \in Seq(S), NEW u \in Seq(S),
           Len(u) = Len(s) + Len(t), \A i \in 1 .. Len(s) : u[i] = s[i],
           \A i \in 1 .. Len(t) : u[Len(s) + i] = t[i]
    PROVE  s \o t = u
BY SMTT(30)

LEMMA Concat1And0 ==
    ASSUME NEW a1
    PROVE  <<a1>> \o <<>> = <<a1>>
<1> DEFINE S == {a1}
<1>1. <<a1>> \in Seq(S)
  OBVIOUS
<1> QED BY <1>1, ConcatEmptySeq

LEMMA Concat2And0 ==
    ASSUME NEW a1, NEW a2
    PROVE  <<a1, a2>> \o <<>> = <<a1, a2>>
<1> DEFINE S == {a1, a2}
<1>1. <<a1, a2>> \in Seq(S)
  OBVIOUS
<1> QED BY <1>1, ConcatEmptySeq

LEMMA Concat4And0 ==
    ASSUME NEW a1, NEW a2, NEW a3, NEW a4
    PROVE  <<a1, a2, a3, a4>> \o <<>> = <<a1, a2, a3, a4>>
<1> DEFINE S == {a1, a2, a3, a4}
<1>1. <<a1, a2, a3, a4>> \in Seq(S)
  OBVIOUS
<1> QED BY <1>1, ConcatEmptySeq

LEMMA Concat9And0 ==
    ASSUME NEW a1, NEW a2, NEW a3, NEW a4, NEW a5, NEW a6, NEW a7, NEW a8, NEW a9
    PROVE  <<a1, a2, a3, a4, a5, a6, a7, a8, a9>> \o <<>> = <<a1, a2, a3, a4, a5, a6, a7, a8, a9>>
<1> DEFINE S == {a1, a2, a3, a4, a5, a6, a7, a8, a9}
<1>1. <<a1, a2, a3, a4, a5, a6, a7, a8, a9>> \in Seq(S)
  OBVIOUS
<1> QED BY <1>1, ConcatEmptySeq

LEMMA Concat1And1 ==
    ASSUME NEW a1, NEW a2
    PROVE  <<a1>> \o <<a2>> = <<a1, a2>>
<1> DEFINE S == {a1, a2}
           s == <<a1>>
           t == <<a2>>
           u == <<a1, a2>>
<1>1. s \in Seq(S) /\ t \in Seq(S) /\ u \in Seq(S) /\ Len(s) = 1 /\ Len(t) = 1 /\ Len(u) = 2
  OBVIOUS
<1>2. 1 .. 1 = {1} /\ 1 .. 1 = {1}
  BY SMT
<1>3. /\ u[1] = s[1]
      /\ u[1 + 1] = t[1]
  OBVIOUS
<1> HIDE DEF S, s, t, u
<1>4. /\ Len(u) = Len(s) + Len(t) /\ \A i \in 1 .. Len(s) : u[i] = s[i]
      /\ \A i \in 1 .. Len(t) : u[Len(s) + i] = t[i]
  BY <1>1, <1>2, <1>3
<1>5. s \o t = u
  BY <1>1, <1>4, Joined, Zenon
<1> QED BY <1>5 DEF s, t, u

LEMMA Concat1And3 ==
    ASSUME NEW a1, NEW a2, NEW a3, NEW a4
    PROVE  <<a1>> \o <<a2, a3, a4>> = <<a1, a2, a3, a4>>
<1> DEFINE S == {a1, a2, a3, a4}
           s == <<a1>>
           t == <<a2, a3, a4>>
           u == <<a1, a2, a3, a4>>
<1>1. s \in Seq(S) /\ t \in Seq(S) /\ u \in Seq(S) /\ Len(s) = 1 /\ Len(t) = 3 /\ Len(u) = 4
  OBVIOUS
<1>2. 1 .. 1 = {1} /\ 1 .. 3 = {1, 2, 3}
  BY SMT
<1>3. /\ u[1] = s[1]
      /\ u[1 + 1] = t[1] /\ u[1 + 2] = t[2] /\ u[1 + 3] = t[3]
  OBVIOUS
<1> HIDE DEF S, s, t, u
<1>4. /\ Len(u) = Len(s) + Len(t) /\ \A i \in 1 .. Len(s) : u[i] = s[i]
      /\ \A i \in 1 .. Len(t) : u[Len(s) + i] = t[i]
  BY <1>1, <1>2, <1>3
<1>5. s \o t = u
  BY <1>1, <1>4, Joined, Zenon
<1> QED BY <1>5 DEF s, t, u

LEMMA Concat1And4 ==
    ASSUME NEW a1, NEW a2, NEW a3, NEW a4, NEW a5
    PROVE  <<a1>> \o <<a2, a3, a4, a5>> = <<a1, a2, a3, a4, a5>>
<1> DEFINE S == {a1, a2, a3, a4, a5}
           s == <<a1>>
           t == <<a2, a3, a4, a5>>
           u == <<a1, a2, a3, a4, a5>>
<1>1. s \in Seq(S) /\ t \in Seq(S) /\ u \in Seq(S) /\ Len(s) = 1 /\ Len(t) = 4 /\ Len(u) = 5
  OBVIOUS
<1>2. 1 .. 1 = {1} /\ 1 .. 4 = {1, 2, 3, 4}
  BY SMT
<1>3. /\ u[1] = s[1]
      /\ u[1 + 1] = t[1] /\ u[1 + 2] = t[2] /\ u[1 + 3] = t[3] /\ u[1 + 4] = t[4]
  OBVIOUS
<1> HIDE DEF S, s, t, u
<1>4. /\ Len(u) = Len(s) + Len(t) /\ \A i \in 1 .. Len(s) : u[i] = s[i]
      /\ \A i \in 1 .. Len(t) : u[Len(s) + i] = t[i]
  BY <1>1, <1>2, <1>3
<1>5. s \o t = u
  BY <1>1, <1>4, Joined, Zenon
<1> QED BY <1>5 DEF s, t, u

LEMMA Concat1And5 ==
    ASSUME NEW a1, NEW a2, NEW a3, NEW a4, NEW a5, NEW a6
    PROVE  <<a1>> \o <<a2, a3, a4, a5, a6>> = <<a1, a2, a3, a4, a5, a6>>
<1> DEFINE S == {a1, a2, a3, a4, a5, a6}
           s == <<a1>>
           t == <<a2, a3, a4, a5, a6>>
           u == <<a1, a2, a3, a4, a5, a6>>
<1>1. s \in Seq(S) /\ t \in Seq(S) /\ u \in Seq(S) /\ Len(s) = 1 /\ Len(t) = 5 /\ Len(u) = 6
  OBVIOUS
<1>2. 1 .. 1 = {1} /\ 1 .. 5 = {1, 2, 3, 4, 5}
  BY SMT
<1>3. /\ u[1] = s[1]
      /\ u[1 + 1] = t[1] /\ u[1 + 2] = t[2] /\ u[1 + 3] = t[3] /\ u[1 + 4] = t[4]
      /\ u[1 + 5] = t[5]
  OBVIOUS
<1> HIDE DEF S, s, t, u
<1>4. /\ Len(u) = Len(s) + Len(t) /\ \A i \in 1 .. Len(s) : u[i] = s[i]
      /\ \A i \in 1 .. Len(t) : u[Len(s) + i] = t[i]
  BY <1>1, <1>2, <1>3
<1>5. s \o t = u
  BY <1>1, <1>4, Joined, Zenon
<1> QED BY <1>5 DEF s, t, u

LEMMA Concat2And1 ==
    ASSUME NEW a1, NEW a2, NEW a3
    PROVE  <<a1, a2>> \o <<a3>> = <<a1, a2, a3>>
<1> DEFINE S == {a1, a2, a3}
           s == <<a1, a2>>
           t == <<a3>>
           u == <<a1, a2, a3>>
<1>1. s \in Seq(S) /\ t \in Seq(S) /\ u \in Seq(S) /\ Len(s) = 2 /\ Len(t) = 1 /\ Len(u) = 3
  OBVIOUS
<1>2. 1 .. 2 = {1, 2} /\ 1 .. 1 = {1}
  BY SMT
<1>3. /\ u[1] = s[1] /\ u[2] = s[2]
      /\ u[2 + 1] = t[1]
  OBVIOUS
<1> HIDE DEF S, s, t, u
<1>4. /\ Len(u) = Len(s) + Len(t) /\ \A i \in 1 .. Len(s) : u[i] = s[i]
      /\ \A i \in 1 .. Len(t) : u[Len(s) + i] = t[i]
  BY <1>1, <1>2, <1>3
<1>5. s \o t = u
  BY <1>1, <1>4, Joined, Zenon
<1> QED BY <1>5 DEF s, t, u

LEMMA Concat2And4 ==
    ASSUME NEW a1, NEW a2, NEW a3, NEW a4, NEW a5, NEW a6
    PROVE  <<a1, a2>> \o <<a3, a4, a5, a6>> = <<a1, a2, a3, a4, a5, a6>>
<1> DEFINE S == {a1, a2, a3, a4, a5, a6}
           s == <<a1, a2>>
           t == <<a3, a4, a5, a6>>
           u == <<a1, a2, a3, a4, a5, a6>>
<1>1. s \in Seq(S) /\ t \in Seq(S) /\ u \in Seq(S) /\ Len(s) = 2 /\ Len(t) = 4 /\ Len(u) = 6
  OBVIOUS
<1>2. 1 .. 2 = {1, 2} /\ 1 .. 4 = {1, 2, 3, 4}
  BY SMT
<1>3. /\ u[1] = s[1] /\ u[2] = s[2]
      /\ u[2 + 1] = t[1] /\ u[2 + 2] = t[2] /\ u[2 + 3] = t[3] /\ u[2 + 4] = t[4]
  OBVIOUS
<1> HIDE DEF S, s, t, u
<1>4. /\ Len(u) = Len(s) + Len(t) /\ \A i \in 1 .. Len(s) : u[i] = s[i]
      /\ \A i \in 1 .. Len(t) : u[Len(s) + i] = t[i]
  BY <1>1, <1>2, <1>3
<1>5. s \o t = u
  BY <1>1, <1>4, Joined, Zenon
<1> QED BY <1>5 DEF s, t, u

LEMMA Concat2And7 ==
    ASSUME NEW a1, NEW a2, NEW a3, NEW a4, NEW a5, NEW a6, NEW a7, NEW a8, NEW a9
    PROVE  <<a1, a2>> \o <<a3, a4, a5, a6, a7, a8, a9>> = <<a1, a2, a3, a4, a5, a6, a7, a8, a9>>
<1> DEFINE S == {a1, a2, a3, a4, a5, a6, a7, a8, a9}
           s == <<a1, a2>>
           t == <<a3, a4, a5, a6, a7, a8, a9>>
           u == <<a1, a2, a3, a4, a5, a6, a7, a8, a9>>
<1>1. s \in Seq(S) /\ t \in Seq(S) /\ u \in Seq(S) /\ Len(s) = 2 /\ Len(t) = 7 /\ Len(u) = 9
  OBVIOUS
<1>2. 1 .. 2 = {1, 2} /\ 1 .. 7 = {1, 2, 3, 4, 5, 6, 7}
  BY SMT
<1>3. /\ u[1] = s[1] /\ u[2] = s[2]
      /\ u[2 + 1] = t[1] /\ u[2 + 2] = t[2] /\ u[2 + 3] = t[3] /\ u[2 + 4] = t[4]
      /\ u[2 + 5] = t[5] /\ u[2 + 6] = t[6] /\ u[2 + 7] = t[7]
  OBVIOUS
<1> HIDE DEF S, s, t, u
<1>4. /\ Len(u) = Len(s) + Len(t) /\ \A i \in 1 .. Len(s) : u[i] = s[i]
      /\ \A i \in 1 .. Len(t) : u[Len(s) + i] = t[i]
  BY <1>1, <1>2, <1>3
<1>5. s \o t = u
  BY <1>1, <1>4, Joined, Zenon
<1> QED BY <1>5 DEF s, t, u

LEMMA Concat4And1 ==
    ASSUME NEW a1, NEW a2, NEW a3, NEW a4, NEW a5
    PROVE  <<a1, a2, a3, a4>> \o <<a5>> = <<a1, a2, a3, a4, a5>>
<1> DEFINE S == {a1, a2, a3, a4, a5}
           s == <<a1, a2, a3, a4>>
           t == <<a5>>
           u == <<a1, a2, a3, a4, a5>>
<1>1. s \in Seq(S) /\ t \in Seq(S) /\ u \in Seq(S) /\ Len(s) = 4 /\ Len(t) = 1 /\ Len(u) = 5
  OBVIOUS
<1>2. 1 .. 4 = {1, 2, 3, 4} /\ 1 .. 1 = {1}
  BY SMT
<1>3. /\ u[1] = s[1] /\ u[2] = s[2] /\ u[3] = s[3] /\ u[4] = s[4]
      /\ u[4 + 1] = t[1]
  OBVIOUS
<1> HIDE DEF S, s, t, u
<1>4. /\ Len(u) = Len(s) + Len(t) /\ \A i \in 1 .. Len(s) : u[i] = s[i]
      /\ \A i \in 1 .. Len(t) : u[Len(s) + i] = t[i]
  BY <1>1, <1>2, <1>3
<1>5. s \o t = u
  BY <1>1, <1>4, Joined, Zenon
<1> QED BY <1>5 DEF s, t, u

LEMMA Concat9And1 ==
    ASSUME NEW a1, NEW a2, NEW a3, NEW a4, NEW a5, NEW a6, NEW a7, NEW a8, NEW a9, NEW a10
    PROVE  <<a1, a2, a3, a4, a5, a6, a7, a8, a9>> \o <<a10>>
               = <<a1, a2, a3, a4, a5, a6, a7, a8, a9, a10>>
<1> DEFINE S == {a1, a2, a3, a4, a5, a6, a7, a8, a9, a10}
           s == <<a1, a2, a3, a4, a5, a6, a7, a8, a9>>
           t == <<a10>>
           u == <<a1, a2, a3, a4, a5, a6, a7, a8, a9, a10>>
<1>1. s \in Seq(S) /\ t \in Seq(S) /\ u \in Seq(S) /\ Len(s) = 9 /\ Len(t) = 1 /\ Len(u) = 10
  OBVIOUS
<1>2. 1 .. 9 = {1, 2, 3, 4, 5, 6, 7, 8, 9} /\ 1 .. 1 = {1}
  BY SMT
<1>3. /\ u[1] = s[1] /\ u[2] = s[2] /\ u[3] = s[3] /\ u[4] = s[4] /\ u[5] = s[5] /\ u[6] = s[6]
      /\ u[7] = s[7] /\ u[8] = s[8] /\ u[9] = s[9]
      /\ u[9 + 1] = t[1]
  OBVIOUS
<1> HIDE DEF S, s, t, u
<1>4. /\ Len(u) = Len(s) + Len(t) /\ \A i \in 1 .. Len(s) : u[i] = s[i]
      /\ \A i \in 1 .. Len(t) : u[Len(s) + i] = t[i]
  BY <1>1, <1>2, <1>3
<1>5. s \o t = u
  BY <1>1, <1>4, Joined, Zenon
<1> QED BY <1>5 DEF s, t, u

LEMMA UnmeasuredLayout ==
    ASSUME NEW m \in TemperatureTelemetry, NEW p
    PROVE  LET W == <<<<0, LittleEndian(m.sequence)>>, <<2, <<m.source>>>>, <<3, <<m.status>>>>,
                      <<8, LittleEndian(m.identifier)>>>>
           IN  /\ W \in Seq(Writes) /\ Laid(Range(W), 16)
               /\ Shows(p, Range(W), 16) <=>
                     /\ m.sequence = ReadLe(p, 0, 2)
                     /\ p[2] = m.source
                     /\ p[3] = m.status
                     /\ Zero(p, 4, 8)
                     /\ m.identifier = ReadLe(p, 8, 8)
<1> DEFINE a == LittleEndian(m.sequence)
           b == <<m.source>>
           c == <<m.status>>
           d == LittleEndian(m.identifier)
           W == <<<<0, a>>, <<2, b>>, <<3, c>>, <<8, d>>>>
           A == Put({}, 0, a)
           B == Put(A, 2, b)
           C == Put(B, 3, c)
           D == Put(C, 8, d)
<1>1. /\ m.sequence \in Word(2) /\ m.source \in Byte /\ m.status \in Byte
      /\ m.identifier \in Word(8) /\ 16 \in Nat
  BY DEF TemperatureTelemetry, DIE_SENSORS, ONE_WIRE, MEASURED, UNMEASURED, Byte
<1>2. Laid({}, 0) /\ (Shows(p, {}, 0) <=> TRUE)
  BY Blank, NoGap
<1>3. Laid(A, 2) /\ (Shows(p, A, 2) <=> Shows(p, {}, 0) /\ m.sequence = ReadLe(p, 0, 2))
  BY <1>1, <1>2, PutWord, NoGap
<1> HIDE DEF A
<1>4. Laid(B, 3) /\ (Shows(p, B, 3) <=> Shows(p, A, 2) /\ p[2] = m.source)
  BY <1>1, <1>3, PutByte, NoGap
<1> HIDE DEF B
<1>5. Laid(C, 8) /\ (Shows(p, C, 8) <=> Shows(p, B, 3) /\ p[3] = m.status /\ Zero(p, 4, 8))
  BY <1>1, <1>4, PutByte
<1> HIDE DEF C
<1>6. Laid(D, 16) /\ (Shows(p, D, 16) <=> Shows(p, C, 8) /\ m.identifier = ReadLe(p, 8, 8))
  BY <1>1, <1>5, PutWord, NoGap
<1> HIDE DEF D
<1> HIDE DEF a, b, c, d
<1>7. Range(W) = D
  BY DEF A, B, C, D, Put, Range
<1>8. D \subseteq Writes
  BY <1>6 DEF Laid
<1>9. W \in Seq(Writes)
  BY <1>7, <1>8 DEF Range
<1> QED BY <1>2, <1>3, <1>4, <1>5, <1>6, <1>7, <1>9 DEF a, b, c, d

LEMMA MeasuredLayout ==
    ASSUME NEW m \in TemperatureTelemetry, m.centi # NONE, NEW p
    PROVE  LET W == <<<<0, LittleEndian(m.sequence)>>, <<2, <<m.source>>>>, <<3, <<m.status>>>>,
                      <<8, LittleEndian(m.identifier)>>, <<4, LittleEndian(m.centi)>>>>
           IN  /\ W \in Seq(Writes) /\ Laid(Range(W), 16)
               /\ Shows(p, Range(W), 16) <=>
                     /\ m.sequence = ReadLe(p, 0, 2)
                     /\ p[2] = m.source
                     /\ p[3] = m.status
                     /\ m.centi = ReadLe(p, 4, 2)
                     /\ Zero(p, 6, 8)
                     /\ m.identifier = ReadLe(p, 8, 8)
<1> DEFINE a == LittleEndian(m.sequence)
           b == <<m.source>>
           c == <<m.status>>
           d == LittleEndian(m.centi)
           e == LittleEndian(m.identifier)
           W == <<<<0, a>>, <<2, b>>, <<3, c>>, <<8, e>>, <<4, d>>>>
           A == Put({}, 0, a)
           B == Put(A, 2, b)
           C == Put(B, 3, c)
           D == Put(C, 4, d)
           E == Put(D, 8, e)
<1>1. /\ m.sequence \in Word(2) /\ m.source \in Byte /\ m.status \in Byte
      /\ m.centi \in Word(2) /\ m.identifier \in Word(8) /\ 16 \in Nat
  BY DEF TemperatureTelemetry, DIE_SENSORS, ONE_WIRE, MEASURED, UNMEASURED, Byte, Option
<1>2. Laid({}, 0) /\ (Shows(p, {}, 0) <=> TRUE)
  BY Blank, NoGap
<1>3. Laid(A, 2) /\ (Shows(p, A, 2) <=> Shows(p, {}, 0) /\ m.sequence = ReadLe(p, 0, 2))
  BY <1>1, <1>2, PutWord, NoGap
<1> HIDE DEF A
<1>4. Laid(B, 3) /\ (Shows(p, B, 3) <=> Shows(p, A, 2) /\ p[2] = m.source)
  BY <1>1, <1>3, PutByte, NoGap
<1> HIDE DEF B
<1>5. Laid(C, 4) /\ (Shows(p, C, 4) <=> Shows(p, B, 3) /\ p[3] = m.status)
  BY <1>1, <1>4, PutByte, NoGap
<1> HIDE DEF C
<1>6. /\ Laid(D, 8)
      /\ Shows(p, D, 8) <=> Shows(p, C, 4) /\ m.centi = ReadLe(p, 4, 2) /\ Zero(p, 6, 8)
  BY <1>1, <1>5, PutWord
<1> HIDE DEF D
<1>7. Laid(E, 16) /\ (Shows(p, E, 16) <=> Shows(p, D, 8) /\ m.identifier = ReadLe(p, 8, 8))
  BY <1>1, <1>6, PutWord, NoGap
<1> HIDE DEF E
<1> HIDE DEF a, b, c, d, e
<1>8. Range(W) = E
  BY DEF A, B, C, D, E, Put, Range
<1>9. E \subseteq Writes
  BY <1>7 DEF Laid
<1>10. W \in Seq(Writes)
  BY <1>8, <1>9 DEF Range
<1> QED BY <1>2, <1>3, <1>4, <1>5, <1>6, <1>7, <1>8, <1>10 DEF a, b, c, d, e

LEMMA ZeroSplits ==
    ASSUME NEW p, NEW a \in Nat, NEW b \in Nat, NEW c \in Nat, a <= b, b <= c
    PROVE  Zero(p, a, c) <=> Zero(p, a, b) /\ Zero(p, b, c)
BY DEF Zero

LEMMA TemperatureTrip ==
    ASSUME NEW f \in Frame
    PROVE  /\ DecodeTemperature(f) \subseteq TemperatureTelemetry
           /\ \A m \in TemperatureTelemetry :
                 f \in EncodeTemperature(m) <=> m \in DecodeTemperature(f)
<1> DEFINE p == f.payload
           node == Bits(f.id, "node")
           Mine(n) == Marked(f.id, 4, MessageClass["telemetry"], n, NODE_TARGET, PROTOCOL,
                             Opcode["TEMPERATURE"])
           meant == TemperatureReading(Header(f.id), p)
           Fine == /\ Zero(p, 6, 8) /\ (p[3] \in UNMEASURED => Zero(p, 4, 6))
<1>1. \A m : m \in DecodeTemperature(f) <=>
                /\ Mine(node) /\ ValidNodeId(node) /\ Length(p) = 16
                /\ Fine /\ ValidReading(meant) /\ m = meant
  <2>1. \A h : h \in NodeMessage(f, 4, "telemetry", Opcode["TEMPERATURE"], 16) <=>
             h = Header(f.id) /\ Mine(node) /\ ValidNodeId(node) /\ Length(p) = 16
    BY NodeTags, LegalClasses DEF MessageClass
  <2> QED BY <2>1 DEF DecodeTemperature
<1>2. meant = [kind |-> "TEMPERATURE", node |-> node, sequence |-> ReadLe(p, 0, 2),
               source |-> p[2], status |-> p[3], identifier |-> ReadLe(p, 8, 8),
               centi |-> IF p[3] \in MEASURED THEN ReadLe(p, 4, 2) ELSE NONE]
  BY HeaderFieldsOf DEF TemperatureReading
<1>3. ASSUME Length(p) = 16
      PROVE  ReadLe(p, 0, 2) \in Word(2) /\ ReadLe(p, 4, 2) \in Word(2) /\ ReadLe(p, 8,
          8) \in Word(8)
  <2>1. p \in Buffer(16)
    BY <1>3, Payloaded
  <2> QED BY <2>1, Reads
<1>4. ASSUME Length(p) = 16, ValidReading(meant) PROVE meant \in TemperatureTelemetry
  <2>1. p[3] \in MEASURED \cup UNMEASURED /\ p[2] \in DIE_SENSORS \cup {ONE_WIRE}
    BY <1>2, <1>4 DEF ValidReading, ValidSensor
  <2> QED BY <1>2, <1>3, <1>4, <2>1, NodeBytes DEF TemperatureTelemetry, Option
<1>5. ASSUME NEW m \in TemperatureTelemetry
      PROVE  f \in EncodeTemperature(m) <=> m \in DecodeTemperature(f)
  <2> DEFINE bare == <<<<0, LittleEndian(m.sequence)>>, <<2, <<m.source>>>>, <<3, <<m.status>>>>,
                       <<8, LittleEndian(m.identifier)>>>>
             full == <<<<0, LittleEndian(m.sequence)>>, <<2, <<m.source>>>>, <<3, <<m.status>>>>,
                       <<8, LittleEndian(m.identifier)>>, <<4, LittleEndian(m.centi)>>>>
             writes == IF m.centi = NONE THEN bare ELSE full
  <2>1. m = meant <=>
           /\ m.node = node /\ m.sequence = ReadLe(p, 0, 2) /\ m.source = p[2]
           /\ m.status = p[3] /\ m.identifier = ReadLe(p, 8, 8)
           /\ m.centi = IF p[3] \in MEASURED THEN ReadLe(p, 4, 2) ELSE NONE
    BY <1>2 DEF TemperatureTelemetry
  <2>2. Mine(m.node) <=> Mine(node) /\ m.node = node
    BY DEF Marked
  <2>3. f \in EncodeTemperature(m) <=>
            /\ ValidNodeId(m.node) /\ ValidReading(m)
            /\ f \in Framed(ProtocolHeader(4, "telemetry", m.node, NODE_TARGET,
                                           Opcode["TEMPERATURE"]), 16, writes)
    <3>1. bare \o <<>> = bare /\ bare \o <<<<4, LittleEndian(m.centi)>>>> = full
      BY Concat4And0, Concat4And1
    <3>2. bare \o (IF m.centi = NONE THEN <<>> ELSE <<<<4, LittleEndian(m.centi)>>>>) = writes
      BY <3>1, Zenon
    <3> QED BY <3>2, Zenon DEF EncodeTemperature
  <2>4. ASSUME ValidReading(m), m.node = node, Length(p) = 16
        PROVE  /\ writes \in Seq(Writes) /\ Laid(Range(writes), 16)
               /\ Shows(p, Range(writes), 16) <=> Fine /\ m = meant
    <3>1. m.status \in MEASURED <=> m.centi # NONE
      BY <2>4 DEF ValidReading
    <3>2. m.status \in UNMEASURED <=> m.status \notin MEASURED
      BY DEF TemperatureTelemetry, MEASURED, UNMEASURED
    <3>3. CASE m.centi = NONE
      <4>1. /\ bare \in Seq(Writes) /\ Laid(Range(bare), 16)
            /\ Shows(p, Range(bare), 16) <=>
                  /\ m.sequence = ReadLe(p, 0, 2) /\ p[2] = m.source /\ p[3] = m.status
                  /\ Zero(p, 4, 8) /\ m.identifier = ReadLe(p, 8, 8)
        BY UnmeasuredLayout, Zenon
      <4>2. Zero(p, 4, 8) <=> Zero(p, 4, 6) /\ Zero(p, 6, 8)
        BY ZeroSplits
      <4> HIDE DEF bare, full
      <4> QED BY <2>1, <2>4, <3>1, <3>2, <3>3, <4>1, <4>2
    <3>4. CASE m.centi # NONE
      <4>1. /\ full \in Seq(Writes) /\ Laid(Range(full), 16)
            /\ Shows(p, Range(full), 16) <=>
                  /\ m.sequence = ReadLe(p, 0, 2) /\ p[2] = m.source /\ p[3] = m.status
                  /\ m.centi = ReadLe(p, 4, 2) /\ Zero(p, 6, 8) /\ m.identifier = ReadLe(p, 8, 8)
        BY <3>4, MeasuredLayout, Zenon
      <4> HIDE DEF bare, full
      <4> QED BY <2>1, <2>4, <3>1, <3>2, <3>4, <4>1
    <3> QED BY <3>3, <3>4
  <2>5. writes \in Seq(Writes) /\ Laid(Range(writes), 16)
    BY UnmeasuredLayout, MeasuredLayout, Zenon
  <2> HIDE DEF writes
  <2>6. ASSUME ValidNodeId(m.node)
        PROVE  f \in Framed(ProtocolHeader(4, "telemetry", m.node, NODE_TARGET,
                                           Opcode["TEMPERATURE"]), 16, writes) <=>
                  Mine(m.node) /\ Length(p) = 16 /\ Shows(p, Range(writes), 16)
    <3>1. Proper(4, MessageClass["telemetry"], m.node, NODE_TARGET, PROTOCOL,
                 Opcode["TEMPERATURE"], 16)
      BY <2>6, Opcodes, MessageClasses
         DEF Proper, ValidNodeId, NODE_TARGET, PROTOCOL, CanFdLengths
    <3> QED BY <2>5, <3>1, NodeFramed
  <2>7. m = meant => m.node = node
    BY <2>1
  <2> HIDE DEF p, node, Mine, meant, Fine
  <2> QED BY <1>1, <2>2, <2>3, <2>4, <2>6, <2>7
<1> QED BY <1>1, <1>4, <1>5

-----------------------------------------------------------------------------
(* Bindings. *)

LEMMA BindingsAt ==
    ASSUME NEW p, NEW flag, NEW at, Bytes(p, at, 12) \in Word(12)
    PROVE  /\ \A b \in Option(CarrierBinding) :
                 b \in DecodeBindingAt(p, flag, at) <=>
                    IF b = NONE
                    THEN p[flag] = 0 /\ p[flag + 1] = 255 /\ Zero(p, at, at + 12)
                    ELSE /\ p[flag] # 0 /\ p[flag + 1] \in Slot
                         /\ b.slot = p[flag + 1] /\ b.uid = Bytes(p, at, 12)
           /\ DecodeBindingAt(p, flag, at) \subseteq Option(CarrierBinding)
<1> DEFINE given == [slot |-> p[flag + 1], uid |-> ReadUid(p, at)]
<1>1. \A b : b \in DecodeBindingAt(p, flag, at) <=>
         IF p[flag] = 0 THEN p[flag + 1] = 255 /\ Zero(p, at, at + 12) /\ b = NONE
         ELSE p[flag + 1] \in Slot /\ b = given
  BY DEF DecodeBindingAt, When
<1>2. \A b \in CarrierBinding : b = given <=> b.slot = p[flag + 1] /\ b.uid = Bytes(p, at, 12)
  BY DEF CarrierBinding, ReadUid
<1>3. given.slot = p[flag + 1] /\ given.uid = Bytes(p, at, 12)
  BY DEF ReadUid
<1>4. p[flag + 1] \in Slot => given \in CarrierBinding
  BY DEF CarrierBinding, NodeUid, ReadUid
<1>5. NONE \notin CarrierBinding
  BY NoneAssumption
<1> HIDE DEF given
<1>6. \A b \in Option(CarrierBinding) : b = NONE \/ (b # NONE /\ b \in CarrierBinding)
  BY DEF Option
<1> QED BY <1>1, <1>2, <1>4, <1>5, <1>6 DEF Option

LEMMA BoundLayout ==
    ASSUME NEW m \in BindingInfo, m.binding # NONE, NEW p
    PROVE  LET W == <<<<0, <<1>>>>, <<1, <<m.binding.slot>>>>, <<4, m.binding.uid>>>>
           IN  /\ W \in Seq(Writes) /\ Laid(Range(W), 16)
               /\ Shows(p, Range(W), 16) <=>
                     /\ p[0] = 1
                     /\ p[1] = m.binding.slot
                     /\ Zero(p, 2, 4)
                     /\ m.binding.uid = Bytes(p, 4, 12)
<1> DEFINE a == <<1>>
           b == <<m.binding.slot>>
           c == m.binding.uid
           W == <<<<0, a>>, <<1, b>>, <<4, c>>>>
           A == Put({}, 0, a)
           B == Put(A, 1, b)
           C == Put(B, 4, c)
<1>1. /\ 1 \in Byte /\ m.binding.slot \in Byte /\ m.binding.uid \in Word(12) /\ 16 \in Nat
  BY DEF BindingInfo, Option, CarrierBinding, NodeUid, Slot, Byte
<1>2. Laid({}, 0) /\ (Shows(p, {}, 0) <=> TRUE)
  BY Blank, NoGap
<1>3. Laid(A, 1) /\ (Shows(p, A, 1) <=> Shows(p, {}, 0) /\ p[0] = 1)
  BY <1>1, <1>2, PutByte, NoGap
<1> HIDE DEF A
<1>4. Laid(B, 4) /\ (Shows(p, B, 4) <=> Shows(p, A, 1) /\ p[1] = m.binding.slot /\ Zero(p, 2, 4))
  BY <1>1, <1>3, PutByte
<1> HIDE DEF B
<1>5. Laid(C, 16) /\ (Shows(p, C, 16) <=> Shows(p, B, 4) /\ m.binding.uid = Bytes(p, 4, 12))
  BY <1>1, <1>4, PutUid, NoGap
<1> HIDE DEF C
<1> HIDE DEF a, b, c
<1>6. Range(W) = C
  BY DEF A, B, C, Put, Range
<1>7. C \subseteq Writes
  BY <1>5 DEF Laid
<1>8. W \in Seq(Writes)
  BY <1>6, <1>7 DEF Range
<1> QED BY <1>2, <1>3, <1>4, <1>5, <1>6, <1>8 DEF a, b, c

LEMMA UnboundLayout ==
    ASSUME NEW p
    PROVE  LET W == <<<<1, <<255>>>>>>
           IN  /\ W \in Seq(Writes) /\ Laid(Range(W), 16)
               /\ Shows(p, Range(W), 16) <=>
                     /\ Zero(p, 0, 1)
                     /\ p[1] = 255
                     /\ Zero(p, 2, 16)
<1> DEFINE a == <<255>>
           W == <<<<1, a>>>>
           A == Put({}, 1, a)
<1>1. /\ 255 \in Byte /\ 16 \in Nat
  BY DEF Byte
<1>2. Laid({}, 1) /\ (Shows(p, {}, 1) <=> Zero(p, 0, 1))
  BY Blank, NoGap
<1>3. Laid(A, 16) /\ (Shows(p, A, 16) <=> Shows(p, {}, 1) /\ p[1] = 255 /\ Zero(p, 2, 16))
  BY <1>1, <1>2, PutByte
<1> HIDE DEF A
<1> HIDE DEF a
<1>4. Range(W) = A
  BY DEF A, Put, Range
<1>5. A \subseteq Writes
  BY <1>3 DEF Laid
<1>6. W \in Seq(Writes)
  BY <1>4, <1>5 DEF Range
<1> QED BY <1>2, <1>3, <1>4, <1>6 DEF a

LEMMA BindingTrip ==
    ASSUME NEW f \in Frame
    PROVE  /\ DecodeBinding(f) \subseteq BindingInfo
           /\ \A m \in BindingInfo : f \in EncodeBinding(m) <=> m \in DecodeBinding(f)
<1> DEFINE p == f.payload
           node == Bits(f.id, "node")
           Mine(n) == Marked(f.id, 5, MessageClass["management"], n, NODE_TARGET, PROTOCOL,
                             Opcode["BINDING"])
           Fine == Bool(p[0]) /\ Zero(p, 2, 4)
           Meant(b) == [kind |-> "BINDING", node |-> node, binding |-> b]
<1>1. \A m : m \in DecodeBinding(f) <=>
                /\ Mine(node) /\ ValidNodeId(node) /\ Length(p) = 16
                /\ Fine /\ \E b \in DecodeBindingAt(p, 0, 4) : m = Meant(b)
  <2>1. \A h : h \in NodeMessage(f, 5, "management", Opcode["BINDING"], 16) <=>
             h = Header(f.id) /\ Mine(node) /\ ValidNodeId(node) /\ Length(p) = 16
    BY NodeTags, LegalClasses DEF MessageClass
  <2> QED BY <2>1, HeaderFieldsOf DEF DecodeBinding
<1>2. ASSUME Length(p) = 16
      PROVE  /\ Bytes(p, 4, 12) \in Word(12)
             /\ DecodeBindingAt(p, 0, 4) \subseteq Option(CarrierBinding)
             /\ \A b \in Option(CarrierBinding) :
                   b \in DecodeBindingAt(p, 0, 4) <=>
                      IF b = NONE THEN p[0] = 0 /\ p[1] = 255 /\ Zero(p, 4, 16)
                      ELSE /\ p[0] # 0 /\ p[1] \in Slot
                           /\ b.slot = p[1] /\ b.uid = Bytes(p, 4, 12)
  <2>1. p \in Buffer(16)
    BY <1>2, Payloaded
  <2>2. Bytes(p, 4, 12) \in Word(12)
    BY <2>1, Reads
  <2>3. 0 + 1 = 1 /\ 4 + 12 = 16
    OBVIOUS
  <2> HIDE DEF p
  <2> QED BY <2>2, <2>3, BindingsAt
<1>3. ASSUME Length(p) = 16, NEW b \in DecodeBindingAt(p, 0, 4) PROVE Meant(b) \in BindingInfo
  BY <1>2, <1>3, NodeBytes DEF BindingInfo
<1>4. ASSUME NEW m \in BindingInfo
      PROVE  f \in EncodeBinding(m) <=> m \in DecodeBinding(f)
  <2> DEFINE absent == <<<<1, <<255>>>>>>
             present == <<<<0, <<1>>>>, <<1, <<m.binding.slot>>>>, <<4, m.binding.uid>>>>
             writes == IF m.binding = NONE THEN absent ELSE present
  <2>1. \A b : m = Meant(b) <=> m.node = node /\ m.binding = b
    BY DEF BindingInfo
  <2>2. Mine(m.node) <=> Mine(node) /\ m.node = node
    BY DEF Marked
  <2>3. /\ m.binding \in Option(CarrierBinding)
        /\ m.binding # NONE => m.binding.slot \in Slot
    BY DEF BindingInfo, Option, CarrierBinding
  <2>4. f \in EncodeBinding(m) <=>
            /\ ValidNodeId(m.node)
            /\ f \in Framed(ProtocolHeader(5, "management", m.node, NODE_TARGET,
                                           Opcode["BINDING"]), 16, writes)
    BY DEF EncodeBinding
  <2>5. ASSUME m.binding = NONE
        PROVE  /\ writes \in Seq(Writes) /\ Laid(Range(writes), 16)
               /\ Shows(p, Range(writes), 16) <=> Fine /\ p[0] = 0 /\ p[1] = 255 /\ Zero(p, 4, 16)
    <3>1. /\ absent \in Seq(Writes) /\ Laid(Range(absent), 16)
          /\ Shows(p, Range(absent), 16) <=> Zero(p, 0, 1) /\ p[1] = 255 /\ Zero(p, 2, 16)
      BY UnboundLayout
    <3>2. /\ Zero(p, 0, 1) <=> p[0] = 0
          /\ Zero(p, 2, 16) <=> Zero(p, 2, 4) /\ Zero(p, 4, 16)
      BY OneByte, ZeroSplits
    <3> HIDE DEF absent
    <3> QED BY <2>5, <3>1, <3>2 DEF Bool
  <2>6. ASSUME m.binding # NONE
        PROVE  /\ writes \in Seq(Writes) /\ Laid(Range(writes), 16)
               /\ Shows(p, Range(writes), 16) <=>
                     /\ Fine /\ p[0] # 0 /\ m.binding.slot = p[1]
                     /\ m.binding.uid = Bytes(p, 4, 12)
    <3>1. /\ present \in Seq(Writes) /\ Laid(Range(present), 16)
          /\ Shows(p, Range(present), 16) <=>
                /\ p[0] = 1 /\ p[1] = m.binding.slot /\ Zero(p, 2, 4)
                /\ m.binding.uid = Bytes(p, 4, 12)
      BY <2>6, BoundLayout
    <3> HIDE DEF present
    <3> QED BY <2>6, <3>1 DEF Bool
  <2>7. ASSUME Length(p) = 16, m.node = node
        PROVE  Shows(p, Range(writes), 16) <=>
                  Fine /\ \E b \in DecodeBindingAt(p, 0, 4) : m = Meant(b)
    <3>1. (\E b \in DecodeBindingAt(p, 0, 4) : m = Meant(b)) <=>
              m.binding \in DecodeBindingAt(p, 0, 4)
      BY <2>1, <2>7
    <3>2. CASE m.binding = NONE
      BY <1>2, <2>3, <2>5, <2>7, <3>1, <3>2
    <3>3. CASE m.binding # NONE
      BY <1>2, <2>3, <2>6, <2>7, <3>1, <3>3
    <3> QED BY <3>2, <3>3
  <2>8. writes \in Seq(Writes) /\ Laid(Range(writes), 16)
    BY <2>5, <2>6
  <2> HIDE DEF writes
  <2>9. ASSUME ValidNodeId(m.node)
        PROVE  f \in Framed(ProtocolHeader(5, "management", m.node, NODE_TARGET,
                                           Opcode["BINDING"]), 16, writes) <=>
                  Mine(m.node) /\ Length(p) = 16 /\ Shows(p, Range(writes), 16)
    <3>1. Proper(5, MessageClass["management"], m.node, NODE_TARGET, PROTOCOL,
                 Opcode["BINDING"], 16)
      BY <2>9, Opcodes, MessageClasses
         DEF Proper, ValidNodeId, NODE_TARGET, PROTOCOL, CanFdLengths
    <3> QED BY <2>8, <3>1, NodeFramed
  <2>10. (\E b \in DecodeBindingAt(p, 0, 4) : m = Meant(b)) => m.node = node
    BY <2>1
  <2> HIDE DEF p, node, Mine, Meant, Fine
  <2> QED BY <1>1, <2>2, <2>4, <2>7, <2>9, <2>10
<1> QED BY <1>1, <1>3, <1>4

-----------------------------------------------------------------------------
(* Node descriptors and node information. *)

LEMMA Profiles ==
    ASSUME NEW x \in Option(1 .. 4)
    PROVE  /\ ProfileByte(x) \in Byte
           /\ \A b \in Byte : x = OptionalProfile(b) <=> b = ProfileByte(x)
<1>1. NONE \notin Byte
  BY NoneAssumption
<1>2. x = NONE \/ (x \in 1 .. 4 /\ x # NONE)
  BY DEF Option
<1>3. 0 \in Byte /\ \A y \in 1 .. 4 : y \in Byte /\ y # 0
  BY DEF Byte
<1> QED BY <1>1, <1>2, <1>3 DEF ProfileByte, OptionalProfile

(* The bytes from o on that a descriptor is read from. *)
InfoBytes(p, o, d) ==
    /\ p[o] = d.role /\ p[o + 1] = ProfileByte(d.profile) /\ p[o + 2] = d.revision
    /\ p[o + 3] = d.impact /\ d.caps = ReadLe(p, o + 4, 8) /\ p[o + 12] = d.outputs
    /\ p[o + 13] = d.fans /\ p[o + 14] = d.sensors /\ p[o + 15] = d.layout
    /\ d.firmware = ReadVersion(p, o + 16) /\ d.bootloader = ReadVersion(p, o + 22)
    /\ Zero(p, o + 28, o + 32)

LEMMA ByteAt ==
    ASSUME NEW p, NEW S, NEW o \in Nat, Laid(S, o), NEW b \in Byte,
           NEW e \in Nat, e = o + 1
    PROVE  /\ Laid(Put(S, o, <<b>>), e)
           /\ Shows(p, Put(S, o, <<b>>), e) <=> Shows(p, S, o) /\ p[o] = b
<1>1. o + 1 \in Nat /\ o + 1 <= e /\ Zero(p, o + 1, e)
  BY NoGap
<1> QED BY <1>1, PutByte, Zenon

LEMMA WordAt ==
    ASSUME NEW p, NEW S, NEW o \in Nat, Laid(S, o), NEW n \in Nat, NEW v \in Word(n),
           NEW e \in Nat, e = o + n
    PROVE  /\ Laid(Put(S, o, LittleEndian(v)), e)
           /\ Shows(p, Put(S, o, LittleEndian(v)), e) <=> Shows(p, S, o) /\ v = ReadLe(p, o, n)
<1>1. o + n \in Nat /\ o + n <= e /\ Zero(p, o + n, e)
  BY NoGap
<1> QED BY <1>1, PutWord

LEMMA VersionAt ==
    ASSUME NEW p, NEW S, NEW o \in Nat, Laid(S, o), NEW v \in FirmwareVersion,
           NEW e \in Nat, e = o + 6
    PROVE  /\ Laid(Put(S, o, Version(v)), e)
           /\ Shows(p, Put(S, o, Version(v)), e) <=> Shows(p, S, o) /\ v = ReadVersion(p, o)
<1>1. o + 6 \in Nat /\ o + 6 <= e /\ Zero(p, o + 6, e)
  BY NoGap
<1> QED BY <1>1, PutVersion

LEMMA InfoLaid ==
    ASSUME NEW m \in NodeDescriptor, NEW o \in Nat,
           NEW p, NEW S, Laid(S, o)
    PROVE  /\ InfoWrites(m, o) \in Seq(Writes) /\ Laid(S \cup Range(InfoWrites(m, o)), o + 32)
           /\ Shows(p, S \cup Range(InfoWrites(m, o)), o + 32) <=>
                 Shows(p, S, o) /\ InfoBytes(p, o, m)
<1> DEFINE at1 == o + 1
           at2 == o + 2
           at3 == o + 3
           at4 == o + 4
           at12 == o + 12
           at13 == o + 13
           at14 == o + 14
           at15 == o + 15
           at16 == o + 16
           at22 == o + 22
           at28 == o + 28
           at32 == o + 32
<1>0. /\ at1 \in Nat /\ at2 \in Nat /\ at3 \in Nat /\ at4 \in Nat /\ at12 \in Nat
      /\ at13 \in Nat /\ at14 \in Nat /\ at15 \in Nat /\ at16 \in Nat /\ at22 \in Nat
      /\ at28 \in Nat /\ at32 \in Nat /\ at1 = o + 1 /\ at2 = at1 + 1 /\ at3 = at2 + 1
      /\ at4 = at3 + 1 /\ at12 = at4 + 8 /\ at13 = at12 + 1 /\ at14 = at13 + 1
      /\ at15 = at14 + 1 /\ at16 = at15 + 1 /\ at22 = at16 + 6 /\ at28 = at22 + 6
      /\ at32 = at28 + 4
  OBVIOUS
<1> HIDE DEF at1, at2, at3, at4, at12, at13, at14, at15, at16, at22, at28, at32
<1> DEFINE a == <<m.role>>
           b == <<ProfileByte(m.profile)>>
           c == <<m.revision>>
           d == <<m.impact>>
           e == LittleEndian(m.caps)
           f == <<m.outputs>>
           g == <<m.fans>>
           h == <<m.sensors>>
           i == <<m.layout>>
           j == Version(m.firmware)
           k == Version(m.bootloader)
           W == <<<<o, a>>, <<at1, b>>, <<at2, c>>, <<at3, d>>, <<at4, e>>, <<at12, f>>,
                  <<at13, g>>, <<at14, h>>, <<at15, i>>, <<at16, j>>,
                  <<at22, k>>>>
           A == Put(S, o, a)
           B == Put(A, at1, b)
           C == Put(B, at2, c)
           D == Put(C, at3, d)
           E == Put(D, at4, e)
           F == Put(E, at12, f)
           G == Put(F, at13, g)
           H == Put(G, at14, h)
           I == Put(H, at15, i)
           J == Put(I, at16, j)
           K == Put(J, at22, k)
<1>1. /\ m.role \in Byte /\ ProfileByte(m.profile) \in Byte /\ m.revision \in Byte
      /\ m.impact \in Byte /\ m.caps \in Word(8) /\ m.outputs \in Byte /\ m.fans \in Byte
      /\ m.sensors \in Byte /\ m.layout \in Byte /\ m.firmware \in FirmwareVersion
      /\ m.bootloader \in FirmwareVersion
  BY Profiles DEF NodeDescriptor, BACKPLANE, CARRIER, HardwareRevision, UpdateImpact, Byte
<1>2. Laid(S, o)
  OBVIOUS
<1>3. /\ Laid(A, at1)
      /\ Shows(p, A, at1) <=> Shows(p, S, o) /\ p[o] = m.role
  <2>1. o \in Nat /\ at1 \in Nat /\ at1 = o + 1
    BY <1>0
  <2>2. m.role \in Byte
    BY <1>1
  <2> HIDE DEF W
  <2> QED BY <1>2, <2>1, <2>2, ByteAt, ZenonT(40)
<1> HIDE DEF A
<1>4. /\ Laid(B, at2)
      /\ Shows(p, B, at2) <=> Shows(p, A, at1) /\ p[at1] = ProfileByte(m.profile)
  <2>1. at1 \in Nat /\ at2 \in Nat /\ at2 = at1 + 1
    BY <1>0
  <2> QED BY <1>1, <1>3, <2>1, ByteAt
<1> HIDE DEF B
<1>5. /\ Laid(C, at3)
      /\ Shows(p, C, at3) <=> Shows(p, B, at2) /\ p[at2] = m.revision
  <2>1. at2 \in Nat /\ at3 \in Nat /\ at3 = at2 + 1
    BY <1>0
  <2> QED BY <1>1, <1>4, <2>1, ByteAt
<1> HIDE DEF C
<1>6. /\ Laid(D, at4)
      /\ Shows(p, D, at4) <=> Shows(p, C, at3) /\ p[at3] = m.impact
  <2>1. at3 \in Nat /\ at4 \in Nat /\ at4 = at3 + 1
    BY <1>0
  <2> QED BY <1>1, <1>5, <2>1, ByteAt
<1> HIDE DEF D
<1>7. /\ Laid(E, at12)
      /\ Shows(p, E, at12) <=> Shows(p, D, at4) /\ m.caps = ReadLe(p, at4, 8)
  <2>1. at4 \in Nat /\ at12 \in Nat /\ at12 = at4 + 8
    BY <1>0
  <2> QED BY <1>1, <1>6, <2>1, WordAt
<1> HIDE DEF E
<1>8. /\ Laid(F, at13)
      /\ Shows(p, F, at13) <=> Shows(p, E, at12) /\ p[at12] = m.outputs
  <2>1. at12 \in Nat /\ at13 \in Nat /\ at13 = at12 + 1
    BY <1>0
  <2> QED BY <1>1, <1>7, <2>1, ByteAt
<1> HIDE DEF F
<1>9. /\ Laid(G, at14)
      /\ Shows(p, G, at14) <=> Shows(p, F, at13) /\ p[at13] = m.fans
  <2>1. at13 \in Nat /\ at14 \in Nat /\ at14 = at13 + 1
    BY <1>0
  <2> QED BY <1>1, <1>8, <2>1, ByteAt
<1> HIDE DEF G
<1>10. /\ Laid(H, at15)
       /\ Shows(p, H, at15) <=> Shows(p, G, at14) /\ p[at14] = m.sensors
  <2>1. at14 \in Nat /\ at15 \in Nat /\ at15 = at14 + 1
    BY <1>0
  <2> QED BY <1>1, <1>9, <2>1, ByteAt
<1> HIDE DEF H
<1>11. /\ Laid(I, at16)
       /\ Shows(p, I, at16) <=> Shows(p, H, at15) /\ p[at15] = m.layout
  <2>1. at15 \in Nat /\ at16 \in Nat /\ at16 = at15 + 1
    BY <1>0
  <2> QED BY <1>1, <1>10, <2>1, ByteAt
<1> HIDE DEF I
<1>12. /\ Laid(J, at22)
       /\ Shows(p, J, at22) <=> Shows(p, I, at16) /\ m.firmware = ReadVersion(p, at16)
  <2>1. at16 \in Nat /\ at22 \in Nat /\ at22 = at16 + 6
    BY <1>0
  <2> QED BY <1>1, <1>11, <2>1, VersionAt
<1> HIDE DEF J
<1>13. /\ Laid(K, at32)
       /\ Shows(p, K, at32) <=> Shows(p, J, at22) /\ m.bootloader = ReadVersion(p, at22)
              /\ Zero(p, at28, at32)
  <2>1. at22 \in Nat /\ at28 \in Nat /\ at32 \in Nat /\ at28 = at22 + 6 /\ at28 <= at32
    BY <1>0
  <2>2. Laid(K, at28) /\ (Shows(p, K, at28) <=> Shows(p, J, at22)
            /\ m.bootloader = ReadVersion(p, at22))
    BY <1>1, <1>12, <2>1, VersionAt
  <2>3. Laid(K, at32) /\ (Shows(p, K, at32) <=> Shows(p, K, at28) /\ Zero(p, at28, at32))
    <3> HIDE DEF K
    <3> QED BY <2>1, <2>2, Padded
  <2> QED BY <2>2, <2>3
<1> HIDE DEF K
<1> HIDE DEF a, b, c, d, e, f, g, h, i, j, k
<1>14. S \cup Range(W) = K
  <2>1. Range(W) = {W[1], W[2], W[3], W[4], W[5], W[6], W[7], W[8], W[9], W[10], W[11]}
    BY DEF Range
  <2> QED BY <2>1 DEF A, B, C, D, E, F, G, H, I, J, K, Put
<1>15. /\ <<o, a>> \in Range(W) /\ <<at1, b>> \in Range(W) /\ <<at2, c>> \in Range(W)
       /\ <<at3, d>> \in Range(W) /\ <<at4, e>> \in Range(W) /\ <<at12, f>> \in Range(W)
       /\ <<at13, g>> \in Range(W) /\ <<at14, h>> \in Range(W) /\ <<at15, i>> \in Range(W)
       /\ <<at16, j>> \in Range(W) /\ <<at22, k>> \in Range(W)
  BY DEF Range
<1>16. Range(W) \subseteq Writes
  <2> HIDE DEF W
  <2> QED BY <1>13, <1>14 DEF Laid
<1>17. W \in Seq(Writes)
  BY <1>15, <1>16, SMTT(30)
<1>18. /\ W \in Seq(Writes) /\ Laid(S \cup Range(W), at32)
       /\ Shows(p, S \cup Range(W), at32) <=>
             /\ Shows(p, S, o) /\ p[o] = m.role /\ p[at1] = ProfileByte(m.profile)
             /\ p[at2] = m.revision /\ p[at3] = m.impact /\ m.caps = ReadLe(p, at4, 8)
             /\ p[at12] = m.outputs /\ p[at13] = m.fans /\ p[at14] = m.sensors
             /\ p[at15] = m.layout /\ m.firmware = ReadVersion(p, at16)
             /\ m.bootloader = ReadVersion(p, at22) /\ Zero(p, at28, at32)
  <2> HIDE DEF W
  <2> QED BY <1>3, <1>4, <1>5, <1>6, <1>7, <1>8, <1>9, <1>10, <1>11, <1>12, <1>13, <1>14, <1>17,
             Zenon
<1> QED BY <1>18, Zenon DEF W, a, b, c, d, e, f, g, h, i, j, k, at1, at2, at3, at4, at12, at13,
        at14, at15, at16, at22, at28, at32, InfoWrites, InfoBytes

LEMMA Infos ==
    ASSUME NEW n \in Nat, NEW p \in Buffer(n), NEW o \in Nat, o + 32 <= n
    PROVE  /\ DecodeInfo(p, o) \subseteq NodeDescriptor
           /\ \A d \in NodeDescriptor :
                 d \in DecodeInfo(p, o) <=> ValidDescriptor(d) /\ InfoBytes(p, o, d)
<1> DEFINE given == [role |-> p[o], profile |-> OptionalProfile(p[o + 1]), revision |-> p[o + 2],
                     impact |-> p[o + 3], caps |-> ReadLe(p, o + 4, 8), outputs |-> p[o + 12],
                     fans |-> p[o + 13], sensors |-> p[o + 14], layout |-> p[o + 15],
                     firmware |-> ReadVersion(p, o + 16), bootloader |-> ReadVersion(p, o + 22)]
<1>1. \A d : d \in DecodeInfo(p, o) <=>
         /\ Zero(p, o + 28, o + 32) /\ p[o + 2] \in HardwareRevision /\ p[o + 3] \in UpdateImpact
         /\ ValidDescriptor(given) /\ d = given
  BY DEF DecodeInfo, When
<1>2. /\ p[o] \in Byte /\ p[o + 1] \in Byte /\ p[o + 12] \in Byte /\ p[o + 13] \in Byte
      /\ p[o + 14] \in Byte /\ p[o + 15] \in Byte
  <2>1. /\ o \in 0 .. n - 1 /\ o + 1 \in 0 .. n - 1 /\ o + 12 \in 0 .. n - 1
        /\ o + 13 \in 0 .. n - 1 /\ o + 14 \in 0 .. n - 1 /\ o + 15 \in 0 .. n - 1
    OBVIOUS
  <2> QED BY <2>1 DEF Buffer
<1>3. ReadLe(p, o + 4, 8) \in Word(8)
  <2>1. o + 4 \in Nat /\ 8 \in Nat /\ (o + 4) + 8 <= n
    OBVIOUS
  <2> QED BY <2>1, Reads
<1>4. ReadVersion(p, o + 16) \in FirmwareVersion /\ ReadVersion(p, o + 22) \in FirmwareVersion
  <2>1. o + 16 \in Nat /\ (o + 16) + 6 <= n /\ o + 22 \in Nat /\ (o + 22) + 6 <= n
    OBVIOUS
  <2> QED BY <2>1, ReadsVersion
<1>5. ASSUME p[o + 2] \in HardwareRevision, p[o + 3] \in UpdateImpact, ValidDescriptor(given)
      PROVE  given \in NodeDescriptor
  <2>1. RoleProfile(p[o], OptionalProfile(p[o + 1]))
    BY <1>5 DEF ValidDescriptor
  <2>2. p[o] \in {BACKPLANE, CARRIER} /\ OptionalProfile(p[o + 1]) \in Option(1 .. 4)
    BY <2>1 DEF RoleProfile, Option
  <2> QED BY <1>2, <1>3, <1>4, <1>5, <2>2 DEF NodeDescriptor
<1>6. ASSUME NEW d \in NodeDescriptor
      PROVE  d \in DecodeInfo(p, o) <=> ValidDescriptor(d) /\ InfoBytes(p, o, d)
  <2>1. d = given <=>
           /\ d.role = p[o] /\ d.profile = OptionalProfile(p[o + 1]) /\ d.revision = p[o + 2]
           /\ d.impact = p[o + 3] /\ d.caps = ReadLe(p, o + 4, 8) /\ d.outputs = p[o + 12]
           /\ d.fans = p[o + 13] /\ d.sensors = p[o + 14] /\ d.layout = p[o + 15]
           /\ d.firmware = ReadVersion(p, o + 16) /\ d.bootloader = ReadVersion(p, o + 22)
    BY DEF NodeDescriptor
  <2>2. d.profile = OptionalProfile(p[o + 1]) <=> p[o + 1] = ProfileByte(d.profile)
    BY <1>2, Profiles DEF NodeDescriptor
  <2>3. d.revision \in HardwareRevision /\ d.impact \in UpdateImpact
    BY DEF NodeDescriptor
  <2> HIDE DEF given
  <2> QED BY <1>1, <2>1, <2>2, <2>3 DEF InfoBytes
<1> QED BY <1>1, <1>5, <1>6

LEMMA NodeInfoTrip ==
    ASSUME NEW f \in Frame
    PROVE  /\ DecodeNodeInfo(f) \subseteq NodeInfo
           /\ \A m \in NodeInfo : f \in EncodeNodeInfo(m) <=> m \in DecodeNodeInfo(f)
<1> DEFINE p == f.payload
           node == Bits(f.id, "node")
           Mine(n) == Marked(f.id, 5, MessageClass["management"], n, NODE_TARGET, PROTOCOL,
                             Opcode["NODE_INFO"])
           Meant(d) == [kind |-> "NODE_INFO", node |-> node, info |-> d]
<1>1. \A m : m \in DecodeNodeInfo(f) <=>
                /\ Mine(node) /\ ValidNodeId(node) /\ Length(p) = 32
                /\ \E d \in DecodeInfo(p, 0) : m = Meant(d)
  <2>1. \A h : h \in NodeMessage(f, 5, "management", Opcode["NODE_INFO"], 32) <=>
             h = Header(f.id) /\ Mine(node) /\ ValidNodeId(node) /\ Length(p) = 32
    BY NodeTags, LegalClasses DEF MessageClass
  <2> QED BY <2>1, HeaderFieldsOf DEF DecodeNodeInfo
<1>2. ASSUME Length(p) = 32
      PROVE  /\ DecodeInfo(p, 0) \subseteq NodeDescriptor
             /\ \A d \in NodeDescriptor :
                   d \in DecodeInfo(p, 0) <=> ValidDescriptor(d) /\ InfoBytes(p, 0, d)
  <2>1. p \in Buffer(32)
    BY <1>2, Payloaded
  <2>2. 32 \in Nat /\ 0 \in Nat /\ 0 + 32 <= 32
    OBVIOUS
  <2> HIDE DEF p
  <2> QED BY <2>1, <2>2, Infos
<1>3. ASSUME Length(p) = 32, NEW d \in DecodeInfo(p, 0) PROVE Meant(d) \in NodeInfo
  BY <1>2, <1>3, NodeBytes DEF NodeInfo
<1>4. ASSUME NEW m \in NodeInfo
      PROVE  f \in EncodeNodeInfo(m) <=> m \in DecodeNodeInfo(f)
  <2> DEFINE writes == InfoWrites(m.info, 0)
  <2>1. \A d : m = Meant(d) <=> m.node = node /\ m.info = d
    BY DEF NodeInfo
  <2>2. Mine(m.node) <=> Mine(node) /\ m.node = node
    BY DEF Marked
  <2>3. m.info \in NodeDescriptor
    BY DEF NodeInfo
  <2>4. f \in EncodeNodeInfo(m) <=>
            /\ ValidNodeId(m.node) /\ ValidDescriptor(m.info)
            /\ f \in Framed(ProtocolHeader(5, "management", m.node, NODE_TARGET,
                                           Opcode["NODE_INFO"]), 32, writes)
    BY DEF EncodeNodeInfo
  <2>5. /\ writes \in Seq(Writes) /\ Laid(Range(writes), 32)
        /\ Shows(p, Range(writes), 32) <=> InfoBytes(p, 0, m.info)
    <3>1. Laid({}, 0) /\ Shows(p, {}, 0)
      BY Blank, NoGap
    <3>2. /\ writes \in Seq(Writes) /\ Laid({} \cup Range(writes), 0 + 32)
          /\ Shows(p, {} \cup Range(writes), 0 + 32) <=> Shows(p, {}, 0) /\ InfoBytes(p, 0, m.info)
      BY <2>3, <3>1, InfoLaid, Zenon
    <3> HIDE DEF writes
    <3>3. {} \cup Range(writes) = Range(writes) /\ 0 + 32 = 32
      OBVIOUS
    <3> QED BY <3>1, <3>2, <3>3
  <2> HIDE DEF writes
  <2>6. ASSUME ValidNodeId(m.node)
        PROVE  f \in Framed(ProtocolHeader(5, "management", m.node, NODE_TARGET,
                                           Opcode["NODE_INFO"]), 32, writes) <=>
                  Mine(m.node) /\ Length(p) = 32 /\ Shows(p, Range(writes), 32)
    <3>1. Proper(5, MessageClass["management"], m.node, NODE_TARGET, PROTOCOL,
                 Opcode["NODE_INFO"], 32)
      BY <2>6, Opcodes, MessageClasses
         DEF Proper, ValidNodeId, NODE_TARGET, PROTOCOL, CanFdLengths
    <3> QED BY <2>5, <3>1, NodeFramed
  <2>7. (\E d \in DecodeInfo(p, 0) : m = Meant(d)) <=>
            m.node = node /\ m.info \in DecodeInfo(p, 0)
    BY <2>1
  <2> HIDE DEF p, node, Mine, Meant
  <2> QED BY <1>1, <1>2, <2>2, <2>3, <2>4, <2>5, <2>6, <2>7
<1> QED BY <1>1, <1>3, <1>4

-----------------------------------------------------------------------------
(* The status of an update. *)

(* The writes of a status, without and with a staged version. *)
BareStatus(m) ==
    <<<<0, LittleEndian(m.request)>>, <<8, <<m.state>>>>, <<9, <<m.error>>>>,
      <<10, <<m.impact>>>>, <<11, <<Flag(m.staged # NONE)>>>>, <<12, Version(m.running)>>,
      <<24, LittleEndian(m.session)>>, <<28, LittleEndian(m.next)>>, <<32, m.digest>>>>

StagedStatus(m) ==
    <<<<0, LittleEndian(m.request)>>, <<8, <<m.state>>>>, <<9, <<m.error>>>>,
      <<10, <<m.impact>>>>, <<11, <<Flag(m.staged # NONE)>>>>, <<12, Version(m.running)>>,
      <<24, LittleEndian(m.session)>>, <<28, LittleEndian(m.next)>>, <<32, m.digest>>,
      <<18, Version(m.staged)>>>>

LEMMA NoneStagedLayout ==
    ASSUME NEW m \in FirmwareStatus, NEW p
    PROVE  LET W == BareStatus(m) IN
           /\ W \in Seq(Writes) /\ Laid(Range(W), 64)
           /\ Shows(p, Range(W), 64) <=>
                /\ m.request = ReadLe(p, 0, 8) /\ p[8] = m.state /\ p[9] = m.error
                /\ p[10] = m.impact /\ p[11] = Flag(m.staged # NONE)
                /\ m.running = ReadVersion(p, 12) /\ Zero(p, 18, 24)
                /\ m.session = ReadLe(p, 24, 4) /\ m.next = ReadLe(p, 28, 4)
                /\ m.digest = Bytes(p, 32, 32)
<1> DEFINE W == BareStatus(m)
           a == LittleEndian(m.request)
           b == <<m.state>>
           c == <<m.error>>
           d == <<m.impact>>
           e == <<Flag(m.staged # NONE)>>
           f == Version(m.running)
           g == LittleEndian(m.session)
           h == LittleEndian(m.next)
           i == m.digest
           A == Put({}, 0, a)
           B == Put(A, 8, b)
           C == Put(B, 9, c)
           D == Put(C, 10, d)
           E == Put(D, 11, e)
           F == Put(E, 12, f)
           G == Put(F, 24, g)
           H == Put(G, 28, h)
           I == Put(H, 32, i)
<1>1. /\ m.request \in Word(8) /\ m.state \in Byte /\ m.error \in Byte /\ m.impact \in Byte
      /\ Flag(m.staged # NONE) \in Byte /\ m.running \in FirmwareVersion
      /\ m.session \in Word(4) /\ m.next \in Word(4) /\ m.digest \in Word(32) /\ 64 \in Nat
  BY DEF FirmwareStatus, RequestIds, UpdateState, UpdateError, UpdateImpact, Flag, Sha256, Byte
<1>2. Laid({}, 0) /\ (Shows(p, {}, 0) <=> TRUE)
  BY Blank, NoGap
<1>3. Laid(A, 8) /\ (Shows(p, A, 8) <=> Shows(p, {}, 0) /\ m.request = ReadLe(p, 0, 8))
  BY <1>1, <1>2, PutWord, NoGap
<1> HIDE DEF A
<1>4. Laid(B, 9) /\ (Shows(p, B, 9) <=> Shows(p, A, 8) /\ p[8] = m.state)
  BY <1>1, <1>3, PutByte, NoGap
<1> HIDE DEF B
<1>5. Laid(C, 10) /\ (Shows(p, C, 10) <=> Shows(p, B, 9) /\ p[9] = m.error)
  BY <1>1, <1>4, PutByte, NoGap
<1> HIDE DEF C
<1>6. Laid(D, 11) /\ (Shows(p, D, 11) <=> Shows(p, C, 10) /\ p[10] = m.impact)
  BY <1>1, <1>5, PutByte, NoGap
<1> HIDE DEF D
<1>7. Laid(E, 12) /\ (Shows(p, E, 12) <=> Shows(p, D, 11) /\ p[11] = Flag(m.staged # NONE))
  BY <1>1, <1>6, PutByte, NoGap
<1> HIDE DEF E
<1>8. /\ Laid(F, 24)
      /\ Shows(p, F, 24) <=> Shows(p, E, 12) /\ m.running = ReadVersion(p, 12) /\ Zero(p, 18, 24)
  BY <1>1, <1>7, PutVersion
<1> HIDE DEF F
<1>9. Laid(G, 28) /\ (Shows(p, G, 28) <=> Shows(p, F, 24) /\ m.session = ReadLe(p, 24, 4))
  BY <1>1, <1>8, PutWord, NoGap
<1> HIDE DEF G
<1>10. Laid(H, 32) /\ (Shows(p, H, 32) <=> Shows(p, G, 28) /\ m.next = ReadLe(p, 28, 4))
  BY <1>1, <1>9, PutWord, NoGap
<1> HIDE DEF H
<1>11. Laid(I, 64) /\ (Shows(p, I, 64) <=> Shows(p, H, 32) /\ m.digest = Bytes(p, 32, 32))
  BY <1>1, <1>10, PutUid, NoGap
<1> HIDE DEF I
<1>12. W = <<<<0, a>>, <<8, b>>, <<9, c>>, <<10, d>>, <<11, e>>, <<12, f>>, <<24, g>>, <<28, h>>,
             <<32, i>>>>
  BY DEF BareStatus
<1> HIDE DEF W, a, b, c, d, e, f, g, h, i
<1>13. Range(W) = I
  BY <1>12 DEF A, B, C, D, E, F, G, H, I, Put, Range
<1>14. I \subseteq Writes
  BY <1>11 DEF Laid
<1>15. W \in Seq(Range(W))
  BY <1>12 DEF Range
<1>16. W \in Seq(Writes)
  BY <1>13, <1>14, <1>15, Widened
<1> QED BY <1>2, <1>3, <1>4, <1>5, <1>6, <1>7, <1>8, <1>9, <1>10, <1>11, <1>13, <1>16,
        ZenonT(40) DEF W

LEMMA StagedLayout ==
    ASSUME NEW m \in FirmwareStatus, m.staged # NONE, NEW p
    PROVE  LET W == StagedStatus(m) IN
           /\ W \in Seq(Writes) /\ Laid(Range(W), 64)
           /\ Shows(p, Range(W), 64) <=>
                /\ m.request = ReadLe(p, 0, 8) /\ p[8] = m.state /\ p[9] = m.error
                /\ p[10] = m.impact /\ p[11] = Flag(m.staged # NONE)
                /\ m.running = ReadVersion(p, 12) /\ m.staged = ReadVersion(p, 18)
                /\ m.session = ReadLe(p, 24, 4) /\ m.next = ReadLe(p, 28, 4)
                /\ m.digest = Bytes(p, 32, 32)
<1> DEFINE W == StagedStatus(m)
           a == LittleEndian(m.request)
           b == <<m.state>>
           c == <<m.error>>
           d == <<m.impact>>
           e == <<Flag(m.staged # NONE)>>
           f == Version(m.running)
           g == Version(m.staged)
           h == LittleEndian(m.session)
           i == LittleEndian(m.next)
           j == m.digest
           A == Put({}, 0, a)
           B == Put(A, 8, b)
           C == Put(B, 9, c)
           D == Put(C, 10, d)
           E == Put(D, 11, e)
           F == Put(E, 12, f)
           G == Put(F, 18, g)
           H == Put(G, 24, h)
           I == Put(H, 28, i)
           J == Put(I, 32, j)
<1>1. /\ m.request \in Word(8) /\ m.state \in Byte /\ m.error \in Byte /\ m.impact \in Byte
      /\ Flag(m.staged # NONE) \in Byte /\ m.running \in FirmwareVersion
      /\ m.staged \in FirmwareVersion /\ m.session \in Word(4) /\ m.next \in Word(4)
      /\ m.digest \in Word(32) /\ 64 \in Nat
  BY DEF FirmwareStatus, RequestIds, UpdateState, UpdateError, UpdateImpact, Flag, Sha256, Byte,
      Option
<1>2. Laid({}, 0) /\ (Shows(p, {}, 0) <=> TRUE)
  BY Blank, NoGap
<1>3. Laid(A, 8) /\ (Shows(p, A, 8) <=> Shows(p, {}, 0) /\ m.request = ReadLe(p, 0, 8))
  BY <1>1, <1>2, PutWord, NoGap
<1> HIDE DEF A
<1>4. Laid(B, 9) /\ (Shows(p, B, 9) <=> Shows(p, A, 8) /\ p[8] = m.state)
  BY <1>1, <1>3, PutByte, NoGap
<1> HIDE DEF B
<1>5. Laid(C, 10) /\ (Shows(p, C, 10) <=> Shows(p, B, 9) /\ p[9] = m.error)
  BY <1>1, <1>4, PutByte, NoGap
<1> HIDE DEF C
<1>6. Laid(D, 11) /\ (Shows(p, D, 11) <=> Shows(p, C, 10) /\ p[10] = m.impact)
  BY <1>1, <1>5, PutByte, NoGap
<1> HIDE DEF D
<1>7. Laid(E, 12) /\ (Shows(p, E, 12) <=> Shows(p, D, 11) /\ p[11] = Flag(m.staged # NONE))
  BY <1>1, <1>6, PutByte, NoGap
<1> HIDE DEF E
<1>8. Laid(F, 18) /\ (Shows(p, F, 18) <=> Shows(p, E, 12) /\ m.running = ReadVersion(p, 12))
  BY <1>1, <1>7, PutVersion, NoGap
<1> HIDE DEF F
<1>9. Laid(G, 24) /\ (Shows(p, G, 24) <=> Shows(p, F, 18) /\ m.staged = ReadVersion(p, 18))
  BY <1>1, <1>8, PutVersion, NoGap
<1> HIDE DEF G
<1>10. Laid(H, 28) /\ (Shows(p, H, 28) <=> Shows(p, G, 24) /\ m.session = ReadLe(p, 24, 4))
  BY <1>1, <1>9, PutWord, NoGap
<1> HIDE DEF H
<1>11. Laid(I, 32) /\ (Shows(p, I, 32) <=> Shows(p, H, 28) /\ m.next = ReadLe(p, 28, 4))
  BY <1>1, <1>10, PutWord, NoGap
<1> HIDE DEF I
<1>12. Laid(J, 64) /\ (Shows(p, J, 64) <=> Shows(p, I, 32) /\ m.digest = Bytes(p, 32, 32))
  BY <1>1, <1>11, PutUid, NoGap
<1> HIDE DEF J
<1>13. W = <<<<0, a>>, <<8, b>>, <<9, c>>, <<10, d>>, <<11, e>>, <<12, f>>, <<24, h>>, <<28, i>>,
             <<32, j>>, <<18, g>>>>
  BY DEF StagedStatus
<1> HIDE DEF W, a, b, c, d, e, f, g, h, i, j
<1>14. Range(W) = J
  BY <1>13 DEF A, B, C, D, E, F, G, H, I, J, Put, Range
<1>15. J \subseteq Writes
  BY <1>12 DEF Laid
<1>16. W \in Seq(Range(W))
  BY <1>13 DEF Range
<1>17. W \in Seq(Writes)
  BY <1>14, <1>15, <1>16, Widened
<1> QED BY <1>2, <1>3, <1>4, <1>5, <1>6, <1>7, <1>8, <1>9, <1>10, <1>11, <1>12, <1>14,
        <1>17, ZenonT(40) DEF W

LEMMA FirmwareStatusTrip ==
    ASSUME NEW f \in Frame
    PROVE  /\ DecodeFirmwareStatus(f) \subseteq FirmwareStatus
           /\ \A m \in FirmwareStatus :
                 f \in EncodeFirmwareStatus(m) <=> m \in DecodeFirmwareStatus(f)
<1> DEFINE p == f.payload
           node == Bits(f.id, "node")
           requester == Bits(f.id, "requester")
           Mine(n, r) == Marked(f.id, 5, MessageClass["firmware"], n, NODE_TARGET, r,
                                Opcode["FW_STATUS_RESPONSE"])
           Fine == /\ Bool(p[11]) /\ (p[11] = 0 => Zero(p, 18, 24)) /\ p[8] \in UpdateState
                   /\ p[9] \in UpdateError /\ p[10] \in UpdateImpact
           meant == [kind |-> "FW_STATUS_RESPONSE", node |-> node, requester |-> requester,
                     request |-> ReadLe(p, 0, 8), state |-> p[8], error |-> p[9],
                     impact |-> p[10], running |-> ReadVersion(p, 12),
                     staged |-> IF p[11] = 0 THEN NONE ELSE ReadVersion(p, 18),
                     session |-> ReadLe(p, 24, 4), next |-> ReadLe(p, 28, 4),
                     digest |-> Bytes(p, 32, 32)]
<1>1. \A m : m \in DecodeFirmwareStatus(f) <=>
                /\ Mine(node, requester) /\ ValidNodeId(node) /\ HostRequester(requester)
                /\ Length(p) = 64 /\ Fine /\ m = meant
  <2>1. \A h : h \in ScopedNodeMessage(f, 5, "firmware", Opcode["FW_STATUS_RESPONSE"], 64) <=>
             /\ h = Header(f.id) /\ Mine(node, requester) /\ ValidNodeId(node)
             /\ HostRequester(requester) /\ Length(p) = 64
    BY NodeTags, LegalClasses DEF MessageClass
  <2> QED BY <2>1, HeaderFieldsOf DEF DecodeFirmwareStatus
<1>2. ASSUME Length(p) = 64
      PROVE  /\ ReadVersion(p, 12) \in FirmwareVersion /\ ReadVersion(p, 18) \in FirmwareVersion
             /\ ReadLe(p, 0, 8) \in Word(8) /\ ReadLe(p, 24, 4) \in Word(4)
             /\ ReadLe(p, 28, 4) \in Word(4) /\ Bytes(p, 32, 32) \in Word(32)
  <2>1. p \in Buffer(64)
    BY <1>2, Payloaded
  <2>2. /\ ReadVersion(p, 12) \in FirmwareVersion /\ ReadVersion(p, 18) \in FirmwareVersion
    BY <2>1, ReadsVersion
  <2> QED BY <2>1, <2>2, Reads
<1>3. ASSUME Length(p) = 64, Fine PROVE meant \in FirmwareStatus
  BY <1>2, <1>3, NodeBytes DEF FirmwareStatus, RequestIds, Option, Sha256
<1>4. ASSUME NEW m \in FirmwareStatus
      PROVE  f \in EncodeFirmwareStatus(m) <=> m \in DecodeFirmwareStatus(f)
  <2> DEFINE bare == BareStatus(m)
             full == StagedStatus(m)
             writes == IF m.staged = NONE THEN bare ELSE full
  <2>1. m = meant <=>
           /\ m.node = node /\ m.requester = requester /\ m.request = ReadLe(p, 0, 8)
           /\ m.state = p[8] /\ m.error = p[9] /\ m.impact = p[10]
           /\ m.running = ReadVersion(p, 12)
           /\ m.staged = IF p[11] = 0 THEN NONE ELSE ReadVersion(p, 18)
           /\ m.session = ReadLe(p, 24, 4) /\ m.next = ReadLe(p, 28, 4)
           /\ m.digest = Bytes(p, 32, 32)
    BY DEF FirmwareStatus
  <2>2. Mine(m.node, m.requester) <=>
            Mine(node, requester) /\ m.node = node /\ m.requester = requester
    BY DEF Marked
  <2>3. f \in EncodeFirmwareStatus(m) <=>
            /\ ValidNodeId(m.node) /\ HostRequester(m.requester)
            /\ f \in Framed([priority |-> 5, class |-> MessageClass["firmware"], node |-> m.node,
                             target |-> NODE_TARGET, requester |-> m.requester,
                             opcode |-> Opcode["FW_STATUS_RESPONSE"]], 64, writes)
    <3>1. bare \o <<>> = bare /\ bare \o <<<<18, Version(m.staged)>>>> = full
      BY Concat9And0, Concat9And1 DEF BareStatus, StagedStatus
    <3>2. bare \o (IF m.staged = NONE THEN <<>> ELSE <<<<18, Version(m.staged)>>>>) = writes
      BY <3>1, Zenon
    <3> QED BY <3>2, ZenonT(40) DEF EncodeFirmwareStatus, RequestId, BareStatus
  <2>4. /\ m.state \in UpdateState /\ m.error \in UpdateError /\ m.impact \in UpdateImpact
        /\ m.staged # NONE => m.staged \in FirmwareVersion
    BY DEF FirmwareStatus, Option
  <2>5. /\ writes \in Seq(Writes) /\ Laid(Range(writes), 64)
        /\ Shows(p, Range(writes), 64) <=>
              /\ m.request = ReadLe(p, 0, 8) /\ p[8] = m.state /\ p[9] = m.error
              /\ p[10] = m.impact /\ p[11] = Flag(m.staged # NONE)
              /\ m.running = ReadVersion(p, 12)
              /\ IF m.staged = NONE THEN Zero(p, 18, 24) ELSE m.staged = ReadVersion(p, 18)
              /\ m.session = ReadLe(p, 24, 4) /\ m.next = ReadLe(p, 28, 4)
              /\ m.digest = Bytes(p, 32, 32)
    <3>1. CASE m.staged = NONE
      <4>1. writes = bare
        BY <3>1
      <4> HIDE DEF writes, p
      <4>2. /\ writes \in Seq(Writes) /\ Laid(Range(writes), 64)
            /\ Shows(p, Range(writes), 64) <=>
                  /\ m.request = ReadLe(p, 0, 8) /\ p[8] = m.state /\ p[9] = m.error
                  /\ p[10] = m.impact /\ p[11] = Flag(m.staged # NONE)
                  /\ m.running = ReadVersion(p, 12) /\ Zero(p, 18, 24)
                  /\ m.session = ReadLe(p, 24, 4) /\ m.next = ReadLe(p, 28, 4)
                  /\ m.digest = Bytes(p, 32, 32)
        BY <4>1, NoneStagedLayout, Zenon
      <4> QED BY <3>1, <4>2
    <3>2. CASE m.staged # NONE
      <4>1. writes = full
        BY <3>2
      <4> HIDE DEF writes, p
      <4>2. /\ writes \in Seq(Writes) /\ Laid(Range(writes), 64)
            /\ Shows(p, Range(writes), 64) <=>
                  /\ m.request = ReadLe(p, 0, 8) /\ p[8] = m.state /\ p[9] = m.error
                  /\ p[10] = m.impact /\ p[11] = Flag(m.staged # NONE)
                  /\ m.running = ReadVersion(p, 12) /\ m.staged = ReadVersion(p, 18)
                  /\ m.session = ReadLe(p, 24, 4) /\ m.next = ReadLe(p, 28, 4)
                  /\ m.digest = Bytes(p, 32, 32)
        BY <3>2, <4>1, StagedLayout, Zenon
      <4> QED BY <3>2, <4>2
    <3> QED BY <3>1, <3>2
  <2> HIDE DEF writes
  <2>6. ASSUME m.node = node, m.requester = requester, Length(p) = 64
        PROVE  Shows(p, Range(writes), 64) <=> Fine /\ m = meant
    <3>1. NONE \notin FirmwareVersion
      BY NoneAssumption
    <3>2. Flag(m.staged # NONE) = IF m.staged = NONE THEN 0 ELSE 1
      BY DEF Flag
    <3> HIDE DEF meant
    <3>3. CASE m.staged = NONE
      BY <1>2, <2>1, <2>4, <2>5, <2>6, <3>1, <3>2, <3>3 DEF Bool
    <3>4. CASE m.staged # NONE
      BY <2>1, <2>4, <2>5, <2>6, <3>2, <3>4 DEF Bool
    <3> QED BY <3>3, <3>4
  <2>7. ASSUME ValidNodeId(m.node)
        PROVE  f \in Framed([priority |-> 5, class |-> MessageClass["firmware"], node |-> m.node,
                             target |-> NODE_TARGET, requester |-> m.requester,
                             opcode |-> Opcode["FW_STATUS_RESPONSE"]], 64, writes) <=>
                  /\ Mine(m.node, m.requester) /\ Length(p) = 64
                  /\ Shows(p, Range(writes), 64)
    <3>1. Proper(5, MessageClass["firmware"], m.node, NODE_TARGET, m.requester,
                 Opcode["FW_STATUS_RESPONSE"], 64)
      BY <2>7, Opcodes, MessageClasses
         DEF Proper, ValidNodeId, NODE_TARGET, CanFdLengths, FirmwareStatus, RequesterId
    <3> QED BY <2>5, <3>1, ScopedFramed
  <2>8. m = meant => m.node = node /\ m.requester = requester
    BY <2>1
  <2> HIDE DEF p, node, requester, Mine, meant, Fine
  <2> QED BY <1>1, <2>2, <2>3, <2>6, <2>7, <2>8
<1> QED BY <1>1, <1>3, <1>4

-----------------------------------------------------------------------------
(* Control requests. *)

LEMMA PlainLayout ==
    ASSUME NEW m \in PlainCommand, NEW p, NEW W,
           W = <<<<0, LittleEndian(m.request)>>>>
    PROVE  /\ W \in Seq(Writes) /\ Laid(Range(W), 8)
           /\ Shows(p, Range(W), 8) <=>
                /\ m.request = ReadLe(p, 0, 8)
<1> DEFINE a == LittleEndian(m.request)
           A == Put({}, 0, a)
<1>1. /\ m.request \in Word(8) /\ 8 \in Nat
  BY DEF PlainCommand, RequestIds, Byte
<1>2. Laid({}, 0) /\ (Shows(p, {}, 0) <=> TRUE)
  BY Blank, NoGap
<1>3. Laid(A, 8) /\ (Shows(p, A, 8) <=> Shows(p, {}, 0) /\ m.request = ReadLe(p, 0, 8))
  BY <1>1, <1>2, PutWord, NoGap
<1> HIDE DEF A
<1>4. W = <<<<0, a>>>>
  OBVIOUS
<1> HIDE DEF a
<1>5. Range(W) = A
  BY <1>4 DEF A, Put, Range
<1>6. A \subseteq Writes
  BY <1>3 DEF Laid
<1>7. W \in Seq(Writes)
  BY <1>4, <1>5, <1>6 DEF Range
<1> QED BY <1>2, <1>3, <1>5, <1>7, Zenon

LEMMA UnlimitedLayout ==
    ASSUME NEW m \in SetCarrierPolicy, NEW p, NEW W,
           W = <<<<0, LittleEndian(m.request)>>, <<8, <<Flag(m.enabled)>>>>>>
    PROVE  /\ W \in Seq(Writes) /\ Laid(Range(W), 24)
           /\ Shows(p, Range(W), 24) <=>
                /\ m.request = ReadLe(p, 0, 8) /\ p[8] = Flag(m.enabled) /\ Zero(p, 9, 24)
<1> DEFINE a == LittleEndian(m.request)
           b == <<Flag(m.enabled)>>
           A == Put({}, 0, a)
           B == Put(A, 8, b)
<1>1. /\ m.request \in Word(8) /\ Flag(m.enabled) \in Byte /\ 24 \in Nat
  BY DEF SetCarrierPolicy, RequestIds, Byte, Flag
<1>2. Laid({}, 0) /\ (Shows(p, {}, 0) <=> TRUE)
  BY Blank, NoGap
<1>3. Laid(A, 8) /\ (Shows(p, A, 8) <=> Shows(p, {}, 0) /\ m.request = ReadLe(p, 0, 8))
  BY <1>1, <1>2, PutWord, NoGap
<1> HIDE DEF A
<1>4. /\ Laid(B, 24)
      /\ Shows(p, B, 24) <=> Shows(p, A, 8) /\ p[8] = Flag(m.enabled) /\ Zero(p, 9, 24)
  BY <1>1, <1>3, PutByte
<1> HIDE DEF B
<1>5. W = <<<<0, a>>, <<8, b>>>>
  OBVIOUS
<1> HIDE DEF a, b
<1>6. Range(W) = B
  BY <1>5 DEF A, B, Put, Range
<1>7. B \subseteq Writes
  BY <1>4 DEF Laid
<1>8. W \in Seq(Writes)
  BY <1>5, <1>6, <1>7 DEF Range
<1> QED BY <1>2, <1>3, <1>4, <1>6, <1>8, Zenon

LEMMA LimitedLayout ==
    ASSUME NEW m \in SetCarrierPolicy, m.limits # NONE, NEW p, NEW W,
           W = <<<<0, LittleEndian(m.request)>>, <<8, <<Flag(m.enabled)>>>>, <<9, << 1 >>>>,
                <<12, LittleEndian(m.limits.voltage)>>,
                <<16, LittleEndian(m.limits.current)>>,
                <<20, LittleEndian(m.limits.power)>>>>
    PROVE  /\ W \in Seq(Writes) /\ Laid(Range(W), 24)
           /\ Shows(p, Range(W), 24) <=>
                /\ m.request = ReadLe(p, 0, 8) /\ p[8] = Flag(m.enabled) /\ p[9] = 1
                /\ Zero(p, 10, 12) /\ m.limits.voltage = ReadLe(p, 12, 4)
                /\ m.limits.current = ReadLe(p, 16, 4) /\ m.limits.power = ReadLe(p, 20, 4)
<1> DEFINE a == LittleEndian(m.request)
           b == <<Flag(m.enabled)>>
           c == <<1>>
           d == LittleEndian(m.limits.voltage)
           e == LittleEndian(m.limits.current)
           f == LittleEndian(m.limits.power)
           A == Put({}, 0, a)
           B == Put(A, 8, b)
           C == Put(B, 9, c)
           D == Put(C, 12, d)
           E == Put(D, 16, e)
           F == Put(E, 20, f)
<1>1. /\ m.request \in Word(8) /\ Flag(m.enabled) \in Byte /\ 1 \in Byte
      /\ m.limits.voltage \in Word(4) /\ m.limits.current \in Word(4)
      /\ m.limits.power \in Word(4) /\ 24 \in Nat
  BY DEF SetCarrierPolicy, RequestIds, Byte, Flag, Option, PdLimits
<1>2. Laid({}, 0) /\ (Shows(p, {}, 0) <=> TRUE)
  BY Blank, NoGap
<1>3. Laid(A, 8) /\ (Shows(p, A, 8) <=> Shows(p, {}, 0) /\ m.request = ReadLe(p, 0, 8))
  BY <1>1, <1>2, PutWord, NoGap
<1> HIDE DEF A
<1>4. Laid(B, 9) /\ (Shows(p, B, 9) <=> Shows(p, A, 8) /\ p[8] = Flag(m.enabled))
  BY <1>1, <1>3, PutByte, NoGap
<1> HIDE DEF B
<1>5. Laid(C, 12) /\ (Shows(p, C, 12) <=> Shows(p, B, 9) /\ p[9] = 1 /\ Zero(p, 10, 12))
  BY <1>1, <1>4, PutByte
<1> HIDE DEF C
<1>6. Laid(D, 16) /\ (Shows(p, D, 16) <=> Shows(p, C, 12) /\ m.limits.voltage = ReadLe(p, 12, 4))
  BY <1>1, <1>5, PutWord, NoGap
<1> HIDE DEF D
<1>7. Laid(E, 20) /\ (Shows(p, E, 20) <=> Shows(p, D, 16) /\ m.limits.current = ReadLe(p, 16, 4))
  BY <1>1, <1>6, PutWord, NoGap
<1> HIDE DEF E
<1>8. Laid(F, 24) /\ (Shows(p, F, 24) <=> Shows(p, E, 20) /\ m.limits.power = ReadLe(p, 20, 4))
  BY <1>1, <1>7, PutWord, NoGap
<1> HIDE DEF F
<1>9. W = <<<<0, a>>, <<8, b>>, <<9, c>>, <<12, d>>, <<16, e>>, <<20, f>>>>
  OBVIOUS
<1> HIDE DEF a, b, c, d, e, f
<1>10. Range(W) = F
  BY <1>9 DEF A, B, C, D, E, F, Put, Range
<1>11. F \subseteq Writes
  BY <1>8 DEF Laid
<1>12. W \in Seq(Range(W))
  BY <1>9 DEF Range
<1>13. W \in Seq(Writes)
  BY <1>10, <1>11, <1>12, Widened
<1> QED BY <1>2, <1>3, <1>4, <1>5, <1>6, <1>7, <1>8, <1>10, <1>13, Zenon

LEMMA SetFanLayout ==
    ASSUME NEW m \in SetFan, NEW p, NEW W,
           W = <<<<0, LittleEndian(m.request)>>, <<8, <<m.duty>>>>>>
    PROVE  /\ W \in Seq(Writes) /\ Laid(Range(W), 12)
           /\ Shows(p, Range(W), 12) <=>
                /\ m.request = ReadLe(p, 0, 8) /\ p[8] = m.duty /\ Zero(p, 9, 12)
<1> DEFINE a == LittleEndian(m.request)
           b == <<m.duty>>
           A == Put({}, 0, a)
           B == Put(A, 8, b)
<1>1. /\ m.request \in Word(8) /\ m.duty \in Byte /\ 12 \in Nat
  BY DEF SetFan, RequestIds, Byte
<1>2. Laid({}, 0) /\ (Shows(p, {}, 0) <=> TRUE)
  BY Blank, NoGap
<1>3. Laid(A, 8) /\ (Shows(p, A, 8) <=> Shows(p, {}, 0) /\ m.request = ReadLe(p, 0, 8))
  BY <1>1, <1>2, PutWord, NoGap
<1> HIDE DEF A
<1>4. Laid(B, 12) /\ (Shows(p, B, 12) <=> Shows(p, A, 8) /\ p[8] = m.duty /\ Zero(p, 9, 12))
  BY <1>1, <1>3, PutByte
<1> HIDE DEF B
<1>5. W = <<<<0, a>>, <<8, b>>>>
  OBVIOUS
<1> HIDE DEF a, b
<1>6. Range(W) = B
  BY <1>5 DEF A, B, Put, Range
<1>7. B \subseteq Writes
  BY <1>4 DEF Laid
<1>8. W \in Seq(Writes)
  BY <1>5, <1>6, <1>7 DEF Range
<1> QED BY <1>2, <1>3, <1>4, <1>6, <1>8, Zenon

LEMMA ClearBindingLayout ==
    ASSUME NEW m \in SetBinding, NEW x \in Byte, NEW p, NEW W,
           W = <<<<0, LittleEndian(m.request)>>, <<9, <<x>>>>>>
    PROVE  /\ W \in Seq(Writes) /\ Laid(Range(W), 24)
           /\ Shows(p, Range(W), 24) <=>
                /\ m.request = ReadLe(p, 0, 8) /\ Zero(p, 8, 9) /\ p[9] = x /\ Zero(p, 10, 24)
<1> DEFINE a == LittleEndian(m.request)
           b == <<x>>
           A == Put({}, 0, a)
           B == Put(A, 9, b)
<1>1. /\ m.request \in Word(8) /\ x \in Byte /\ 24 \in Nat
  BY DEF SetBinding, RequestIds, Byte
<1>2. Laid({}, 0) /\ (Shows(p, {}, 0) <=> TRUE)
  BY Blank, NoGap
<1>3. /\ Laid(A, 9)
      /\ Shows(p, A, 9) <=> Shows(p, {}, 0) /\ m.request = ReadLe(p, 0, 8) /\ Zero(p, 8, 9)
  BY <1>1, <1>2, PutWord
<1> HIDE DEF A
<1>4. Laid(B, 24) /\ (Shows(p, B, 24) <=> Shows(p, A, 9) /\ p[9] = x /\ Zero(p, 10, 24))
  BY <1>1, <1>3, PutByte
<1> HIDE DEF B
<1>5. W = <<<<0, a>>, <<9, b>>>>
  OBVIOUS
<1> HIDE DEF a, b
<1>6. Range(W) = B
  BY <1>5 DEF A, B, Put, Range
<1>7. B \subseteq Writes
  BY <1>4 DEF Laid
<1>8. W \in Seq(Writes)
  BY <1>5, <1>6, <1>7 DEF Range
<1> QED BY <1>2, <1>3, <1>4, <1>6, <1>8, Zenon

LEMMA SetBindingLayout ==
    ASSUME NEW m \in SetBinding, m.binding # NONE, NEW p, NEW W,
           W = <<<<0, LittleEndian(m.request)>>, <<8, << 1 >>>>, <<9, <<m.binding.slot>>>>,
                <<12, m.binding.uid>>>>
    PROVE  /\ W \in Seq(Writes) /\ Laid(Range(W), 24)
           /\ Shows(p, Range(W), 24) <=>
                /\ m.request = ReadLe(p, 0, 8) /\ p[8] = 1 /\ p[9] = m.binding.slot
                /\ Zero(p, 10, 12) /\ m.binding.uid = Bytes(p, 12, 12)
<1> DEFINE a == LittleEndian(m.request)
           b == <<1>>
           c == <<m.binding.slot>>
           d == m.binding.uid
           A == Put({}, 0, a)
           B == Put(A, 8, b)
           C == Put(B, 9, c)
           D == Put(C, 12, d)
<1>1. /\ m.request \in Word(8) /\ 1 \in Byte /\ m.binding.slot \in Byte
      /\ m.binding.uid \in Word(12) /\ 24 \in Nat
  BY DEF SetBinding, RequestIds, Byte, Option, CarrierBinding, NodeUid, Slot
<1>2. Laid({}, 0) /\ (Shows(p, {}, 0) <=> TRUE)
  BY Blank, NoGap
<1>3. Laid(A, 8) /\ (Shows(p, A, 8) <=> Shows(p, {}, 0) /\ m.request = ReadLe(p, 0, 8))
  BY <1>1, <1>2, PutWord, NoGap
<1> HIDE DEF A
<1>4. Laid(B, 9) /\ (Shows(p, B, 9) <=> Shows(p, A, 8) /\ p[8] = 1)
  BY <1>1, <1>3, PutByte, NoGap
<1> HIDE DEF B
<1>5. /\ Laid(C, 12)
      /\ Shows(p, C, 12) <=> Shows(p, B, 9) /\ p[9] = m.binding.slot /\ Zero(p, 10, 12)
  BY <1>1, <1>4, PutByte
<1> HIDE DEF C
<1>6. Laid(D, 24) /\ (Shows(p, D, 24) <=> Shows(p, C, 12) /\ m.binding.uid = Bytes(p, 12, 12))
  BY <1>1, <1>5, PutUid, NoGap
<1> HIDE DEF D
<1>7. W = <<<<0, a>>, <<8, b>>, <<9, c>>, <<12, d>>>>
  OBVIOUS
<1> HIDE DEF a, b, c, d
<1>8. Range(W) = D
  BY <1>7 DEF A, B, C, D, Put, Range
<1>9. D \subseteq Writes
  BY <1>6 DEF Laid
<1>10. W \in Seq(Writes)
  BY <1>7, <1>8, <1>9 DEF Range
<1> QED BY <1>2, <1>3, <1>4, <1>5, <1>6, <1>8, <1>10, Zenon

(* A request's arguments are joined to what every request has. *)
LEMMA RequestJoins ==
    ASSUME NEW k, NEW n, NEW r, NEW q
    PROVE  LET base == [kind |-> k, node |-> n, requester |-> r, request |-> q]
           IN  /\ Join(base, <<>>) = base
               /\ \A x, y : Join(base, [enabled |-> x, limits |-> y]) =
                      [kind |-> k, node |-> n, requester |-> r, request |-> q,
                       enabled |-> x, limits |-> y]
               /\ \A x, y : Join(base, [fan |-> x, duty |-> y]) =
                      [kind |-> k, node |-> n, requester |-> r, request |-> q,
                       fan |-> x, duty |-> y]
               /\ \A x : Join(base, [binding |-> x]) =
                      [kind |-> k, node |-> n, requester |-> r, request |-> q, binding |-> x]
<1> DEFINE base == [kind |-> k, node |-> n, requester |-> r, request |-> q]
<1>1. Join(base, <<>>) = base
  <2>1. DOMAIN base \cup DOMAIN <<>> = DOMAIN base
    OBVIOUS
  <2> QED BY <2>1 DEF Join
<1>2. ASSUME NEW x, NEW y
      PROVE  Join(base, [enabled |-> x, limits |-> y]) =
                      [kind |-> k, node |-> n, requester |-> r, request |-> q,
                       enabled |-> x, limits |-> y]
  BY DEF Join
<1>3. ASSUME NEW x, NEW y
      PROVE  Join(base, [fan |-> x, duty |-> y]) =
                      [kind |-> k, node |-> n, requester |-> r, request |-> q,
                       fan |-> x, duty |-> y]
  BY DEF Join
<1>4. ASSUME NEW x
      PROVE  Join(base, [binding |-> x]) =
                      [kind |-> k, node |-> n, requester |-> r, request |-> q, binding |-> x]
  BY DEF Join
<1> QED BY <1>1, <1>2, <1>3, <1>4

Requested(f, kind, args) ==
    Join([kind |-> kind, node |-> Bits(f.id, "node"), requester |-> Bits(f.id, "requester"),
          request |-> ReadLe(f.payload, 0, 8)], args)

(* The checks every control request has to pass. *)
ControlHeader(f) ==
    /\ Bits(f.id, "class") = MessageClass["control"] /\ Bits(f.id, "node") # INVALID_NODE
    /\ HostRequester(Bits(f.id, "requester")) /\ Length(f.payload) >= 8

LEMMA ControlDecoded ==
    ASSUME NEW f \in Frame, NEW m
    PROVE  m \in DecodeControlRequest(f) <=>
               /\ ControlHeader(f)
               /\ \E kind \in ControlKinds :
                     /\ Opcode[kind] = Bits(f.id, "opcode")
                     /\ \E args \in DecodeCommand(kind, Header(f.id), f.payload) :
                           m = Requested(f, kind, args)
<1> DEFINE Of(h, kind) == {Join([kind |-> kind, node |-> h.node, requester |-> h.requester,
                                 request |-> ReadLe(f.payload, 0, 8)], args) :
                             args \in DecodeCommand(kind, h, f.payload)}
           Kinds(h) == {k \in ControlKinds : Opcode[k] = h.opcode}
           Heads == {h \in HeaderDecode(f.id) :
                        /\ h.class = MessageClass.control
                        /\ HostRequester(h.requester)
                        /\ Length(f.payload) >= 8}
<1>1. m \in DecodeControlRequest(f) <=>
          \E h \in Heads : \E kind \in Kinds(h) : m \in Of(h, kind)
  <2>1. DecodeControlRequest(f) = UNION {UNION {Of(h, kind) : kind \in Kinds(h)} : h \in Heads}
    BY DEF DecodeControlRequest
  <2> HIDE DEF Of, Kinds, Heads
  <2> QED BY <2>1
<1>2. \A h : h \in HeaderDecode(f.id) <=> /\ h = Header(f.id) /\ Bits(f.id, "class") \in Classes
                                          /\ Bits(f.id, "node") # INVALID_NODE
  BY HeaderDecodes DEF Frame
<1>3. \A h : h \in Heads <=> h = Header(f.id) /\ ControlHeader(f)
  BY <1>2, HeaderFieldsOf, LegalClasses DEF ControlHeader, MessageClass
<1>4. \A kind : m \in Of(Header(f.id), kind) <=>
          \E args \in DecodeCommand(kind, Header(f.id), f.payload) : m = Requested(f, kind, args)
  BY HeaderFieldsOf DEF Requested
<1>5. \A kind : kind \in Kinds(Header(f.id)) <=>
          kind \in ControlKinds /\ Opcode[kind] = Bits(f.id, "opcode")
  BY HeaderFieldsOf
<1> HIDE DEF Of, Kinds, Heads
<1> QED BY <1>1, <1>3, <1>4, <1>5

(* A request decodes as one of its own kind. *)
LEMMA ControlOfKind ==
    ASSUME NEW f \in Frame, NEW m, m.kind \in ControlKinds
    PROVE  m \in DecodeControlRequest(f) <=>
               /\ ControlHeader(f) /\ Opcode[m.kind] = Bits(f.id, "opcode")
               /\ \E args \in DecodeCommand(m.kind, Header(f.id), f.payload) :
                     m = Requested(f, m.kind, args)
<1>1. \A kind, args : m = Requested(f, kind, args) => m.kind = kind
  BY Merged DEF Requested
<1> QED BY <1>1, ControlDecoded

(* What it takes of a frame to be the encoding of a request. *)
LEMMA ControlEncoded ==
    ASSUME NEW f \in Frame, NEW m \in ControlRequest,
           NEW W \in Seq(Writes), Laid(Range(W), ControlLength(m.kind))
    PROVE  W = <<RequestId(m)>> \o ControlWrites(m) =>
             (f \in EncodeControlRequest(m) <=>
               /\ HostRequester(m.requester)
               /\ ValidNodeId(m.node) \/ (m.kind = "EMERGENCY_DISABLE" /\ m.node = BROADCAST_NODE)
               /\ m.kind = "SET_FAN" => ValidDuty(m.duty)
               /\ Marked(f.id, Flag(m.kind # "EMERGENCY_DISABLE"), MessageClass["control"],
                         m.node, IF m.kind = "SET_FAN" THEN m.fan ELSE NODE_TARGET,
                         m.requester, Opcode[m.kind])
               /\ Length(f.payload) = ControlLength(m.kind)
               /\ Shows(f.payload, Range(W), ControlLength(m.kind)))
<1> DEFINE priority == Flag(m.kind # "EMERGENCY_DISABLE")
           target == IF m.kind = "SET_FAN" THEN m.fan ELSE NODE_TARGET
           len == ControlLength(m.kind)
           Fine == /\ HostRequester(m.requester)
                   /\ ValidNodeId(m.node)
                         \/ (m.kind = "EMERGENCY_DISABLE" /\ m.node = BROADCAST_NODE)
                   /\ m.kind = "SET_FAN" => ValidDuty(m.duty)
           header == [priority |-> priority, class |-> MessageClass["control"], node |-> m.node,
                      target |-> target, requester |-> m.requester, opcode |-> Opcode[m.kind]]
<1>1. W = <<RequestId(m)>> \o ControlWrites(m) =>
         (f \in EncodeControlRequest(m) <=> Fine /\ f \in Framed(header, len, W))
  <2>1. header = [priority |-> Flag(~(m.kind = "EMERGENCY_DISABLE")),
                  class |-> MessageClass.control, node |-> m.node, requester |-> m.requester,
                  target |-> IF m.kind = "SET_FAN" THEN m.fan ELSE NODE_TARGET,
                  opcode |-> Opcode[m.kind]]
    OBVIOUS
  <2> HIDE DEF header
  <2> QED BY <2>1 DEF EncodeControlRequest
<1>2. ASSUME Fine
      PROVE  Proper(priority, MessageClass["control"], m.node, target, m.requester,
                    Opcode[m.kind], len)
  <2>1. m.requester \in 0 .. 15 /\ (m.kind = "SET_FAN" => m.fan \in {0, 1})
    BY Zenon DEF ControlRequest, PlainCommand, SetCarrierPolicy, SetFan, SetBinding, RequesterId,
       FanId
  <2>2. m.node \in 0 .. 254
    BY <1>2 DEF ValidNodeId, BROADCAST_NODE
  <2>3. m.kind \in ControlKinds
    BY DEF ControlRequest, PlainCommand, SetCarrierPolicy, SetFan, SetBinding, ControlKinds
  <2>4. \A k \in ControlKinds : Opcode[k] \in 0 .. 63
    <3>1. /\ Opcode["EMERGENCY_DISABLE"] \in 0 .. 63 /\ Opcode["SET_CARRIER_POLICY"] \in 0 .. 63
          /\ Opcode["ACKNOWLEDGE_EMERGENCY"] \in 0 .. 63 /\ Opcode["REQUEST_STATUS"] \in 0 .. 63
          /\ Opcode["SET_FAN"] \in 0 .. 63 /\ Opcode["SET_BINDING"] \in 0 .. 63
      BY Opcodes
    <3> QED BY <3>1, Zenon DEF ControlKinds
  <2> QED BY <2>1, <2>2, <2>3, <2>4, MessageClasses DEF Proper, Flag, NODE_TARGET, ControlLength,
          CanFdLengths
<1>3. Laid(Range(W), len)
  OBVIOUS
<1> HIDE DEF priority, target, len, Fine
<1>4. ASSUME Fine
      PROVE  f \in Framed(header, len, W) <=>
               /\ Marked(f.id, priority, MessageClass["control"], m.node, target, m.requester,
                         Opcode[m.kind])
               /\ Length(f.payload) = len /\ Shows(f.payload, Range(W), len)
  <2>1. PICK c, n, r, o : /\ c = MessageClass["control"] /\ n = m.node /\ r = m.requester
                          /\ o = Opcode[m.kind]
    OBVIOUS
  <2>2. Proper(priority, c, n, target, r, o, len)
    BY <1>2, <1>4, <2>1
  <2>3. header = [priority |-> priority, class |-> c, node |-> n, target |-> target,
                  requester |-> r, opcode |-> o]
    BY <2>1
  <2>4. f \in Framed([priority |-> priority, class |-> c, node |-> n, target |-> target,
                     requester |-> r, opcode |-> o], len, W) <=>
               /\ Marked(f.id, priority, c, n, target, r, o)
               /\ Length(f.payload) = len /\ Shows(f.payload, Range(W), len)
    BY <1>3, <2>2, ScopedFramed
  <2> HIDE DEF header
  <2> QED BY <2>1, <2>3, <2>4
<1> HIDE DEF header
<1> QED BY <1>1, <1>4 DEF Fine, priority, target, len

(* What the arguments of each kind of request are decoded from. *)
LEMMA CommandsMean ==
    ASSUME NEW f \in Frame, NEW args
    PROVE  LET p == f.payload
               node == Bits(f.id, "node")
               Standard == /\ Bits(f.id, "priority") = 1 /\ ValidNodeId(node)
                           /\ Bits(f.id, "target") = NODE_TARGET
               Of(kind) == args \in DecodeCommand(kind, Header(f.id), p)
           IN  /\ Of("EMERGENCY_DISABLE") <=>
                     /\ Bits(f.id, "priority") = 0 /\ Bits(f.id, "target") = NODE_TARGET
                     /\ Length(p) = 8 /\ (node = BROADCAST_NODE \/ ValidNodeId(node))
                     /\ args = <<>>
               /\ Of("ACKNOWLEDGE_EMERGENCY") <=> Standard /\ Length(p) = 8 /\ args = <<>>
               /\ Of("REQUEST_STATUS") <=> Standard /\ Length(p) = 8 /\ args = <<>>
               /\ Of("SET_CARRIER_POLICY") <=>
                     /\ Standard /\ Length(p) = 24 /\ Bool(p[8]) /\ Bool(p[9]) /\ Zero(p, 10, 12)
                     /\ \E x \in DecodeLimits(p) : args = [enabled |-> p[8] = 1, limits |-> x]
               /\ Of("SET_FAN") <=>
                     /\ Bits(f.id, "priority") = 1 /\ ValidNodeId(node) /\ Length(p) = 12
                     /\ Zero(p, 9, 12) /\ Bits(f.id, "target") \in FanId /\ ValidDuty(p[8])
                     /\ args = [fan |-> Bits(f.id, "target"), duty |-> p[8]]
               /\ Of("SET_BINDING") <=>
                     /\ Standard /\ Length(p) = 24 /\ Bool(p[8]) /\ Zero(p, 10, 12)
                     /\ \E x \in DecodeBindingAt(p, 8, 12) : args = [binding |-> x]
<1> DEFINE h == Header(f.id)
           p == f.payload
<1>1. /\ h.priority = Bits(f.id, "priority") /\ h.node = Bits(f.id, "node")
      /\ h.target = Bits(f.id, "target")
  BY HeaderFieldsOf
<1> HIDE DEF h, p
<1>2. args \in DecodeCommand("EMERGENCY_DISABLE", h, p) <=>
          /\ h.priority = 0 /\ h.target = NODE_TARGET /\ Length(p) = 8
          /\ (h.node = BROADCAST_NODE \/ ValidNodeId(h.node)) /\ args = <<>>
  BY DEF DecodeCommand, When
<1>3. args \in DecodeCommand("ACKNOWLEDGE_EMERGENCY", h, p) <=>
          StandardControl(h) /\ Length(p) = 8 /\ args = <<>>
  BY DEF DecodeCommand, When
<1>4. args \in DecodeCommand("REQUEST_STATUS", h, p) <=>
          StandardControl(h) /\ Length(p) = 8 /\ args = <<>>
  BY DEF DecodeCommand, When
<1>5. args \in DecodeCommand("SET_CARRIER_POLICY", h, p) <=>
          /\ StandardControl(h) /\ Length(p) = 24 /\ Bool(p[8]) /\ Bool(p[9]) /\ Zero(p, 10, 12)
          /\ \E x \in DecodeLimits(p) : args = [enabled |-> p[8] = 1, limits |-> x]
  BY DEF DecodeCommand
<1>6. args \in DecodeCommand("SET_FAN", h, p) <=>
          /\ h.priority = 1 /\ ValidNodeId(h.node) /\ Length(p) = 12 /\ Zero(p, 9, 12)
          /\ h.target \in FanId /\ ValidDuty(p[8])
          /\ args = [fan |-> h.target, duty |-> p[8]]
  BY DEF DecodeCommand, When
<1>7. args \in DecodeCommand("SET_BINDING", h, p) <=>
          /\ StandardControl(h) /\ Length(p) = 24 /\ Bool(p[8]) /\ Zero(p, 10, 12)
          /\ \E x \in DecodeBindingAt(p, 8, 12) : args = [binding |-> x]
  BY DEF DecodeCommand
<1>8. StandardControl(h) <=> /\ Bits(f.id, "priority") = 1 /\ ValidNodeId(Bits(f.id, "node"))
                             /\ Bits(f.id, "target") = NODE_TARGET
  BY <1>1 DEF StandardControl
<1> QED BY <1>1, <1>2, <1>3, <1>4, <1>5, <1>6, <1>7, <1>8 DEF h, p

LEMMA PlainTrip ==
    ASSUME NEW f \in Frame, NEW m \in PlainCommand
    PROVE  f \in EncodeControlRequest(m) <=> m \in DecodeControlRequest(f)
<1> DEFINE p == f.payload
           node == Bits(f.id, "node")
           requester == Bits(f.id, "requester")
           emergency == m.kind = "EMERGENCY_DISABLE"
           V == <<<<0, LittleEndian(m.request)>>>>
           W == V
           Ready == /\ Length(p) = 8 /\ Bits(f.id, "target") = NODE_TARGET
                    /\ IF emergency THEN /\ Bits(f.id, "priority") = 0
                                         /\ (node = BROADCAST_NODE \/ ValidNodeId(node))
                                    ELSE Bits(f.id, "priority") = 1 /\ ValidNodeId(node)
<1>1. m.kind \in {"EMERGENCY_DISABLE", "ACKNOWLEDGE_EMERGENCY", "REQUEST_STATUS"}
  BY DEF PlainCommand
<1>2. \A args : args \in DecodeCommand(m.kind, Header(f.id), p) <=> Ready /\ args = <<>>
  <2> HIDE DEF p, node
  <2>1. CASE emergency
    BY <2>1, CommandsMean DEF p, node
  <2>2. CASE m.kind = "ACKNOWLEDGE_EMERGENCY"
    BY <2>2, CommandsMean DEF p, node
  <2>3. CASE m.kind = "REQUEST_STATUS"
    BY <2>3, CommandsMean DEF p, node
  <2> QED BY <1>1, <2>1, <2>2, <2>3
<1>3. m = Requested(f, m.kind, <<>>) <=>
          m.node = node /\ m.requester = requester /\ m.request = ReadLe(p, 0, 8)
  <2>1. Requested(f, m.kind, <<>>) = [kind |-> m.kind, node |-> node, requester |-> requester,
                                      request |-> ReadLe(p, 0, 8)]
    BY RequestJoins DEF Requested
  <2> QED BY <2>1 DEF PlainCommand
<1>4. /\ W \in Seq(Writes) /\ Laid(Range(W), 8)
      /\ Shows(p, Range(W), 8) <=> m.request = ReadLe(p, 0, 8)
  <2>1. W = V
    OBVIOUS
  <2> HIDE DEF W, p
  <2> QED BY <2>1, PlainLayout, Zenon
<1>5. ControlLength(m.kind) = 8 /\ m.kind \in ControlKinds /\ m.kind # "SET_FAN"
  BY <1>1 DEF ControlLength, ControlKinds
<1>6. f \in EncodeControlRequest(m) <=>
          /\ HostRequester(m.requester)
          /\ ValidNodeId(m.node) \/ (emergency /\ m.node = BROADCAST_NODE)
          /\ Marked(f.id, Flag(~emergency), MessageClass["control"], m.node, NODE_TARGET,
                    m.requester, Opcode[m.kind])
          /\ Length(p) = 8 /\ m.request = ReadLe(p, 0, 8)
  <2>1. W = <<RequestId(m)>> \o ControlWrites(m)
    <3>1. ControlWrites(m) = <<>>
      BY <1>1 DEF ControlWrites
    <3> QED BY <3>1, Concat1And0 DEF RequestId
  <2>2. m \in ControlRequest
    BY DEF ControlRequest
  <2> HIDE DEF W
  <2> QED BY <1>4, <1>5, <2>1, <2>2, ControlEncoded, Zenon
<1>7. m \in DecodeControlRequest(f) <=>
          /\ ControlHeader(f) /\ Opcode[m.kind] = Bits(f.id, "opcode") /\ Ready
          /\ m = Requested(f, m.kind, <<>>)
  <2>1. m \in DecodeControlRequest(f) <=>
            /\ ControlHeader(f) /\ Opcode[m.kind] = Bits(f.id, "opcode")
            /\ \E args \in DecodeCommand(m.kind, Header(f.id), p) : m = Requested(f, m.kind, args)
    BY <1>5, ControlOfKind
  <2> HIDE DEF Ready, p
  <2> QED BY <1>2, <2>1
<1>8. \A n : (ValidNodeId(n) \/ n = BROADCAST_NODE) => n # INVALID_NODE
  BY DEF ValidNodeId, BROADCAST_NODE, INVALID_NODE
<1>9. ControlHeader(f) <=>
          /\ Bits(f.id, "class") = MessageClass["control"] /\ node # INVALID_NODE
          /\ HostRequester(requester) /\ Length(p) >= 8
  BY DEF ControlHeader
<1> HIDE DEF p, node, requester, W
<1> QED BY <1>3, <1>6, <1>7, <1>8, <1>9 DEF Marked, Flag, node, requester

LEMMA SetFanTrip ==
    ASSUME NEW f \in Frame, NEW m \in SetFan
    PROVE  f \in EncodeControlRequest(m) <=> m \in DecodeControlRequest(f)
<1> DEFINE p == f.payload
           node == Bits(f.id, "node")
           requester == Bits(f.id, "requester")
           target == Bits(f.id, "target")
           V == <<<<0, LittleEndian(m.request)>>, <<8, <<m.duty>>>>>>
           W == V
           Ready == /\ Bits(f.id, "priority") = 1 /\ ValidNodeId(node) /\ Length(p) = 12
                    /\ Zero(p, 9, 12) /\ target \in FanId /\ ValidDuty(p[8])
           given == [fan |-> target, duty |-> p[8]]
<1>1. m.kind = "SET_FAN" /\ m.fan \in FanId
  BY DEF SetFan
<1>2. \A args : args \in DecodeCommand(m.kind, Header(f.id), p) <=> Ready /\ args = given
  BY <1>1, CommandsMean
<1>3. m = Requested(f, m.kind, given) <=>
          /\ m.node = node /\ m.requester = requester /\ m.request = ReadLe(p, 0, 8)
          /\ m.fan = target /\ m.duty = p[8]
  <2>1. Requested(f, m.kind, given) = [kind |-> m.kind, node |-> node, requester |-> requester,
                                       request |-> ReadLe(p, 0, 8), fan |-> target, duty |-> p[8]]
    BY RequestJoins DEF Requested
  <2> QED BY <2>1 DEF SetFan
<1>4. /\ W \in Seq(Writes) /\ Laid(Range(W), 12)
      /\ Shows(p, Range(W), 12) <=> m.request = ReadLe(p, 0, 8) /\ p[8] = m.duty /\ Zero(p, 9, 12)
  <2>1. W = V
    OBVIOUS
  <2> HIDE DEF W, p
  <2> QED BY <2>1, SetFanLayout, Zenon
<1>5. ControlLength(m.kind) = 12 /\ m.kind \in ControlKinds
          /\ Flag(m.kind # "EMERGENCY_DISABLE") = 1
  BY <1>1 DEF ControlLength, ControlKinds, Flag
<1>6. f \in EncodeControlRequest(m) <=>
          /\ HostRequester(m.requester) /\ ValidNodeId(m.node) /\ ValidDuty(m.duty)
          /\ Marked(f.id, 1, MessageClass["control"], m.node, m.fan, m.requester, Opcode[m.kind])
          /\ Length(p) = 12 /\ m.request = ReadLe(p, 0, 8) /\ p[8] = m.duty /\ Zero(p, 9, 12)
  <2>1. W = <<RequestId(m)>> \o ControlWrites(m)
    <3>1. ControlWrites(m) = <<<<8, <<m.duty>>>>>>
      BY <1>1 DEF ControlWrites
    <3> QED BY <3>1, Concat1And1 DEF RequestId
  <2>2. m \in ControlRequest
    BY DEF ControlRequest
  <2> HIDE DEF W
  <2> QED BY <1>1, <1>4, <1>5, <2>1, <2>2, ControlEncoded, Zenon
<1>7. m \in DecodeControlRequest(f) <=>
          /\ ControlHeader(f) /\ Opcode[m.kind] = Bits(f.id, "opcode") /\ Ready
          /\ m = Requested(f, m.kind, given)
  <2>1. m \in DecodeControlRequest(f) <=>
            /\ ControlHeader(f) /\ Opcode[m.kind] = Bits(f.id, "opcode")
            /\ \E args \in DecodeCommand(m.kind, Header(f.id), p) : m = Requested(f, m.kind, args)
    BY <1>5, ControlOfKind
  <2> HIDE DEF Ready, p, given
  <2> QED BY <1>2, <2>1
<1>8. \A n : ValidNodeId(n) => n # INVALID_NODE
  BY DEF ValidNodeId, INVALID_NODE
<1>9. ControlHeader(f) <=>
          /\ Bits(f.id, "class") = MessageClass["control"] /\ node # INVALID_NODE
          /\ HostRequester(requester) /\ Length(p) >= 8
  BY DEF ControlHeader
<1> HIDE DEF p, node, requester, target, W, given
<1> QED BY <1>1, <1>3, <1>6, <1>7, <1>8, <1>9 DEF Marked, node, requester, target

(* Requests for one node without a target of their own. *)
LEMMA StandardEncoded ==
    ASSUME NEW f \in Frame, NEW m \in SetCarrierPolicy \cup SetBinding,
           NEW W \in Seq(Writes), Laid(Range(W), 24)
    PROVE  W = <<RequestId(m)>> \o ControlWrites(m) =>
             (f \in EncodeControlRequest(m) <=>
               /\ HostRequester(m.requester) /\ ValidNodeId(m.node)
               /\ Marked(f.id, 1, MessageClass["control"], m.node, NODE_TARGET,
                         m.requester, Opcode[m.kind])
               /\ Length(f.payload) = 24 /\ Shows(f.payload, Range(W), 24))
<1>1. m.kind \in {"SET_CARRIER_POLICY", "SET_BINDING"} /\ m \in ControlRequest
  BY DEF SetCarrierPolicy, SetBinding, ControlRequest
<1>2. /\ ControlLength(m.kind) = 24 /\ m.kind # "SET_FAN" /\ m.kind # "EMERGENCY_DISABLE"
      /\ Flag(m.kind # "EMERGENCY_DISABLE") = 1
  BY <1>1 DEF ControlLength, Flag
<1> QED BY <1>1, <1>2, ControlEncoded, ZenonT(40)

LEMMA StandardTrip ==
    ASSUME NEW f \in Frame, NEW m \in SetCarrierPolicy \cup SetBinding, NEW Args,
           \A args : args \in DecodeCommand(m.kind, Header(f.id), f.payload) <=>
               /\ Bits(f.id, "priority") = 1 /\ ValidNodeId(Bits(f.id, "node"))
               /\ Bits(f.id, "target") = NODE_TARGET /\ Length(f.payload) = 24
               /\ args \in Args,
           NEW W \in Seq(Writes), Laid(Range(W), 24), W = <<RequestId(m)>> \o ControlWrites(m),
           /\ m.node = Bits(f.id, "node") /\ m.requester = Bits(f.id, "requester")
           /\ Length(f.payload) = 24
           => (Shows(f.payload, Range(W), 24) <=> \E args \in Args : m = Requested(f, m.kind,
               args)),
           \A args : m = Requested(f, m.kind, args) =>
               m.node = Bits(f.id, "node") /\ m.requester = Bits(f.id, "requester")
    PROVE  f \in EncodeControlRequest(m) <=> m \in DecodeControlRequest(f)
<1>1. f \in EncodeControlRequest(m) <=>
               /\ HostRequester(m.requester) /\ ValidNodeId(m.node)
               /\ Marked(f.id, 1, MessageClass["control"], m.node, NODE_TARGET,
                         m.requester, Opcode[m.kind])
               /\ Length(f.payload) = 24 /\ Shows(f.payload, Range(W), 24)
  BY StandardEncoded, Zenon
<1>2. m.kind \in ControlKinds
  BY DEF SetCarrierPolicy, SetBinding, ControlKinds
<1>3. m \in DecodeControlRequest(f) <=>
          /\ ControlHeader(f) /\ Opcode[m.kind] = Bits(f.id, "opcode")
          /\ \E args \in DecodeCommand(m.kind, Header(f.id), f.payload) : m = Requested(f,
                 m.kind, args)
  BY <1>2, ControlOfKind, Zenon
<1>4. \A n : ValidNodeId(n) => n # INVALID_NODE
  BY DEF ValidNodeId, INVALID_NODE
<1>5. ControlHeader(f) <=>
          /\ Bits(f.id, "class") = MessageClass["control"]
          /\ Bits(f.id, "node") # INVALID_NODE
          /\ HostRequester(Bits(f.id, "requester")) /\ Length(f.payload) >= 8
  BY DEF ControlHeader
<1> QED BY <1>1, <1>3, <1>4, <1>5 DEF Marked

LEMMA SetBindingTrip ==
    ASSUME NEW f \in Frame, NEW m \in SetBinding
    PROVE  f \in EncodeControlRequest(m) <=> m \in DecodeControlRequest(f)
<1> DEFINE p == f.payload
           node == Bits(f.id, "node")
           requester == Bits(f.id, "requester")
           Fine == Bool(p[8]) /\ Zero(p, 10, 12)
           Of(x) == [binding |-> x]
           Args == IF Fine THEN {Of(x) : x \in DecodeBindingAt(p, 8, 12)} ELSE {}
           absent == <<<<0, LittleEndian(m.request)>>, <<9, <<255>>>>>>
           present == <<<<0, LittleEndian(m.request)>>, <<8, <<1>>>>, <<9, <<m.binding.slot>>>>,
                        <<12, m.binding.uid>>>>
           W == IF m.binding = NONE THEN absent ELSE present
<1>1. m.kind = "SET_BINDING" /\ m.binding \in Option(CarrierBinding)
  BY DEF SetBinding
<1>2. \A args : args \in DecodeCommand(m.kind, Header(f.id), p) <=>
          /\ Bits(f.id, "priority") = 1 /\ ValidNodeId(node) /\ Bits(f.id, "target") = NODE_TARGET
          /\ Length(p) = 24 /\ args \in Args
  BY <1>1, CommandsMean
<1>3. \A x : m = Requested(f, m.kind, Of(x)) <=>
          /\ m.node = node /\ m.requester = requester /\ m.request = ReadLe(p, 0, 8)
          /\ m.binding = x
  <2> TAKE x
  <2>1. Requested(f, m.kind, Of(x)) = [kind |-> m.kind, node |-> node, requester |-> requester,
                                       request |-> ReadLe(p, 0, 8), binding |-> x]
    BY RequestJoins DEF Requested
  <2> QED BY <2>1 DEF SetBinding
<1>4. \A args : m = Requested(f, m.kind, args) => m.node = node /\ m.requester = requester
  BY Merged DEF Requested
<1>5. /\ W \in Seq(Writes) /\ Laid(Range(W), 24)
      /\ Shows(p, Range(W), 24) <=>
            /\ m.request = ReadLe(p, 0, 8) /\ Fine
            /\ IF m.binding = NONE THEN p[8] = 0 /\ p[9] = 255 /\ Zero(p, 12, 24)
               ELSE /\ p[8] = 1 /\ p[9] = m.binding.slot /\ m.binding.uid = Bytes(p, 12, 12)
  <2>1. CASE m.binding = NONE
    <3>1. W = <<<<0, LittleEndian(m.request)>>, <<9, <<255>>>>>>
      BY <2>1
    <3> HIDE DEF W, p
    <3>2. /\ W \in Seq(Writes) /\ Laid(Range(W), 24)
          /\ Shows(p, Range(W), 24) <=>
                /\ m.request = ReadLe(p, 0, 8) /\ Zero(p, 8, 9) /\ p[9] = 255
                /\ Zero(p, 10, 24)
      <4> DEFINE none == 255
      <4>1. none \in Byte
        BY DEF Byte
      <4> HIDE DEF none
      <4>2. \A w : w = <<<<0, LittleEndian(m.request)>>, <<9, <<none>>>>>> =>
                /\ w \in Seq(Writes) /\ Laid(Range(w), 24)
                /\ Shows(p, Range(w), 24) <=>
                      /\ m.request = ReadLe(p, 0, 8) /\ Zero(p, 8, 9) /\ p[9] = none
                      /\ Zero(p, 10, 24)
        BY <4>1, ClearBindingLayout
      <4>3. W = <<<<0, LittleEndian(m.request)>>, <<9, <<none>>>>>>
        BY <3>1 DEF none
      <4> DEFINE shown == /\ m.request = ReadLe(p, 0, 8) /\ Zero(p, 8, 9) /\ p[9] = none
                          /\ Zero(p, 10, 24)
      <4>4. W \in Seq(Writes) /\ Laid(Range(W), 24) /\ (Shows(p, Range(W), 24) <=> shown)
        BY <4>2, <4>3, Zenon
      <4> QED BY <4>4 DEF none
    <3>3. /\ Zero(p, 8, 9) <=> p[8] = 0
          /\ Zero(p, 10, 24) <=> Zero(p, 10, 12) /\ Zero(p, 12, 24)
      <4>1. 8 \in Nat /\ 8 + 1 = 9
        OBVIOUS
      <4>2. Zero(p, 8, 9) <=> p[8] = 0
        BY <4>1, OneByte
      <4> QED BY <4>2, ZeroSplits
    <3> QED BY <2>1, <3>2, <3>3 DEF Bool
  <2>2. CASE m.binding # NONE
    <3>1. W = <<<<0, LittleEndian(m.request)>>, <<8, <<1>>>>, <<9, <<m.binding.slot>>>>,
                <<12, m.binding.uid>>>>
      BY <2>2
    <3> HIDE DEF W, p
    <3>2. /\ W \in Seq(Writes) /\ Laid(Range(W), 24)
          /\ Shows(p, Range(W), 24) <=>
                /\ m.request = ReadLe(p, 0, 8) /\ p[8] = 1 /\ p[9] = m.binding.slot
                /\ Zero(p, 10, 12) /\ m.binding.uid = Bytes(p, 12, 12)
      BY <2>2, <3>1, SetBindingLayout, Zenon
    <3> QED BY <2>2, <3>2 DEF Bool
  <2> QED BY <2>1, <2>2
<1>6. W = <<RequestId(m)>> \o ControlWrites(m)
  <2>1. CASE m.binding = NONE
    <3>1. ControlWrites(m) = <<<<9, <<255>>>>>>
      BY <1>1, <2>1 DEF ControlWrites
    <3> QED BY <2>1, <3>1, Concat1And1 DEF RequestId
  <2>2. CASE m.binding # NONE
    <3>1. ControlWrites(m) = <<<<8, <<1>>>>, <<9, <<m.binding.slot>>>>, <<12, m.binding.uid>>>>
      BY <1>1, <2>2 DEF ControlWrites
    <3> QED BY <2>2, <3>1, Concat1And3, Zenon DEF RequestId
  <2> QED BY <2>1, <2>2, Zenon
<1>7. ASSUME Length(p) = 24
      PROVE  m.binding \in DecodeBindingAt(p, 8, 12) <=>
                IF m.binding = NONE THEN p[8] = 0 /\ p[9] = 255 /\ Zero(p, 12, 24)
                ELSE /\ p[8] # 0 /\ p[9] \in Slot
                     /\ m.binding.slot = p[9] /\ m.binding.uid = Bytes(p, 12, 12)
  <2>1. p \in Buffer(24)
    BY <1>7, Payloaded
  <2>2. Bytes(p, 12, 12) \in Word(12)
    BY <2>1, Reads
  <2>3. 8 + 1 = 9 /\ 12 + 12 = 24
    OBVIOUS
  <2> HIDE DEF p
  <2> QED BY <1>1, <2>2, <2>3, BindingsAt
<1>8. m.binding # NONE => m.binding.slot \in Slot
  BY <1>1 DEF Option, CarrierBinding
<1>9. ASSUME m.node = node, m.requester = requester, Length(p) = 24
      PROVE  Shows(p, Range(W), 24) <=> \E args \in Args : m = Requested(f, m.kind, args)
  <2>1. (\E args \in Args : m = Requested(f, m.kind, args)) <=>
            /\ Fine /\ m.binding \in DecodeBindingAt(p, 8, 12) /\ m.request = ReadLe(p, 0, 8)
    <3>1. \A args : args \in Args <=> Fine /\ \E x \in DecodeBindingAt(p, 8, 12) : args = Of(x)
      OBVIOUS
    <3> HIDE DEF Args, Fine, Of, p
    <3> QED BY <1>3, <1>9, <3>1
  <2> HIDE DEF Args, W, p
  <2> QED BY <1>5, <1>7, <1>8, <1>9, <2>1 DEF Bool
<1> HIDE DEF Args, W
<1>10. m \in SetCarrierPolicy \cup SetBinding
  OBVIOUS
<1> QED BY <1>2, <1>4, <1>5, <1>6, <1>9, <1>10, StandardTrip, Zenon

LEMMA LimitsMean ==
    ASSUME NEW p, NEW x \in Option(PdLimits), ReadLe(p, 12, 4) \in Word(4),
           ReadLe(p, 16, 4) \in Word(4), ReadLe(p, 20, 4) \in Word(4)
    PROVE  x \in DecodeLimits(p) <=>
               IF x = NONE THEN p[9] = 0 /\ Zero(p, 12, 24)
               ELSE /\ p[9] # 0 /\ x.voltage = ReadLe(p, 12, 4)
                    /\ x.current = ReadLe(p, 16, 4) /\ x.power = ReadLe(p, 20, 4)
<1> DEFINE given == [voltage |-> ReadLe(p, 12, 4), current |-> ReadLe(p, 16, 4),
                     power |-> ReadLe(p, 20, 4)]
<1>1. x \in DecodeLimits(p) <=> IF p[9] = 0 THEN Zero(p, 12, 24) /\ x = NONE ELSE x = given
  BY DEF DecodeLimits, When
<1>2. NONE \notin PdLimits /\ given \in PdLimits
  BY NoneAssumption DEF PdLimits
<1>3. x \in PdLimits => (x = given <=> /\ x.voltage = ReadLe(p, 12, 4)
                                       /\ x.current = ReadLe(p, 16, 4)
                                       /\ x.power = ReadLe(p, 20, 4))
  BY DEF PdLimits
<1> HIDE DEF given
<1> QED BY <1>1, <1>2, <1>3 DEF Option

LEMMA SetCarrierPolicyTrip ==
    ASSUME NEW f \in Frame, NEW m \in SetCarrierPolicy
    PROVE  f \in EncodeControlRequest(m) <=> m \in DecodeControlRequest(f)
<1> DEFINE p == f.payload
           node == Bits(f.id, "node")
           requester == Bits(f.id, "requester")
           Fine == Bool(p[8]) /\ Bool(p[9]) /\ Zero(p, 10, 12)
           Of(x) == [enabled |-> p[8] = 1, limits |-> x]
           Args == IF Fine THEN {Of(x) : x \in DecodeLimits(p)} ELSE {}
           absent == <<<<0, LittleEndian(m.request)>>, <<8, <<Flag(m.enabled)>>>>>>
           present == <<<<0, LittleEndian(m.request)>>, <<8, <<Flag(m.enabled)>>>>, <<9, <<1>>>>,
                        <<12, LittleEndian(m.limits.voltage)>>,
                        <<16, LittleEndian(m.limits.current)>>,
                        <<20, LittleEndian(m.limits.power)>>>>
           W == IF m.limits = NONE THEN absent ELSE present
<1>1. m.kind = "SET_CARRIER_POLICY" /\ m.limits \in Option(PdLimits) /\ m.enabled \in BOOLEAN
  BY DEF SetCarrierPolicy
<1>2. \A args : args \in DecodeCommand(m.kind, Header(f.id), p) <=>
          /\ Bits(f.id, "priority") = 1 /\ ValidNodeId(node) /\ Bits(f.id, "target") = NODE_TARGET
          /\ Length(p) = 24 /\ args \in Args
  BY <1>1, CommandsMean
<1>3. \A x : m = Requested(f, m.kind, Of(x)) <=>
          /\ m.node = node /\ m.requester = requester /\ m.request = ReadLe(p, 0, 8)
          /\ m.enabled = (p[8] = 1) /\ m.limits = x
  <2> TAKE x
  <2>1. Requested(f, m.kind, Of(x)) = [kind |-> m.kind, node |-> node, requester |-> requester,
                                       request |-> ReadLe(p, 0, 8), enabled |-> p[8] = 1,
                                       limits |-> x]
    BY RequestJoins DEF Requested
  <2> QED BY <2>1 DEF SetCarrierPolicy
<1>4. \A args : m = Requested(f, m.kind, args) => m.node = node /\ m.requester = requester
  BY Merged DEF Requested
<1>5. /\ W \in Seq(Writes) /\ Laid(Range(W), 24)
      /\ Shows(p, Range(W), 24) <=>
            /\ m.request = ReadLe(p, 0, 8) /\ p[8] = Flag(m.enabled) /\ Zero(p, 10, 12)
            /\ IF m.limits = NONE THEN p[9] = 0 /\ Zero(p, 12, 24)
               ELSE /\ p[9] = 1 /\ m.limits.voltage = ReadLe(p, 12, 4)
                    /\ m.limits.current = ReadLe(p, 16, 4) /\ m.limits.power = ReadLe(p, 20, 4)
  <2>1. CASE m.limits = NONE
    <3>1. W = absent
      BY <2>1
    <3> HIDE DEF W, p
    <3>2. /\ W \in Seq(Writes) /\ Laid(Range(W), 24)
          /\ Shows(p, Range(W), 24) <=>
                /\ m.request = ReadLe(p, 0, 8) /\ p[8] = Flag(m.enabled) /\ Zero(p, 9, 24)
      BY <3>1, UnlimitedLayout, Zenon
    <3>3. Zero(p, 9, 24) <=> p[9] = 0 /\ Zero(p, 10, 12) /\ Zero(p, 12, 24)
      <4>1. 9 \in Nat /\ 9 + 1 = 10
        OBVIOUS
      <4>2. Zero(p, 9, 10) <=> p[9] = 0
        BY <4>1, OneByte
      <4>3. Zero(p, 9, 24) <=> Zero(p, 9, 10) /\ Zero(p, 10, 24)
        BY ZeroSplits
      <4>4. Zero(p, 10, 24) <=> Zero(p, 10, 12) /\ Zero(p, 12, 24)
        BY ZeroSplits
      <4> QED BY <4>2, <4>3, <4>4
    <3> QED BY <2>1, <3>2, <3>3
  <2>2. CASE m.limits # NONE
    <3>1. W = present
      BY <2>2
    <3> HIDE DEF W, p
    <3>2. /\ W \in Seq(Writes) /\ Laid(Range(W), 24)
          /\ Shows(p, Range(W), 24) <=>
                /\ m.request = ReadLe(p, 0, 8) /\ p[8] = Flag(m.enabled) /\ p[9] = 1
                /\ Zero(p, 10, 12) /\ m.limits.voltage = ReadLe(p, 12, 4)
                /\ m.limits.current = ReadLe(p, 16, 4) /\ m.limits.power = ReadLe(p, 20, 4)
      BY <2>2, <3>1, LimitedLayout, Zenon
    <3> QED BY <2>2, <3>2
  <2> QED BY <2>1, <2>2
<1>6. W = <<RequestId(m)>> \o ControlWrites(m)
  <2>1. CASE m.limits = NONE
    <3>1. ControlWrites(m) = <<<<8, <<Flag(m.enabled)>>>>>> \o <<>>
      BY <1>1, <2>1 DEF ControlWrites
    <3>2. ControlWrites(m) = <<<<8, <<Flag(m.enabled)>>>>>>
      BY <3>1, Concat1And0
    <3> QED BY <2>1, <3>2, Concat1And1 DEF RequestId
  <2>2. CASE m.limits # NONE
    <3> DEFINE rest == <<<<9, <<1>>>>, <<12, LittleEndian(m.limits.voltage)>>,
                         <<16, LittleEndian(m.limits.current)>>,
                         <<20, LittleEndian(m.limits.power)>>>>
    <3>1. ControlWrites(m) = <<<<8, <<Flag(m.enabled)>>>>>> \o rest
      BY <1>1, <2>2 DEF ControlWrites
    <3>2. ControlWrites(m) = <<<<8, <<Flag(m.enabled)>>>>, <<9, <<1>>>>,
                               <<12, LittleEndian(m.limits.voltage)>>,
                               <<16, LittleEndian(m.limits.current)>>,
                               <<20, LittleEndian(m.limits.power)>>>>
      BY <3>1, Concat1And4
    <3>3. W = <<<<0, LittleEndian(m.request)>>, <<8, <<Flag(m.enabled)>>>>, <<9, <<1>>>>,
                <<12, LittleEndian(m.limits.voltage)>>, <<16, LittleEndian(m.limits.current)>>,
                <<20, LittleEndian(m.limits.power)>>>>
      BY <2>2
    <3>4. RequestId(m) = <<0, LittleEndian(m.request)>>
      BY DEF RequestId
    <3> HIDE DEF W
    <3>5. \A a1, a2, a3, a4, a5, a6 :
              <<a1>> \o <<a2, a3, a4, a5, a6>> = <<a1, a2, a3, a4, a5, a6>>
      BY Concat1And5, Zenon
    <3>6. <<RequestId(m)>> \o ControlWrites(m) = W
      <4> DEFINE a1 == <<0, LittleEndian(m.request)>>
                 a2 == <<8, <<Flag(m.enabled)>>>>
                 a3 == <<9, <<1>>>>
                 a4 == <<12, LittleEndian(m.limits.voltage)>>
                 a5 == <<16, LittleEndian(m.limits.current)>>
                 a6 == <<20, LittleEndian(m.limits.power)>>
      <4>1. ControlWrites(m) = <<a2, a3, a4, a5, a6>>
        BY <3>2
      <4>2. W = <<a1, a2, a3, a4, a5, a6>>
        BY <3>3
      <4>3. RequestId(m) = a1
        BY <3>4
      <4> HIDE DEF a1, a2, a3, a4, a5, a6
      <4> QED BY <4>1, <4>2, <4>3, <3>5
    <3> QED BY <3>6
  <2> QED BY <2>1, <2>2, Zenon
<1>7. ASSUME Length(p) = 24
      PROVE  m.limits \in DecodeLimits(p) <=>
                IF m.limits = NONE THEN p[9] = 0 /\ Zero(p, 12, 24)
                ELSE /\ p[9] # 0 /\ m.limits.voltage = ReadLe(p, 12, 4)
                     /\ m.limits.current = ReadLe(p, 16, 4) /\ m.limits.power = ReadLe(p, 20, 4)
  <2>1. p \in Buffer(24)
    BY <1>7, Payloaded
  <2>2. /\ ReadLe(p, 12, 4) \in Word(4) /\ ReadLe(p, 16, 4) \in Word(4)
        /\ ReadLe(p, 20, 4) \in Word(4)
    BY <2>1, Reads
  <2> HIDE DEF p
  <2> QED BY <1>1, <2>2, LimitsMean
<1>8. p[8] = Flag(m.enabled) <=> Bool(p[8]) /\ m.enabled = (p[8] = 1)
  BY <1>1 DEF Bool, Flag
<1>9. ASSUME m.node = node, m.requester = requester, Length(p) = 24
      PROVE  Shows(p, Range(W), 24) <=> \E args \in Args : m = Requested(f, m.kind, args)
  <2>1. (\E args \in Args : m = Requested(f, m.kind, args)) <=>
            /\ Fine /\ m.limits \in DecodeLimits(p) /\ m.request = ReadLe(p, 0, 8)
            /\ m.enabled = (p[8] = 1)
    <3>1. \A args : args \in Args <=> Fine /\ \E x \in DecodeLimits(p) : args = Of(x)
      OBVIOUS
    <3> HIDE DEF Args, Fine, Of, p
    <3> QED BY <1>3, <1>9, <3>1
  <2>2. Bool(p[9]) <=> p[9] = 0 \/ p[9] = 1
    BY DEF Bool
  <2> HIDE DEF Args, W, p
  <2> QED BY <1>5, <1>7, <1>8, <1>9, <2>1, <2>2
<1> HIDE DEF Args, W
<1>10. m \in SetCarrierPolicy \cup SetBinding
  OBVIOUS
<1> QED BY <1>2, <1>4, <1>5, <1>6, <1>9, <1>10, StandardTrip, ZenonT(40)

(* What is decoded as a request is one. *)
LEMMA ControlTyped ==
    ASSUME NEW f \in Frame, NEW m \in DecodeControlRequest(f)
    PROVE  m \in ControlRequest
<1> DEFINE p == f.payload
           node == Bits(f.id, "node")
           requester == Bits(f.id, "requester")
           request == ReadLe(p, 0, 8)
<1>1. ControlHeader(f) /\ \E kind \in ControlKinds :
          /\ Opcode[kind] = Bits(f.id, "opcode")
          /\ \E args \in DecodeCommand(kind, Header(f.id), p) : m = Requested(f, kind, args)
  BY ControlDecoded
<1>2. PICK kind \in ControlKinds : \E args \in DecodeCommand(kind, Header(f.id), p) :
          m = Requested(f, kind, args)
  BY <1>1
<1>3. PICK args \in DecodeCommand(kind, Header(f.id), p) : m = Requested(f, kind, args)
  BY <1>2
<1>4. node \in Byte /\ requester \in RequesterId
  BY Ranges DEF Frame, Byte, RequesterId
<1>5. request \in RequestIds
  <2>1. PICK n \in Nat : Length(p) = n /\ n >= 8
    <3>1. Length(p) \in Nat
      BY Lengths DEF Frame, CanFdLengths
    <3> QED BY <1>1, <3>1 DEF ControlHeader
  <2>2. p \in Buffer(n)
    BY <2>1, Payloaded
  <2> QED BY <2>1, <2>2, Reads DEF RequestIds
<1> DEFINE base == [kind |-> kind, node |-> node, requester |-> requester, request |-> request]
<1>6. m = Join(base, args)
  BY <1>3 DEF Requested
<1>7. CASE kind \in {"EMERGENCY_DISABLE", "ACKNOWLEDGE_EMERGENCY", "REQUEST_STATUS"}
  <2>1. args = <<>>
    BY <1>3, <1>7, CommandsMean
  <2>2. m = base
    BY <1>6, <2>1, RequestJoins
  <2>3. m \in PlainCommand
    BY <1>4, <1>5, <1>7, <2>2 DEF PlainCommand
  <2> QED BY <2>3 DEF ControlRequest
<1>8. CASE kind = "SET_CARRIER_POLICY"
  <2>1. PICK x \in DecodeLimits(p) : args = [enabled |-> p[8] = 1, limits |-> x]
    BY <1>3, <1>8, CommandsMean
  <2>2. Length(p) = 24
    BY <1>3, <1>8, CommandsMean
  <2>3. p \in Buffer(24)
    BY <2>2, Payloaded
  <2>4. /\ ReadLe(p, 12, 4) \in Word(4) /\ ReadLe(p, 16, 4) \in Word(4)
        /\ ReadLe(p, 20, 4) \in Word(4)
    BY <2>3, Reads
  <2>5. x \in Option(PdLimits)
    <3> HIDE DEF p
    <3> QED BY <2>1, <2>4 DEF DecodeLimits, When, Option, PdLimits
  <2>6. (p[8] = 1) \in BOOLEAN
    OBVIOUS
  <2>7. m = [kind |-> kind, node |-> node, requester |-> requester, request |-> request,
             enabled |-> p[8] = 1, limits |-> x]
    BY <1>6, <2>1, RequestJoins
  <2> HIDE DEF p, node, requester, request
  <2>8. m \in SetCarrierPolicy
    BY <1>4, <1>5, <1>8, <2>5, <2>6, <2>7 DEF SetCarrierPolicy
  <2> QED BY <2>8 DEF ControlRequest
<1>9. CASE kind = "SET_FAN"
  <2>1. /\ Length(p) = 12 /\ Bits(f.id, "target") \in FanId
        /\ args = [fan |-> Bits(f.id, "target"), duty |-> p[8]]
    BY <1>3, <1>9, CommandsMean
  <2>2. p \in Buffer(12)
    BY <2>1, Payloaded
  <2>3. p[8] \in Byte
    BY <2>2 DEF Buffer
  <2>4. m = [kind |-> kind, node |-> node, requester |-> requester, request |-> request,
             fan |-> Bits(f.id, "target"), duty |-> p[8]]
    BY <1>6, <2>1, RequestJoins
  <2> HIDE DEF p, node, requester, request
  <2>5. m \in SetFan
    BY <1>4, <1>5, <1>9, <2>1, <2>3, <2>4 DEF SetFan
  <2> QED BY <2>5 DEF ControlRequest
<1>10. CASE kind = "SET_BINDING"
  <2>1. PICK x \in DecodeBindingAt(p, 8, 12) : args = [binding |-> x]
    BY <1>3, <1>10, CommandsMean
  <2>2. Length(p) = 24
    BY <1>3, <1>10, CommandsMean
  <2>3. p \in Buffer(24)
    BY <2>2, Payloaded
  <2>4. Bytes(p, 12, 12) \in Word(12)
    BY <2>3, Reads
  <2>5. x \in Option(CarrierBinding)
    <3> HIDE DEF p
    <3> QED BY <2>1, <2>4 DEF DecodeBindingAt, When, ReadUid, Option, CarrierBinding, NodeUid
  <2>6. m = [kind |-> kind, node |-> node, requester |-> requester, request |-> request,
             binding |-> x]
    BY <1>6, <2>1, RequestJoins
  <2> HIDE DEF p, node, requester, request
  <2>7. m \in SetBinding
    BY <1>4, <1>5, <1>10, <2>5, <2>6 DEF SetBinding
  <2> QED BY <2>7 DEF ControlRequest
<1> QED BY <1>7, <1>8, <1>9, <1>10 DEF ControlKinds

LEMMA ControlTrip ==
    ASSUME NEW f \in Frame
    PROVE  /\ DecodeControlRequest(f) \subseteq ControlRequest
           /\ \A m \in ControlRequest : f \in EncodeControlRequest(m)
                  <=> m \in DecodeControlRequest(f)
BY ControlTyped, PlainTrip, SetFanTrip, SetCarrierPolicyTrip, SetBindingTrip DEF ControlRequest

-----------------------------------------------------------------------------
(* Firmware requests. *)

LEMMA StatusRequestLayout ==
    ASSUME NEW m \in StatusRequest, NEW p, NEW W,
           W = <<<<0, LittleEndian(m.request)>>>>
    PROVE  /\ W \in Seq(Writes) /\ Laid(Range(W), 8)
           /\ Shows(p, Range(W), 8) <=>
                /\ m.request = ReadLe(p, 0, 8)
<1> DEFINE a == LittleEndian(m.request)
           A == Put({}, 0, a)
<1>1. /\ m.request \in Word(8) /\ 8 \in Nat
  BY DEF StatusRequest, RequestIds, Byte
<1>2. Laid({}, 0) /\ (Shows(p, {}, 0) <=> TRUE)
  BY Blank, NoGap
<1>3. Laid(A, 8) /\ (Shows(p, A, 8) <=> Shows(p, {}, 0) /\ m.request = ReadLe(p, 0, 8))
  BY <1>1, <1>2, PutWord, NoGap
<1> HIDE DEF A
<1>4. W = <<<<0, a>>>>
  OBVIOUS
<1> HIDE DEF a
<1>5. Range(W) = A
  BY <1>4 DEF A, Put, Range
<1>6. A \subseteq Writes
  BY <1>3 DEF Laid
<1>7. W \in Seq(Writes)
  BY <1>4, <1>5, <1>6 DEF Range
<1> QED BY <1>2, <1>3, <1>5, <1>7, Zenon

LEMMA FinishLayout ==
    ASSUME NEW m \in FinishOrAbort, NEW p, NEW W,
           W = <<<<0, LittleEndian(m.request)>>, <<8, LittleEndian(m.session)>>>>
    PROVE  /\ W \in Seq(Writes) /\ Laid(Range(W), 16)
           /\ Shows(p, Range(W), 16) <=>
                /\ m.request = ReadLe(p, 0, 8) /\ m.session = ReadLe(p, 8, 4)
                /\ Zero(p, 12, 16)
<1> DEFINE a == LittleEndian(m.request)
           b == LittleEndian(m.session)
           A == Put({}, 0, a)
           B == Put(A, 8, b)
<1>1. /\ m.request \in Word(8) /\ m.session \in Word(4) /\ 16 \in Nat
  BY DEF FinishOrAbort, RequestIds, Byte
<1>2. Laid({}, 0) /\ (Shows(p, {}, 0) <=> TRUE)
  BY Blank, NoGap
<1>3. Laid(A, 8) /\ (Shows(p, A, 8) <=> Shows(p, {}, 0) /\ m.request = ReadLe(p, 0, 8))
  BY <1>1, <1>2, PutWord, NoGap
<1> HIDE DEF A
<1>4. /\ Laid(B, 16)
      /\ Shows(p, B, 16) <=> Shows(p, A, 8) /\ m.session = ReadLe(p, 8, 4) /\ Zero(p, 12, 16)
  BY <1>1, <1>3, PutWord
<1> HIDE DEF B
<1>5. W = <<<<0, a>>, <<8, b>>>>
  OBVIOUS
<1> HIDE DEF a, b
<1>6. Range(W) = B
  BY <1>5 DEF A, B, Put, Range
<1>7. B \subseteq Writes
  BY <1>4 DEF Laid
<1>8. W \in Seq(Writes)
  BY <1>5, <1>6, <1>7 DEF Range
<1> QED BY <1>2, <1>3, <1>4, <1>6, <1>8, Zenon

LEMMA ActivateLayout ==
    ASSUME NEW m \in Activate, NEW p, NEW W,
           W = <<<<0, LittleEndian(m.request)>>, <<8, LittleEndian(m.session)>>,
                <<12, <<Flag(m.interrupt)>>>>>>
    PROVE  /\ W \in Seq(Writes) /\ Laid(Range(W), 16)
           /\ Shows(p, Range(W), 16) <=>
                /\ m.request = ReadLe(p, 0, 8) /\ m.session = ReadLe(p, 8, 4)
                /\ p[12] = Flag(m.interrupt) /\ Zero(p, 13, 16)
<1> DEFINE a == LittleEndian(m.request)
           b == LittleEndian(m.session)
           c == <<Flag(m.interrupt)>>
           A == Put({}, 0, a)
           B == Put(A, 8, b)
           C == Put(B, 12, c)
<1>1. /\ m.request \in Word(8) /\ m.session \in Word(4) /\ Flag(m.interrupt) \in Byte
      /\ 16 \in Nat
  BY DEF Activate, RequestIds, Byte, Flag
<1>2. Laid({}, 0) /\ (Shows(p, {}, 0) <=> TRUE)
  BY Blank, NoGap
<1>3. Laid(A, 8) /\ (Shows(p, A, 8) <=> Shows(p, {}, 0) /\ m.request = ReadLe(p, 0, 8))
  BY <1>1, <1>2, PutWord, NoGap
<1> HIDE DEF A
<1>4. Laid(B, 12) /\ (Shows(p, B, 12) <=> Shows(p, A, 8) /\ m.session = ReadLe(p, 8, 4))
  BY <1>1, <1>3, PutWord, NoGap
<1> HIDE DEF B
<1>5. /\ Laid(C, 16)
      /\ Shows(p, C, 16) <=> Shows(p, B, 12) /\ p[12] = Flag(m.interrupt) /\ Zero(p, 13, 16)
  BY <1>1, <1>4, PutByte
<1> HIDE DEF C
<1>6. W = <<<<0, a>>, <<8, b>>, <<12, c>>>>
  OBVIOUS
<1> HIDE DEF a, b, c
<1>7. Range(W) = C
  BY <1>6 DEF A, B, C, Put, Range
<1>8. C \subseteq Writes
  BY <1>5 DEF Laid
<1>9. W \in Seq(Writes)
  BY <1>6, <1>7, <1>8 DEF Range
<1> QED BY <1>2, <1>3, <1>4, <1>5, <1>7, <1>9, Zenon

LEMMA DataLayout ==
    ASSUME NEW m \in Data, NEW p, NEW W,
           W = <<<<0, LittleEndian(m.session)>>, <<4, LittleEndian(m.offset)>>,
                <<8, <<m.len>>>>, <<16, m.bytes>>>>
    PROVE  /\ W \in Seq(Writes) /\ Laid(Range(W), 64)
           /\ Shows(p, Range(W), 64) <=>
                /\ m.session = ReadLe(p, 0, 4) /\ m.offset = ReadLe(p, 4, 4) /\ p[8] = m.len
                /\ Zero(p, 9, 16) /\ m.bytes = Bytes(p, 16, 48)
<1> DEFINE a == LittleEndian(m.session)
           b == LittleEndian(m.offset)
           c == <<m.len>>
           d == m.bytes
           A == Put({}, 0, a)
           B == Put(A, 4, b)
           C == Put(B, 8, c)
           D == Put(C, 16, d)
<1>1. /\ m.session \in Word(4) /\ m.offset \in Word(4) /\ m.len \in Byte
      /\ m.bytes \in Word(48) /\ 64 \in Nat
  BY DEF Data, RequestIds, Byte, FIRMWARE_CHUNK_BYTES
<1>2. Laid({}, 0) /\ (Shows(p, {}, 0) <=> TRUE)
  BY Blank, NoGap
<1>3. Laid(A, 4) /\ (Shows(p, A, 4) <=> Shows(p, {}, 0) /\ m.session = ReadLe(p, 0, 4))
  BY <1>1, <1>2, PutWord, NoGap
<1> HIDE DEF A
<1>4. Laid(B, 8) /\ (Shows(p, B, 8) <=> Shows(p, A, 4) /\ m.offset = ReadLe(p, 4, 4))
  BY <1>1, <1>3, PutWord, NoGap
<1> HIDE DEF B
<1>5. Laid(C, 16) /\ (Shows(p, C, 16) <=> Shows(p, B, 8) /\ p[8] = m.len /\ Zero(p, 9, 16))
  BY <1>1, <1>4, PutByte
<1> HIDE DEF C
<1>6. Laid(D, 64) /\ (Shows(p, D, 64) <=> Shows(p, C, 16) /\ m.bytes = Bytes(p, 16, 48))
  BY <1>1, <1>5, PutUid, NoGap
<1> HIDE DEF D
<1>7. W = <<<<0, a>>, <<4, b>>, <<8, c>>, <<16, d>>>>
  OBVIOUS
<1> HIDE DEF a, b, c, d
<1>8. Range(W) = D
  BY <1>7 DEF A, B, C, D, Put, Range
<1>9. D \subseteq Writes
  BY <1>6 DEF Laid
<1>10. W \in Seq(Writes)
  BY <1>7, <1>8, <1>9 DEF Range
<1> QED BY <1>2, <1>3, <1>4, <1>5, <1>6, <1>8, <1>10, Zenon

LEMMA BeginLayout ==
    ASSUME NEW m \in Begin, NEW p, NEW W,
           W = <<<<0, LittleEndian(m.request)>>, <<8, LittleEndian(m.session)>>,
                <<12, LittleEndian(m.size)>>, <<16, <<m.role>>>>,
                <<17, <<ProfileByte(m.profile)>>>>,
                <<18, <<m.revision>>>>, <<19, <<m.layout>>>>,
                <<20, Version(m.version)>>, <<32, m.digest>>>>
    PROVE  /\ W \in Seq(Writes) /\ Laid(Range(W), 64)
           /\ Shows(p, Range(W), 64) <=>
                /\ m.request = ReadLe(p, 0, 8) /\ m.session = ReadLe(p, 8, 4)
                /\ m.size = ReadLe(p, 12, 4) /\ p[16] = m.role
                /\ p[17] = ProfileByte(m.profile) /\ p[18] = m.revision /\ p[19] = m.layout
                /\ m.version = ReadVersion(p, 20) /\ Zero(p, 26, 32)
                /\ m.digest = Bytes(p, 32, 32)
<1> DEFINE a == LittleEndian(m.request)
           b == LittleEndian(m.session)
           c == LittleEndian(m.size)
           d == <<m.role>>
           e == <<ProfileByte(m.profile)>>
           f == <<m.revision>>
           g == <<m.layout>>
           h == Version(m.version)
           i == m.digest
           A == Put({}, 0, a)
           B == Put(A, 8, b)
           C == Put(B, 12, c)
           D == Put(C, 16, d)
           E == Put(D, 17, e)
           F == Put(E, 18, f)
           G == Put(F, 19, g)
           H == Put(G, 20, h)
           I == Put(H, 32, i)
<1>1. /\ m.request \in Word(8) /\ m.session \in Word(4) /\ m.size \in Word(4)
      /\ m.role \in Byte /\ ProfileByte(m.profile) \in Byte /\ m.revision \in Byte
      /\ m.layout \in Byte /\ m.version \in FirmwareVersion /\ m.digest \in Word(32) /\ 64 \in Nat
  BY Profiles DEF Begin, RequestIds, Byte, BACKPLANE, CARRIER, HardwareRevision, Sha256
<1>2. Laid({}, 0) /\ (Shows(p, {}, 0) <=> TRUE)
  BY Blank, NoGap
<1>3. Laid(A, 8) /\ (Shows(p, A, 8) <=> Shows(p, {}, 0) /\ m.request = ReadLe(p, 0, 8))
  BY <1>1, <1>2, PutWord, NoGap
<1> HIDE DEF A
<1>4. Laid(B, 12) /\ (Shows(p, B, 12) <=> Shows(p, A, 8) /\ m.session = ReadLe(p, 8, 4))
  BY <1>1, <1>3, PutWord, NoGap
<1> HIDE DEF B
<1>5. Laid(C, 16) /\ (Shows(p, C, 16) <=> Shows(p, B, 12) /\ m.size = ReadLe(p, 12, 4))
  BY <1>1, <1>4, PutWord, NoGap
<1> HIDE DEF C
<1>6. Laid(D, 17) /\ (Shows(p, D, 17) <=> Shows(p, C, 16) /\ p[16] = m.role)
  BY <1>1, <1>5, PutByte, NoGap
<1> HIDE DEF D
<1>7. Laid(E, 18) /\ (Shows(p, E, 18) <=> Shows(p, D, 17) /\ p[17] = ProfileByte(m.profile))
  BY <1>1, <1>6, PutByte, NoGap
<1> HIDE DEF E
<1>8. Laid(F, 19) /\ (Shows(p, F, 19) <=> Shows(p, E, 18) /\ p[18] = m.revision)
  BY <1>1, <1>7, PutByte, NoGap
<1> HIDE DEF F
<1>9. Laid(G, 20) /\ (Shows(p, G, 20) <=> Shows(p, F, 19) /\ p[19] = m.layout)
  BY <1>1, <1>8, PutByte, NoGap
<1> HIDE DEF G
<1>10. /\ Laid(H, 32)
       /\ Shows(p, H, 32) <=> Shows(p, G, 20) /\ m.version = ReadVersion(p, 20) /\ Zero(p, 26, 32)
  BY <1>1, <1>9, PutVersion
<1> HIDE DEF H
<1>11. Laid(I, 64) /\ (Shows(p, I, 64) <=> Shows(p, H, 32) /\ m.digest = Bytes(p, 32, 32))
  BY <1>1, <1>10, PutUid, NoGap
<1> HIDE DEF I
<1>12. W = <<<<0, a>>, <<8, b>>, <<12, c>>, <<16, d>>, <<17, e>>, <<18, f>>, <<19, g>>,
             <<20, h>>, <<32, i>>>>
  OBVIOUS
<1> HIDE DEF a, b, c, d, e, f, g, h, i
<1>13. Range(W) = I
  BY <1>12 DEF A, B, C, D, E, F, G, H, I, Put, Range
<1>14. I \subseteq Writes
  BY <1>11 DEF Laid
<1>15. W \in Seq(Range(W))
  BY <1>12 DEF Range
<1>16. W \in Seq(Writes)
  BY <1>13, <1>14, <1>15, Widened
<1> QED BY <1>2, <1>3, <1>4, <1>5, <1>6, <1>7, <1>8, <1>9, <1>10, <1>11, <1>13, <1>16, Zenon

(* What a request of each kind is made of. *)
LEMMA StatusRequestJoin ==
    ASSUME NEW k, NEW n, NEW r, NEW q
    PROVE  Join([kind |-> k, node |-> n, requester |-> r], [request |-> q])
             = [kind |-> k, node |-> n, requester |-> r, request |-> q]
BY DEF Join

LEMMA FinishJoin ==
    ASSUME NEW k, NEW n, NEW r, NEW q, NEW s
    PROVE  Join([kind |-> k, node |-> n, requester |-> r],
                Join([request |-> q], [session |-> s]))
             = [kind |-> k, node |-> n, requester |-> r, request |-> q, session |-> s]
<1>1. Join([request |-> q], [session |-> s]) = [request |-> q, session |-> s]
  BY DEF Join
<1>2. Join([kind |-> k, node |-> n, requester |-> r], [request |-> q, session |-> s])
          = [kind |-> k, node |-> n, requester |-> r, request |-> q, session |-> s]
  BY DEF Join
<1> QED BY <1>1, <1>2

LEMMA ActivateJoin ==
    ASSUME NEW k, NEW n, NEW r, NEW q, NEW s, NEW x
    PROVE  Join([kind |-> k, node |-> n, requester |-> r],
                Join(Join([request |-> q], [session |-> s]), [interrupt |-> x]))
             = [kind |-> k, node |-> n, requester |-> r, request |-> q, session |-> s,
                interrupt |-> x]
<1>1. Join([request |-> q], [session |-> s]) = [request |-> q, session |-> s]
  BY DEF Join
<1>2. Join([request |-> q, session |-> s], [interrupt |-> x])
          = [request |-> q, session |-> s, interrupt |-> x]
  BY DEF Join
<1>3. Join([kind |-> k, node |-> n, requester |-> r],
           [request |-> q, session |-> s, interrupt |-> x])
          = [kind |-> k, node |-> n, requester |-> r, request |-> q, session |-> s,
             interrupt |-> x]
  BY DEF Join
<1> QED BY <1>1, <1>2, <1>3

LEMMA DataJoin ==
    ASSUME NEW k, NEW n, NEW r, NEW s, NEW x, NEW y, NEW z
    PROVE  Join([kind |-> k, node |-> n, requester |-> r],
                [session |-> s, offset |-> x, len |-> y, bytes |-> z])
             = [kind |-> k, node |-> n, requester |-> r, session |-> s, offset |-> x,
                len |-> y, bytes |-> z]
BY DEF Join

LEMMA BeginJoin ==
    ASSUME NEW k, NEW n, NEW r, NEW q, NEW s, NEW a1, NEW a2, NEW a3, NEW a4, NEW a5, NEW a6, NEW a7
    PROVE  Join([kind |-> k, node |-> n, requester |-> r],
                Join(Join([request |-> q], [session |-> s]),
                     [size |-> a1, role |-> a2, profile |-> a3, revision |-> a4, layout |-> a5,
                      version |-> a6, digest |-> a7]))
             = [kind |-> k, node |-> n, requester |-> r, request |-> q, session |-> s,
                size |-> a1, role |-> a2, profile |-> a3, revision |-> a4, layout |-> a5,
                version |-> a6, digest |-> a7]
<1> DEFINE base == [kind |-> k, node |-> n, requester |-> r]
           given == [size |-> a1, role |-> a2, profile |-> a3, revision |-> a4, layout |-> a5,
                     version |-> a6, digest |-> a7]
           args == [request |-> q, session |-> s, size |-> a1, role |-> a2, profile |-> a3,
                    revision |-> a4, layout |-> a5, version |-> a6, digest |-> a7]
           full == [kind |-> k, node |-> n, requester |-> r, request |-> q, session |-> s,
                    size |-> a1, role |-> a2, profile |-> a3, revision |-> a4, layout |-> a5,
                    version |-> a6, digest |-> a7]
<1>1. Join([request |-> q], [session |-> s]) = [request |-> q, session |-> s]
  BY DEF Join
<1>2. Join([request |-> q, session |-> s], given) = args
  <2>1. DOMAIN [request |-> q, session |-> s] \cup DOMAIN given = DOMAIN args
    OBVIOUS
  <2>2. \A x \in DOMAIN args :
            (IF x \in DOMAIN [request |-> q, session |-> s]
             THEN [request |-> q, session |-> s][x] ELSE given[x]) = args[x]
    OBVIOUS
  <2>3. args = [x \in DOMAIN args |-> args[x]]
    OBVIOUS
  <2> QED BY <2>1, <2>2, <2>3 DEF Join
<1>3. Join(base, args) = full
  <2>1. DOMAIN base \cup DOMAIN args = DOMAIN full
    OBVIOUS
  <2>2. \A x \in DOMAIN full :
            (IF x \in DOMAIN base THEN base[x] ELSE args[x]) = full[x]
    OBVIOUS
  <2>3. full = [x \in DOMAIN full |-> full[x]]
    OBVIOUS
  <2> QED BY <2>1, <2>2, <2>3 DEF Join
<1> QED BY <1>1, <1>2, <1>3

FirmwareRequested(f, kind, args) ==
    Join([kind |-> kind, node |-> Bits(f.id, "node"), requester |-> Bits(f.id, "requester")], args)

(* The checks every firmware request has to pass. *)
FirmwareHeader(f) ==
    /\ Bits(f.id, "class") = MessageClass["firmware"] /\ Bits(f.id, "priority") = 5
    /\ Bits(f.id, "target") = NODE_TARGET /\ HostRequester(Bits(f.id, "requester"))
    /\ ValidNodeId(Bits(f.id, "node"))

LEMMA FirmwareDecoded ==
    ASSUME NEW f \in Frame, NEW m
    PROVE  m \in DecodeFirmwareRequest(f) <=>
               /\ FirmwareHeader(f)
               /\ \E kind \in FirmwareKinds :
                     /\ Opcode[kind] = Bits(f.id, "opcode")
                     /\ Length(f.payload) = FirmwareLength(kind)
                     /\ \E args \in DecodeFirmwareBody(kind, f.payload) :
                           m = FirmwareRequested(f, kind, args)
<1> DEFINE Of(h, kind) == {Join([kind |-> kind, node |-> h.node, requester |-> h.requester], args) :
                             args \in DecodeFirmwareBody(kind, f.payload)}
           Kinds(h) == {k \in FirmwareKinds : /\ Opcode[k] = h.opcode
                                              /\ Length(f.payload) = FirmwareLength(k)}
           Heads == {h \in HeaderDecode(f.id) :
                        /\ h.class = MessageClass.firmware
                        /\ h.priority = 5
                        /\ h.target = NODE_TARGET
                        /\ HostRequester(h.requester)
                        /\ ValidNodeId(h.node)}
<1>1. m \in DecodeFirmwareRequest(f) <=>
          \E h \in Heads : \E kind \in Kinds(h) : m \in Of(h, kind)
  <2>1. DecodeFirmwareRequest(f) = UNION {UNION {Of(h, kind) : kind \in Kinds(h)} : h \in Heads}
    BY DEF DecodeFirmwareRequest
  <2> HIDE DEF Of, Kinds, Heads
  <2> QED BY <2>1
<1>2. \A h : h \in HeaderDecode(f.id) <=> /\ h = Header(f.id) /\ Bits(f.id, "class") \in Classes
                                          /\ Bits(f.id, "node") # INVALID_NODE
  BY HeaderDecodes DEF Frame
<1>3. \A n : ValidNodeId(n) => n # INVALID_NODE
  BY DEF ValidNodeId, INVALID_NODE
<1>4. \A h : h \in Heads <=> h = Header(f.id) /\ FirmwareHeader(f)
  BY <1>2, <1>3, HeaderFieldsOf, LegalClasses DEF FirmwareHeader, MessageClass
<1>5. \A kind : m \in Of(Header(f.id), kind) <=>
          \E args \in DecodeFirmwareBody(kind, f.payload) : m = FirmwareRequested(f, kind, args)
  BY HeaderFieldsOf DEF FirmwareRequested
<1>6. \A kind : kind \in Kinds(Header(f.id)) <=>
          /\ kind \in FirmwareKinds /\ Opcode[kind] = Bits(f.id, "opcode")
          /\ Length(f.payload) = FirmwareLength(kind)
  BY HeaderFieldsOf
<1> HIDE DEF Of, Kinds, Heads
<1> QED BY <1>1, <1>4, <1>5, <1>6

LEMMA FirmwareOfKind ==
    ASSUME NEW f \in Frame, NEW m, m.kind \in FirmwareKinds
    PROVE  m \in DecodeFirmwareRequest(f) <=>
               /\ FirmwareHeader(f) /\ Opcode[m.kind] = Bits(f.id, "opcode")
               /\ Length(f.payload) = FirmwareLength(m.kind)
               /\ \E args \in DecodeFirmwareBody(m.kind, f.payload) :
                     m = FirmwareRequested(f, m.kind, args)
<1>1. \A kind, args : m = FirmwareRequested(f, kind, args) => m.kind = kind
  BY Merged DEF FirmwareRequested
<1> QED BY <1>1, FirmwareDecoded

(* What the encoder asks of a request's fields. *)
FirmwareGuard(m) ==
    /\ m.kind = "FW_BEGIN" => RoleProfile(m.role, m.profile)
    /\ m.kind = "FW_DATA" => ValidChunk(m.len, m.bytes)

LEMMA FirmwareEncoded ==
    ASSUME NEW f \in Frame, NEW m \in FirmwareRequest, NEW W \in Seq(Writes), NEW len,
           len = FirmwareLength(m.kind), Laid(Range(W), len)
    PROVE  W = FirmwareWrites(m) =>
             (f \in EncodeFirmwareRequest(m) <=>
               /\ HostRequester(m.requester) /\ ValidNodeId(m.node) /\ FirmwareGuard(m)
               /\ Marked(f.id, 5, MessageClass["firmware"], m.node, NODE_TARGET,
                         m.requester, Opcode[m.kind])
               /\ Length(f.payload) = len /\ Shows(f.payload, Range(W), len))
<1> DEFINE header == [priority |-> 5, class |-> MessageClass["firmware"], node |-> m.node,
                      target |-> NODE_TARGET, requester |-> m.requester,
                      opcode |-> Opcode[m.kind]]
<1>1. W = FirmwareWrites(m) =>
         (f \in EncodeFirmwareRequest(m) <=>
            /\ HostRequester(m.requester) /\ FirmwareGuard(m) /\ f \in Framed(header, len, W))
  <2>1. header = [priority |-> 5, class |-> MessageClass.firmware, node |-> m.node,
                  target |-> NODE_TARGET, requester |-> m.requester, opcode |-> Opcode[m.kind]]
    OBVIOUS
  <2> HIDE DEF header
  <2> QED BY <2>1 DEF EncodeFirmwareRequest, FirmwareGuard
<1>2. ValidNodeId(m.node) /\ m.requester \in 0 .. 15 /\ m.kind \in FirmwareKinds
  BY SMTT(30) DEF FirmwareRequest, Begin, Data, FinishOrAbort, Activate, StatusRequest, ValidNodeId,
         NodeId, RequesterId, FirmwareKinds
<1>3. Proper(5, MessageClass["firmware"], m.node, NODE_TARGET, m.requester, Opcode[m.kind], len)
  <2>1. m.node \in 0 .. 254
    BY <1>2 DEF ValidNodeId
  <2>2. \A k \in FirmwareKinds : Opcode[k] \in 0 .. 63
    <3>1. /\ Opcode["FW_BEGIN"] \in 0 .. 63 /\ Opcode["FW_DATA"] \in 0 .. 63
          /\ Opcode["FW_FINISH"] \in 0 .. 63 /\ Opcode["FW_ACTIVATE"] \in 0 .. 63
          /\ Opcode["FW_ABORT"] \in 0 .. 63 /\ Opcode["FW_STATUS"] \in 0 .. 63
      BY Opcodes
    <3> QED BY <3>1, Zenon DEF FirmwareKinds
  <2>3. len \in CanFdLengths
    BY DEF FirmwareLength, CanFdLengths
  <2> QED BY <1>2, <2>1, <2>2, <2>3, MessageClasses DEF Proper, NODE_TARGET
<1>4. f \in Framed(header, len, W) <=>
         /\ Marked(f.id, 5, MessageClass["firmware"], m.node, NODE_TARGET, m.requester,
                   Opcode[m.kind])
         /\ Length(f.payload) = len /\ Shows(f.payload, Range(W), len)
  <2>1. PICK c, n, r, o : /\ c = MessageClass["firmware"] /\ n = m.node /\ r = m.requester
                          /\ o = Opcode[m.kind]
    OBVIOUS
  <2>2. Proper(5, c, n, NODE_TARGET, r, o, len)
    BY <1>3, <2>1
  <2>3. header = [priority |-> 5, class |-> c, node |-> n, target |-> NODE_TARGET,
                  requester |-> r, opcode |-> o]
    BY <2>1
  <2>4. f \in Framed([priority |-> 5, class |-> c, node |-> n, target |-> NODE_TARGET,
                     requester |-> r, opcode |-> o], len, W) <=>
               /\ Marked(f.id, 5, c, n, NODE_TARGET, r, o)
               /\ Length(f.payload) = len /\ Shows(f.payload, Range(W), len)
    BY <2>2, ScopedFramed
  <2> HIDE DEF header
  <2> QED BY <2>1, <2>3, <2>4
<1> HIDE DEF header
<1> QED BY <1>1, <1>2, <1>4

(* A request makes the trip when what its frame shows is what is read from it. *)
LEMMA FirmwareRequestTrip ==
    ASSUME NEW f \in Frame, NEW m \in FirmwareRequest, NEW W \in Seq(Writes), NEW len,
           len = FirmwareLength(m.kind), Laid(Range(W), len), W = FirmwareWrites(m),
           /\ m.node = Bits(f.id, "node") /\ m.requester = Bits(f.id, "requester")
           /\ Length(f.payload) = len
           => (FirmwareGuard(m) /\ Shows(f.payload, Range(W), len) <=>
                 \E args \in DecodeFirmwareBody(m.kind, f.payload) :
                    m = FirmwareRequested(f, m.kind, args))
    PROVE  f \in EncodeFirmwareRequest(m) <=> m \in DecodeFirmwareRequest(f)
<1>1. f \in EncodeFirmwareRequest(m) <=>
               /\ HostRequester(m.requester) /\ ValidNodeId(m.node) /\ FirmwareGuard(m)
               /\ Marked(f.id, 5, MessageClass["firmware"], m.node, NODE_TARGET,
                         m.requester, Opcode[m.kind])
               /\ Length(f.payload) = len /\ Shows(f.payload, Range(W), len)
  BY FirmwareEncoded
<1>2. m.kind \in FirmwareKinds
  BY DEF FirmwareRequest, Begin, Data, FinishOrAbort, Activate, StatusRequest, FirmwareKinds
<1>3. m \in DecodeFirmwareRequest(f) <=>
          /\ FirmwareHeader(f) /\ Opcode[m.kind] = Bits(f.id, "opcode")
          /\ Length(f.payload) = len
          /\ \E args \in DecodeFirmwareBody(m.kind, f.payload) : m = FirmwareRequested(f, m.kind,
                 args)
  BY <1>2, FirmwareOfKind, Zenon
<1>4. \A args : m = FirmwareRequested(f, m.kind, args) =>
          m.node = Bits(f.id, "node") /\ m.requester = Bits(f.id, "requester")
  BY Merged DEF FirmwareRequested
<1> QED BY <1>1, <1>3, <1>4 DEF Marked, FirmwareHeader

LEMMA StatusRequestTrip ==
    ASSUME NEW f \in Frame, NEW m \in StatusRequest
    PROVE  f \in EncodeFirmwareRequest(m) <=> m \in DecodeFirmwareRequest(f)
<1> DEFINE p == f.payload
           V == <<<<0, LittleEndian(m.request)>>>>
           W == V
           meant == [kind |-> m.kind, node |-> Bits(f.id, "node"),
                     requester |-> Bits(f.id, "requester"), request |-> ReadLe(p, 0, 8)]
<1>1. m.kind = "FW_STATUS" /\ m \in FirmwareRequest
  BY DEF StatusRequest, FirmwareRequest
<1>2. DecodeFirmwareBody(m.kind, p) = {[request |-> ReadLe(p, 0, 8)]}
  BY <1>1 DEF DecodeFirmwareBody
<1>3. FirmwareRequested(f, m.kind, [request |-> ReadLe(p, 0, 8)]) = meant
  BY StatusRequestJoin DEF FirmwareRequested
<1>4. m = meant <=> /\ m.node = Bits(f.id, "node") /\ m.requester = Bits(f.id, "requester")
                    /\ m.request = ReadLe(p, 0, 8)
  BY DEF StatusRequest
<1>5. W \in Seq(Writes) /\ Laid(Range(W), 8) /\ (Shows(p, Range(W), 8) <=> m.request = ReadLe(p,
          0, 8))
  <2>1. W = V
    OBVIOUS
  <2> HIDE DEF W, p
  <2> QED BY <2>1, StatusRequestLayout, Zenon
<1>6. W = FirmwareWrites(m) /\ FirmwareLength(m.kind) = 8 /\ FirmwareGuard(m)
  BY <1>1 DEF FirmwareWrites, FirmwareLength, FirmwareGuard, RequestId
<1> HIDE DEF W, meant
<1>7. (\E args \in DecodeFirmwareBody(m.kind, p) : m = FirmwareRequested(f, m.kind, args))
          <=> m = meant
  BY <1>2, <1>3
<1> QED BY <1>1, <1>4, <1>5, <1>6, <1>7, FirmwareRequestTrip, Zenon

LEMMA FinishTrip ==
    ASSUME NEW f \in Frame, NEW m \in FinishOrAbort
    PROVE  f \in EncodeFirmwareRequest(m) <=> m \in DecodeFirmwareRequest(f)
<1> DEFINE p == f.payload
           V == <<<<0, LittleEndian(m.request)>>, <<8, LittleEndian(m.session)>>>>
           W == V
           args == Join([request |-> ReadLe(p, 0, 8)], [session |-> ReadLe(p, 8, 4)])
           meant == [kind |-> m.kind, node |-> Bits(f.id, "node"),
                     requester |-> Bits(f.id, "requester"), request |-> ReadLe(p, 0, 8),
                     session |-> ReadLe(p, 8, 4)]
<1>1. m.kind \in {"FW_FINISH", "FW_ABORT"} /\ m \in FirmwareRequest
  BY DEF FinishOrAbort, FirmwareRequest
<1>2. \A x : x \in DecodeFirmwareBody(m.kind, p) <=> Zero(p, 12, 16) /\ x = args
  <2> HIDE DEF p
  <2>1. CASE m.kind = "FW_FINISH"
    BY <2>1 DEF DecodeFirmwareBody, When
  <2>2. CASE m.kind = "FW_ABORT"
    BY <2>2 DEF DecodeFirmwareBody, When
  <2> QED BY <1>1, <2>1, <2>2
<1>3. FirmwareRequested(f, m.kind, args) = meant
  <2> DEFINE k == m.kind
             n == Bits(f.id, "node")
             r == Bits(f.id, "requester")
             q == ReadLe(p, 0, 8)
             s == ReadLe(p, 8, 4)
  <2> HIDE DEF k, n, r, q, s
  <2>1. Join([kind |-> k, node |-> n, requester |-> r],
             Join([request |-> q], [session |-> s]))
            = [kind |-> k, node |-> n, requester |-> r, request |-> q, session |-> s]
    BY FinishJoin
  <2> QED BY <2>1 DEF FirmwareRequested, k, n, r, q, s
<1>4. m = meant <=> /\ m.node = Bits(f.id, "node") /\ m.requester = Bits(f.id, "requester")
                    /\ m.request = ReadLe(p, 0, 8) /\ m.session = ReadLe(p, 8, 4)
  BY DEF FinishOrAbort
<1>5. /\ W \in Seq(Writes) /\ Laid(Range(W), 16)
      /\ Shows(p, Range(W), 16) <=>
            /\ m.request = ReadLe(p, 0, 8) /\ m.session = ReadLe(p, 8, 4) /\ Zero(p, 12, 16)
  <2>1. W = V
    OBVIOUS
  <2> HIDE DEF W, p
  <2> QED BY <2>1, FinishLayout, Zenon
<1>6. FirmwareLength(m.kind) = 16 /\ FirmwareGuard(m)
  BY <1>1 DEF FirmwareLength, FirmwareGuard
<1>7. FirmwareWrites(m) = W
  <2>1. FirmwareWrites(m) = <<RequestId(m), <<8, LittleEndian(m.session)>>>> \o <<>>
    BY <1>1, Zenon DEF FirmwareWrites
  <2> QED BY <2>1, Concat2And0 DEF RequestId
<1> HIDE DEF W, meant, args
<1>8. (\E x \in DecodeFirmwareBody(m.kind, p) : m = FirmwareRequested(f, m.kind, x)) <=>
          Zero(p, 12, 16) /\ m = meant
  BY <1>2, <1>3
<1> QED BY <1>1, <1>4, <1>5, <1>6, <1>7, <1>8, FirmwareRequestTrip, Zenon

LEMMA ActivateTrip ==
    ASSUME NEW f \in Frame, NEW m \in Activate
    PROVE  f \in EncodeFirmwareRequest(m) <=> m \in DecodeFirmwareRequest(f)
<1> DEFINE p == f.payload
           V == <<<<0, LittleEndian(m.request)>>, <<8, LittleEndian(m.session)>>,
                  <<12, <<Flag(m.interrupt)>>>>>>
           W == V
           args == Join(Join([request |-> ReadLe(p, 0, 8)], [session |-> ReadLe(p, 8, 4)]),
                        [interrupt |-> p[12] # 0])
           meant == [kind |-> m.kind, node |-> Bits(f.id, "node"),
                     requester |-> Bits(f.id, "requester"), request |-> ReadLe(p, 0, 8),
                     session |-> ReadLe(p, 8, 4), interrupt |-> p[12] # 0]
<1>1. m.kind = "FW_ACTIVATE" /\ m \in FirmwareRequest /\ m.interrupt \in BOOLEAN
  BY DEF Activate, FirmwareRequest
<1>2. \A x : x \in DecodeFirmwareBody(m.kind, p) <=>
          Bool(p[12]) /\ Zero(p, 13, 16) /\ x = args
  <2> HIDE DEF p
  <2> QED BY <1>1 DEF DecodeFirmwareBody, When
<1>3. FirmwareRequested(f, m.kind, args) = meant
  <2> DEFINE k == m.kind
             n == Bits(f.id, "node")
             r == Bits(f.id, "requester")
             q == ReadLe(p, 0, 8)
             s == ReadLe(p, 8, 4)
             x == p[12] # 0
  <2> HIDE DEF k, n, r, q, s, x
  <2>1. Join([kind |-> k, node |-> n, requester |-> r],
             Join(Join([request |-> q], [session |-> s]), [interrupt |-> x]))
            = [kind |-> k, node |-> n, requester |-> r, request |-> q, session |-> s,
               interrupt |-> x]
    BY ActivateJoin
  <2> QED BY <2>1 DEF FirmwareRequested, k, n, r, q, s, x
<1>4. m = meant <=> /\ m.node = Bits(f.id, "node") /\ m.requester = Bits(f.id, "requester")
                    /\ m.request = ReadLe(p, 0, 8) /\ m.session = ReadLe(p, 8, 4)
                    /\ m.interrupt = (p[12] # 0)
  BY DEF Activate
<1>5. /\ W \in Seq(Writes) /\ Laid(Range(W), 16)
      /\ Shows(p, Range(W), 16) <=>
            /\ m.request = ReadLe(p, 0, 8) /\ m.session = ReadLe(p, 8, 4)
            /\ p[12] = Flag(m.interrupt) /\ Zero(p, 13, 16)
  <2>1. W = V
    OBVIOUS
  <2> HIDE DEF W, p
  <2> QED BY <2>1, ActivateLayout, Zenon
<1>6. FirmwareLength(m.kind) = 16 /\ FirmwareGuard(m)
  BY <1>1 DEF FirmwareLength, FirmwareGuard
<1>7. FirmwareWrites(m) = W
  <2>1. FirmwareWrites(m) = <<RequestId(m), <<8, LittleEndian(m.session)>>>>
                                \o <<<<12, <<Flag(m.interrupt)>>>>>>
    BY <1>1 DEF FirmwareWrites
  <2> QED BY <2>1, Concat2And1 DEF RequestId
<1>8. p[12] = Flag(m.interrupt) <=> Bool(p[12]) /\ m.interrupt = (p[12] # 0)
  BY <1>1 DEF Flag, Bool
<1> HIDE DEF W, meant, args
<1>9. (\E x \in DecodeFirmwareBody(m.kind, p) : m = FirmwareRequested(f, m.kind, x)) <=>
          Bool(p[12]) /\ Zero(p, 13, 16) /\ m = meant
  BY <1>2, <1>3
<1> QED BY <1>1, <1>4, <1>5, <1>6, <1>7, <1>8, <1>9, FirmwareRequestTrip, Zenon

LEMMA DataTrip ==
    ASSUME NEW f \in Frame, NEW m \in Data
    PROVE  f \in EncodeFirmwareRequest(m) <=> m \in DecodeFirmwareRequest(f)
<1> DEFINE p == f.payload
           V == <<<<0, LittleEndian(m.session)>>, <<4, LittleEndian(m.offset)>>, <<8, <<m.len>>>>,
                  <<16, m.bytes>>>>
           W == V
           args == [session |-> ReadLe(p, 0, 4), offset |-> ReadLe(p, 4, 4), len |-> p[8],
                    bytes |-> Bytes(p, 16, 48)]
           meant == [kind |-> m.kind, node |-> Bits(f.id, "node"),
                     requester |-> Bits(f.id, "requester"), session |-> ReadLe(p, 0, 4),
                     offset |-> ReadLe(p, 4, 4), len |-> p[8], bytes |-> Bytes(p, 16, 48)]
<1>1. m.kind = "FW_DATA" /\ m \in FirmwareRequest
  BY DEF Data, FirmwareRequest
<1>2. \A x : x \in DecodeFirmwareBody(m.kind, p) <=>
          Zero(p, 9, 16) /\ ValidChunk(p[8], Bytes(p, 16, 48)) /\ x = args
  <2> HIDE DEF p
  <2> QED BY <1>1 DEF DecodeFirmwareBody, When, FIRMWARE_CHUNK_BYTES
<1>3. FirmwareRequested(f, m.kind, args) = meant
  <2> DEFINE k == m.kind
             n == Bits(f.id, "node")
             r == Bits(f.id, "requester")
             s == ReadLe(p, 0, 4)
             x == ReadLe(p, 4, 4)
             y == p[8]
             z == Bytes(p, 16, 48)
  <2> HIDE DEF k, n, r, s, x, y, z
  <2>1. Join([kind |-> k, node |-> n, requester |-> r],
             [session |-> s, offset |-> x, len |-> y, bytes |-> z])
            = [kind |-> k, node |-> n, requester |-> r, session |-> s, offset |-> x,
               len |-> y, bytes |-> z]
    BY DataJoin
  <2> QED BY <2>1 DEF FirmwareRequested, k, n, r, s, x, y, z
<1>4. m = meant <=> /\ m.node = Bits(f.id, "node") /\ m.requester = Bits(f.id, "requester")
                    /\ m.session = ReadLe(p, 0, 4) /\ m.offset = ReadLe(p, 4, 4)
                    /\ m.len = p[8] /\ m.bytes = Bytes(p, 16, 48)
  BY DEF Data
<1>5. /\ W \in Seq(Writes) /\ Laid(Range(W), 64)
      /\ Shows(p, Range(W), 64) <=>
            /\ m.session = ReadLe(p, 0, 4) /\ m.offset = ReadLe(p, 4, 4) /\ p[8] = m.len
            /\ Zero(p, 9, 16) /\ m.bytes = Bytes(p, 16, 48)
  <2>1. W = V
    OBVIOUS
  <2> HIDE DEF W, p
  <2> QED BY <2>1, DataLayout, Zenon
<1>6. FirmwareLength(m.kind) = 64 /\ (FirmwareGuard(m) <=> ValidChunk(m.len, m.bytes))
  BY <1>1 DEF FirmwareLength, FirmwareGuard
<1>7. FirmwareWrites(m) = W
  BY <1>1 DEF FirmwareWrites
<1> HIDE DEF W, meant, args
<1>8. (\E x \in DecodeFirmwareBody(m.kind, p) : m = FirmwareRequested(f, m.kind, x)) <=>
          Zero(p, 9, 16) /\ ValidChunk(p[8], Bytes(p, 16, 48)) /\ m = meant
  BY <1>2, <1>3
<1>9. /\ m.node = Bits(f.id, "node") /\ m.requester = Bits(f.id, "requester")
      /\ Length(p) = 64
      => (FirmwareGuard(m) /\ Shows(p, Range(W), 64) <=>
            \E x \in DecodeFirmwareBody(m.kind, p) : m = FirmwareRequested(f, m.kind, x))
  BY <1>4, <1>5, <1>6, <1>8
<1>10. W \in Seq(Writes) /\ Laid(Range(W), 64) /\ 64 = FirmwareLength(m.kind)
  BY <1>5, <1>6
<1>11. m \in FirmwareRequest
  BY <1>1
<1> QED BY <1>7, <1>9, <1>10, <1>11, FirmwareRequestTrip, Zenon

(* What BEGIN's arguments are read from a payload. *)
BeginArgs(p) ==
    Join(Join([request |-> ReadLe(p, 0, 8)], [session |-> ReadLe(p, 8, 4)]),
         [size |-> ReadLe(p, 12, 4), role |-> p[16], profile |-> OptionalProfile(p[17]),
          revision |-> p[18], layout |-> p[19], version |-> ReadVersion(p, 20),
          digest |-> Bytes(p, 32, 32)])

BeginMeant(f, k) ==
    LET p == f.payload IN
    [kind |-> k, node |-> Bits(f.id, "node"), requester |-> Bits(f.id, "requester"),
     request |-> ReadLe(p, 0, 8), session |-> ReadLe(p, 8, 4), size |-> ReadLe(p, 12, 4),
     role |-> p[16], profile |-> OptionalProfile(p[17]), revision |-> p[18],
     layout |-> p[19], version |-> ReadVersion(p, 20), digest |-> Bytes(p, 32, 32)]

LEMMA BeginRequested ==
    ASSUME NEW f, NEW k
    PROVE  FirmwareRequested(f, k, BeginArgs(f.payload)) = BeginMeant(f, k)
<1> DEFINE p == f.payload
           n == Bits(f.id, "node")
           r == Bits(f.id, "requester")
           q == ReadLe(p, 0, 8)
           s == ReadLe(p, 8, 4)
           a1 == ReadLe(p, 12, 4)
           a2 == p[16]
           a3 == OptionalProfile(p[17])
           a4 == p[18]
           a5 == p[19]
           a6 == ReadVersion(p, 20)
           a7 == Bytes(p, 32, 32)
<1> HIDE DEF n, r, q, s, a1, a2, a3, a4, a5, a6, a7
<1>1. Join([kind |-> k, node |-> n, requester |-> r],
           Join(Join([request |-> q], [session |-> s]),
                [size |-> a1, role |-> a2, profile |-> a3, revision |-> a4, layout |-> a5,
                 version |-> a6, digest |-> a7]))
         = [kind |-> k, node |-> n, requester |-> r, request |-> q, session |-> s,
            size |-> a1, role |-> a2, profile |-> a3, revision |-> a4, layout |-> a5,
            version |-> a6, digest |-> a7]
  BY BeginJoin
<1> QED BY <1>1 DEF FirmwareRequested, BeginArgs, BeginMeant, p, n, r, q, s,
                    a1, a2, a3, a4, a5, a6, a7

LEMMA BeginBody ==
    ASSUME NEW p, NEW x
    PROVE  x \in DecodeFirmwareBody("FW_BEGIN", p) <=>
               /\ Zero(p, 26, 32) /\ RoleProfile(p[16], OptionalProfile(p[17]))
               /\ p[18] \in HardwareRevision /\ x = BeginArgs(p)
<1>1. DecodeFirmwareBody("FW_BEGIN", p) =
          When(/\ Zero(p, 26, 32)
               /\ RoleProfile(p[16], OptionalProfile(p[17]))
               /\ p[18] \in HardwareRevision, BeginArgs(p))
  BY DEF DecodeFirmwareBody, BeginArgs
<1> QED BY <1>1 DEF When

LEMMA BeginTrip ==
    ASSUME NEW f \in Frame, NEW m \in Begin
    PROVE  f \in EncodeFirmwareRequest(m) <=> m \in DecodeFirmwareRequest(f)
<1> DEFINE p == f.payload
           V == <<<<0, LittleEndian(m.request)>>, <<8, LittleEndian(m.session)>>,
                  <<12, LittleEndian(m.size)>>, <<16, <<m.role>>>>,
                  <<17, <<ProfileByte(m.profile)>>>>, <<18, <<m.revision>>>>,
                  <<19, <<m.layout>>>>, <<20, Version(m.version)>>, <<32, m.digest>>>>
           W == V
<1>1. m.kind = "FW_BEGIN" /\ m \in FirmwareRequest
  BY DEF Begin, FirmwareRequest
<1>2. m.profile \in Option(1 .. 4) /\ m.revision \in HardwareRevision
  BY DEF Begin
<1>3. m = BeginMeant(f, m.kind) <=>
          /\ m.node = Bits(f.id, "node") /\ m.requester = Bits(f.id, "requester")
          /\ m.request = ReadLe(p, 0, 8) /\ m.session = ReadLe(p, 8, 4)
          /\ m.size = ReadLe(p, 12, 4) /\ m.role = p[16] /\ m.profile = OptionalProfile(p[17])
          /\ m.revision = p[18] /\ m.layout = p[19] /\ m.version = ReadVersion(p, 20)
          /\ m.digest = Bytes(p, 32, 32)
  BY DEF Begin, BeginMeant
<1>4. /\ W \in Seq(Writes) /\ Laid(Range(W), 64)
      /\ Shows(p, Range(W), 64) <=>
            /\ m.request = ReadLe(p, 0, 8) /\ m.session = ReadLe(p, 8, 4)
            /\ m.size = ReadLe(p, 12, 4) /\ p[16] = m.role
            /\ p[17] = ProfileByte(m.profile) /\ p[18] = m.revision /\ p[19] = m.layout
            /\ m.version = ReadVersion(p, 20) /\ Zero(p, 26, 32)
            /\ m.digest = Bytes(p, 32, 32)
  <2>1. W = V
    OBVIOUS
  <2> HIDE DEF W, p
  <2> QED BY <2>1, BeginLayout, Zenon
<1>5. FirmwareLength(m.kind) = 64 /\ (FirmwareGuard(m) <=> RoleProfile(m.role, m.profile))
  BY <1>1 DEF FirmwareLength, FirmwareGuard
<1>6. FirmwareWrites(m) = W
  <2> DEFINE b1 == <<0, LittleEndian(m.request)>>
             b2 == <<8, LittleEndian(m.session)>>
             b3 == <<12, LittleEndian(m.size)>>
             b4 == <<16, <<m.role>>>>
             b5 == <<17, <<ProfileByte(m.profile)>>>>
             b6 == <<18, <<m.revision>>>>
             b7 == <<19, <<m.layout>>>>
             b8 == <<20, Version(m.version)>>
             b9 == <<32, m.digest>>
  <2>1. FirmwareWrites(m) = <<b1, b2>> \o <<b3, b4, b5, b6, b7, b8, b9>>
    BY <1>1 DEF FirmwareWrites, RequestId
  <2>2. W = <<b1, b2, b3, b4, b5, b6, b7, b8, b9>>
    OBVIOUS
  <2> HIDE DEF W, b1, b2, b3, b4, b5, b6, b7, b8, b9
  <2>3. <<b1, b2>> \o <<b3, b4, b5, b6, b7, b8, b9>> = <<b1, b2, b3, b4, b5, b6, b7, b8, b9>>
    BY Concat2And7
  <2> QED BY <2>1, <2>2, <2>3
<1>7. ASSUME Length(p) = 64
      PROVE  m.profile = OptionalProfile(p[17]) <=> p[17] = ProfileByte(m.profile)
  <2>1. p[17] \in Byte
    BY <1>7, Payloaded DEF Buffer
  <2> HIDE DEF p
  <2> QED BY <1>2, <2>1, Profiles
<1> HIDE DEF W
<1>8. (\E x \in DecodeFirmwareBody(m.kind, p) : m = FirmwareRequested(f, m.kind, x)) <=>
          /\ Zero(p, 26, 32) /\ RoleProfile(p[16], OptionalProfile(p[17]))
          /\ p[18] \in HardwareRevision /\ m = BeginMeant(f, m.kind)
  BY <1>1, BeginBody, BeginRequested
<1>9. ASSUME m.node = Bits(f.id, "node"), m.requester = Bits(f.id, "requester"), Length(p) = 64
      PROVE  FirmwareGuard(m) /\ Shows(p, Range(W), 64) <=>
                \E x \in DecodeFirmwareBody(m.kind, p) : m = FirmwareRequested(f, m.kind, x)
  <2> HIDE DEF p
  <2> QED BY <1>2, <1>3, <1>4, <1>5, <1>7, <1>8, <1>9
<1> QED BY <1>1, <1>4, <1>5, <1>6, <1>9, FirmwareRequestTrip, ZenonT(40)

LEMMA FirmwareTyped ==
    ASSUME NEW f \in Frame, NEW m \in DecodeFirmwareRequest(f)
    PROVE  m \in FirmwareRequest
<1> DEFINE p == f.payload
           node == Bits(f.id, "node")
           requester == Bits(f.id, "requester")
<1>1. FirmwareHeader(f) /\ \E kind \in FirmwareKinds :
          /\ Length(p) = FirmwareLength(kind)
          /\ \E args \in DecodeFirmwareBody(kind, p) : m = FirmwareRequested(f, kind, args)
  BY FirmwareDecoded
<1>2. PICK kind \in FirmwareKinds :
          /\ Length(p) = FirmwareLength(kind)
          /\ \E args \in DecodeFirmwareBody(kind, p) : m = FirmwareRequested(f, kind, args)
  BY <1>1
<1>3. PICK args \in DecodeFirmwareBody(kind, p) : m = FirmwareRequested(f, kind, args)
  BY <1>2
<1>4. node \in NodeId /\ requester \in RequesterId
  BY <1>1, Ranges DEF Frame, NodeId, RequesterId, FirmwareHeader, ValidNodeId
<1>5. CASE kind = "FW_STATUS"
  <2>1. args = [request |-> ReadLe(p, 0, 8)]
    BY <1>5 DEF DecodeFirmwareBody
  <2>2. p \in Buffer(8)
    BY <1>2, <1>5, Payloaded DEF FirmwareLength
  <2>3. ReadLe(p, 0, 8) \in Word(8)
    BY <2>2, Reads
  <2>4. m = [kind |-> kind, node |-> node, requester |-> requester, request |-> ReadLe(p, 0, 8)]
    BY <1>3, <2>1, StatusRequestJoin DEF FirmwareRequested
  <2> HIDE DEF p, node, requester
  <2>5. m \in StatusRequest
    BY <1>4, <1>5, <2>3, <2>4 DEF StatusRequest, RequestIds
  <2> QED BY <2>5 DEF FirmwareRequest
<1>6. CASE kind \in {"FW_FINISH", "FW_ABORT"}
  <2>1. args = Join([request |-> ReadLe(p, 0, 8)], [session |-> ReadLe(p, 8, 4)])
    BY <1>6 DEF DecodeFirmwareBody, When
  <2>2. Length(p) = 16
    BY <1>2, <1>6 DEF FirmwareLength
  <2>3. p \in Buffer(16)
    BY <2>2, Payloaded
  <2>4. ReadLe(p, 0, 8) \in Word(8) /\ ReadLe(p, 8, 4) \in Word(4)
    BY <2>3, Reads
  <2>5. m = [kind |-> kind, node |-> node, requester |-> requester,
             request |-> ReadLe(p, 0, 8), session |-> ReadLe(p, 8, 4)]
    <3> DEFINE q == ReadLe(p, 0, 8)
               s == ReadLe(p, 8, 4)
    <3> HIDE DEF q, s, node, requester
    <3>1. Join([kind |-> kind, node |-> node, requester |-> requester],
               Join([request |-> q], [session |-> s]))
            = [kind |-> kind, node |-> node, requester |-> requester, request |-> q,
               session |-> s]
      BY FinishJoin
    <3> QED BY <1>3, <2>1, <3>1 DEF FirmwareRequested, q, s, node, requester
  <2> HIDE DEF p, node, requester
  <2>6. m \in FinishOrAbort
    BY <1>4, <1>6, <2>4, <2>5 DEF FinishOrAbort, RequestIds
  <2> QED BY <2>6 DEF FirmwareRequest
<1>7. CASE kind = "FW_ACTIVATE"
  <2>1. args = Join(Join([request |-> ReadLe(p, 0, 8)], [session |-> ReadLe(p, 8, 4)]),
                    [interrupt |-> p[12] # 0])
    BY <1>7 DEF DecodeFirmwareBody, When
  <2>2. Length(p) = 16
    BY <1>2, <1>7 DEF FirmwareLength
  <2>3. p \in Buffer(16)
    BY <2>2, Payloaded
  <2>4. ReadLe(p, 0, 8) \in Word(8) /\ ReadLe(p, 8, 4) \in Word(4)
    BY <2>3, Reads
  <2>5. m = [kind |-> kind, node |-> node, requester |-> requester,
             request |-> ReadLe(p, 0, 8), session |-> ReadLe(p, 8, 4), interrupt |-> p[12] # 0]
    <3> DEFINE q == ReadLe(p, 0, 8)
               s == ReadLe(p, 8, 4)
               x == p[12] # 0
    <3> HIDE DEF q, s, x, node, requester
    <3>1. Join([kind |-> kind, node |-> node, requester |-> requester],
               Join(Join([request |-> q], [session |-> s]), [interrupt |-> x]))
            = [kind |-> kind, node |-> node, requester |-> requester, request |-> q,
               session |-> s, interrupt |-> x]
      BY ActivateJoin
    <3> QED BY <1>3, <2>1, <3>1 DEF FirmwareRequested, q, s, x, node, requester
  <2>6. (p[12] # 0) \in BOOLEAN
    OBVIOUS
  <2> HIDE DEF p, node, requester
  <2>7. m \in Activate
    BY <1>4, <1>7, <2>4, <2>5, <2>6 DEF Activate, RequestIds
  <2> QED BY <2>7 DEF FirmwareRequest
<1>8. CASE kind = "FW_DATA"
  <2>1. args = [session |-> ReadLe(p, 0, 4), offset |-> ReadLe(p, 4, 4), len |-> p[8],
                bytes |-> Bytes(p, 16, 48)]
    BY <1>8 DEF DecodeFirmwareBody, When, FIRMWARE_CHUNK_BYTES
  <2>2. Length(p) = 64
    BY <1>2, <1>8 DEF FirmwareLength
  <2>3. p \in Buffer(64)
    BY <2>2, Payloaded
  <2>4. /\ ReadLe(p, 0, 4) \in Word(4) /\ ReadLe(p, 4, 4) \in Word(4)
        /\ Bytes(p, 16, 48) \in Word(48)
    BY <2>3, Reads
  <2>5. p[8] \in Byte
    BY <2>3 DEF Buffer
  <2>6. m = [kind |-> kind, node |-> node, requester |-> requester,
             session |-> ReadLe(p, 0, 4), offset |-> ReadLe(p, 4, 4), len |-> p[8],
             bytes |-> Bytes(p, 16, 48)]
    <3> DEFINE s == ReadLe(p, 0, 4)
               x == ReadLe(p, 4, 4)
               y == p[8]
               z == Bytes(p, 16, 48)
    <3> HIDE DEF s, x, y, z, node, requester
    <3>1. Join([kind |-> kind, node |-> node, requester |-> requester],
               [session |-> s, offset |-> x, len |-> y, bytes |-> z])
            = [kind |-> kind, node |-> node, requester |-> requester, session |-> s,
               offset |-> x, len |-> y, bytes |-> z]
      BY DataJoin
    <3> QED BY <1>3, <2>1, <3>1 DEF FirmwareRequested, s, x, y, z, node, requester
  <2> HIDE DEF p, node, requester
  <2>7. m \in Data
    BY <1>4, <1>8, <2>4, <2>5, <2>6 DEF Data, FIRMWARE_CHUNK_BYTES
  <2> QED BY <2>7 DEF FirmwareRequest
<1>9. CASE kind = "FW_BEGIN"
  <2>1. /\ RoleProfile(p[16], OptionalProfile(p[17])) /\ p[18] \in HardwareRevision
        /\ args = BeginArgs(p)
    BY <1>9, BeginBody
  <2>2. Length(p) = 64
    BY <1>2, <1>9 DEF FirmwareLength
  <2>3. p \in Buffer(64)
    BY <2>2, Payloaded
  <2>4. /\ ReadLe(p, 0, 8) \in Word(8) /\ ReadLe(p, 8, 4) \in Word(4)
        /\ ReadLe(p, 12, 4) \in Word(4) /\ Bytes(p, 32, 32) \in Word(32)
        /\ ReadVersion(p, 20) \in FirmwareVersion
    BY <2>3, Reads, ReadsVersion
  <2>5. p[19] \in Byte
    BY <2>3 DEF Buffer
  <2>6. p[16] \in {BACKPLANE, CARRIER} /\ OptionalProfile(p[17]) \in Option(1 .. 4)
    <3> HIDE DEF p
    <3> QED BY <2>1 DEF RoleProfile, Option
  <2>7. m = [kind |-> kind, node |-> node, requester |-> requester,
             request |-> ReadLe(p, 0, 8), session |-> ReadLe(p, 8, 4),
             size |-> ReadLe(p, 12, 4), role |-> p[16], profile |-> OptionalProfile(p[17]),
             revision |-> p[18], layout |-> p[19], version |-> ReadVersion(p, 20),
             digest |-> Bytes(p, 32, 32)]
    BY <1>3, <2>1, BeginRequested DEF BeginMeant
  <2> HIDE DEF p, node, requester
  <2>8. m \in Begin
    BY <1>4, <1>9, <2>1, <2>4, <2>5, <2>6, <2>7 DEF Begin, RequestIds, Sha256
  <2> QED BY <2>8 DEF FirmwareRequest
<1> QED BY <1>5, <1>6, <1>7, <1>8, <1>9 DEF FirmwareKinds

LEMMA FirmwareTrip ==
    ASSUME NEW f \in Frame
    PROVE  /\ DecodeFirmwareRequest(f) \subseteq FirmwareRequest
           /\ \A m \in FirmwareRequest :
                 f \in EncodeFirmwareRequest(m) <=> m \in DecodeFirmwareRequest(f)
BY FirmwareTyped, StatusRequestTrip, FinishTrip, ActivateTrip, DataTrip,
    BeginTrip DEF FirmwareRequest

-----------------------------------------------------------------------------
(* Commissioning messages. *)

TokenFields == {"priority", "class", "token", "requester", "opcode"}

TokenHeader(id) == [x \in TokenFields |-> Bits(id, x)]

LEMMA TokenFitsMeans ==
    ASSUME NEW h, DOMAIN h = TokenFields
    PROVE  Fits(h) <=> /\ h.priority \in 0 .. 7 /\ h.class \in 0 .. 15 /\ h.token \in Tokens
                       /\ h.requester \in 0 .. 15 /\ h.opcode \in 0 .. 63
<1> DEFINE w(x) == 0 .. 2 ^ BitField[x][2] - 1
<1>1. Fits(h) <=> \A x \in TokenFields : h[x] \in w(x)
  BY DEF Fits
<1>2. /\ w("priority") = 0 .. 7 /\ w("class") = 0 .. 15 /\ w("requester") = 0 .. 15
      /\ w("opcode") = 0 .. 63
  BY Widths, SMT
<1>3. w("token") = Tokens
  <2>1. PICK x : x = 2 ^ BitField["token"][2]
    OBVIOUS
  <2>2. x = 4096
    BY <2>1, Widths, SMT
  <2>3. 0 .. x - 1 = Tokens
    BY <2>2, SMT DEF Tokens
  <2> QED BY <2>1, <2>3
<1> HIDE DEF w
<1> QED BY <1>1, <1>2, <1>3, ZenonT(40) DEF TokenFields

LEMMA TokenHeaderInverse ==
    ASSUME NEW id \in Identifier, NEW h, DOMAIN h = TokenFields, Fits(h)
    PROVE  id = CommissioningHeaderEncode(h) <=>
               TokenMarked(id, h.priority, h.class, h.token, h.requester, h.opcode)
<1>1. /\ h.priority \in 0 .. 7 /\ h.class \in 0 .. 15 /\ h.token \in Tokens
      /\ h.requester \in 0 .. 15 /\ h.opcode \in 0 .. 63
  BY TokenFitsMeans
<1>2. PICK a \in 0 .. 7, b \in 0 .. 15, c \in Tokens, e \in 0 .. 15, g \in 0 .. 63 :
        /\ a = h.priority /\ b = h.class /\ c = h.token /\ e = h.requester /\ g = h.opcode
  BY <1>1, Zenon
<1>3. CommissioningHeaderEncode(h) = TokenComposed(a, b, c, e, g)
  <2>1. CommissioningHeaderEncode(h) = InPlace("priority", a) + InPlace("class", b)
                              + InPlace("token", c) + InPlace("requester", e)
                              + InPlace("opcode", g)
    BY <1>2 DEF CommissioningHeaderEncode
  <2>2. a \in Nat /\ b \in Nat /\ c \in Nat /\ e \in Nat /\ g \in Nat
    BY DEF Tokens
  <2>3. /\ InPlace("priority", a) = 67108864 * a /\ InPlace("class", b) = 4194304 * b
        /\ InPlace("token", c) = 1024 * c
        /\ InPlace("requester", e) = 64 * e /\ InPlace("opcode", g) = g
    BY <2>2, Places, SMT
  <2> QED BY <2>1, <2>3, SMT DEF TokenComposed
<1>4. id = TokenComposed(a, b, c, e, g) <=> TokenMarked(id, a, b, c, e, g)
  BY TokenDigits, Zenon
<1> QED BY <1>2, <1>3, <1>4

TokenFrames(token, requester, opcode, len, writes) ==
    {[id |-> CommissioningHeaderEncode(h), payload |-> Payload(len, writes)] :
        h \in CommissioningHeaderNew([priority |-> 6, class |-> MessageClass.commissioning,
                                     token |-> token, requester |-> requester,
                                     opcode |-> opcode])}

(* What it takes of a frame to be one that a token and these writes make.  A token
   wider than its field makes no frame, and no frame shows it.                  *)
LEMMA TokenFramed ==
    ASSUME NEW f \in Frame, NEW token, NEW requester \in 0 .. 15, NEW opcode \in 0 .. 63,
           NEW len \in CanFdLengths, NEW writes \in Seq(Writes), Laid(Range(writes), len)
    PROVE  f \in TokenFrames(token, requester, opcode, len, writes) <=>
               /\ TokenMarked(f.id, 6, 14, token, requester, opcode)
               /\ Length(f.payload) = len /\ Shows(f.payload, Range(writes), len)
<1> DEFINE header == [priority |-> 6, class |-> MessageClass.commissioning,
                      token |-> token, requester |-> requester, opcode |-> opcode]
<1>1. /\ DOMAIN header = TokenFields /\ header.priority = 6 /\ header.class = 14
      /\ header.token = token /\ header.requester = requester /\ header.opcode = opcode
  BY DEF TokenFields, MessageClass
<1> HIDE DEF header
<1>2. f.id \in Identifier
  BY DEF Frame
<1>3. Fits(header) <=> token \in Tokens
  <2>1. 6 \in 0 .. 7 /\ 14 \in 0 .. 15
    OBVIOUS
  <2> QED BY <1>1, <2>1, TokenFitsMeans, Zenon
<1>4. TokenMarked(f.id, 6, 14, token, requester, opcode) => token \in Tokens
  <2>1. Bits(f.id, "token") \in Tokens
    BY <1>2, TokenRange
  <2> QED BY <2>1 DEF TokenMarked
<1>5. f \in {[id |-> CommissioningHeaderEncode(h), payload |-> Payload(len, writes)] :
               h \in CommissioningHeaderNew(header)} <=>
          Fits(header) /\ f.id = CommissioningHeaderEncode(header) /\ f.payload = Payload(len,
              writes)
  BY DEF CommissioningHeaderNew, When, Frame
<1>6. Fits(header) => (f.id = CommissioningHeaderEncode(header) <=>
                         TokenMarked(f.id, 6, 14, token, requester, opcode))
  BY <1>1, <1>2, TokenHeaderInverse
<1>7. f.payload = Payload(len, writes) <=>
          Length(f.payload) = len /\ Shows(f.payload, Range(writes), len)
  BY PayloadShown
<1>8. f \in {[id |-> CommissioningHeaderEncode(h), payload |-> Payload(len, writes)] :
               h \in CommissioningHeaderNew(header)} <=>
               /\ TokenMarked(f.id, 6, 14, token, requester, opcode)
               /\ Length(f.payload) = len /\ Shows(f.payload, Range(writes), len)
  BY <1>3, <1>4, <1>5, <1>6, <1>7
<1> QED BY <1>8 DEF header, TokenFrames

(* What the encoder asks of a message's fields. *)
CommissioningGuard(m) ==
    /\ m.kind = "NODE_CLAIM" <=> ~HostRequester(m.requester)
    /\ m.kind = "DISCOVERY_RESPONSE" => ValidDescriptor(m.info)

LEMMA CommissioningEncoded ==
    ASSUME NEW f \in Frame, NEW m, m.kind \in CommissioningKinds, m.requester \in RequesterId,
           NEW token, NEW len \in CanFdLengths, NEW W \in Seq(Writes), Laid(Range(W), len),
           CommissioningBody(m) = [token |-> token, len |-> len, writes |-> W]
    PROVE  f \in EncodeCommissioning(m) <=>
               /\ CommissioningGuard(m)
               /\ TokenMarked(f.id, 6, 14, token, m.requester, Opcode[m.kind])
               /\ Length(f.payload) = len /\ Shows(f.payload, Range(W), len)
<1>1. /\ CommissioningBody(m).token = token /\ CommissioningBody(m).len = len
      /\ CommissioningBody(m).writes = W
  OBVIOUS
<1>2. f \in EncodeCommissioning(m) <=>
          /\ CommissioningGuard(m)
          /\ f \in TokenFrames(token, m.requester, Opcode[m.kind], len, W)
  BY <1>1 DEF EncodeCommissioning, CommissioningGuard, TokenFrames
<1>3. m.requester \in 0 .. 15
  BY DEF RequesterId
<1>4. Opcode[m.kind] \in 0 .. 63
  <2>1. /\ Opcode["NODE_CLAIM"] \in 0 .. 63 /\ Opcode["DISCOVER"] \in 0 .. 63
        /\ Opcode["DISCOVERY_RESPONSE"] \in 0 .. 63 /\ Opcode["IDENTIFY"] \in 0 .. 63
        /\ Opcode["ASSIGN_NODE"] \in 0 .. 63 /\ Opcode["CLEAR_NODE"] \in 0 .. 63
        /\ Opcode["COMMISSIONING_RESULT"] \in 0 .. 63
    BY Opcodes
  <2> QED BY <2>1, Zenon DEF CommissioningKinds
<1> QED BY <1>2, <1>3, <1>4, TokenFramed, Zenon

LEMMA TokenHeaderFieldsOf ==
    ASSUME NEW id
    PROVE  /\ TokenHeader(id).priority = Bits(id, "priority")
           /\ TokenHeader(id).class = Bits(id, "class") /\ TokenHeader(id).token = Bits(id, "token")
           /\ TokenHeader(id).requester = Bits(id, "requester")
           /\ TokenHeader(id).opcode = Bits(id, "opcode")
BY DEF TokenHeader, TokenFields

LEMMA TokenHeaderDecodes ==
    ASSUME NEW id, NEW h
    PROVE  h \in CommissioningHeaderDecode(id) <=> h = TokenHeader(id) /\ Bits(id, "class") = 14
<1>1. CommissioningHeaderDecode(id) = When(TokenHeader(id).class = 14, TokenHeader(id))
  BY DEF CommissioningHeaderDecode, TokenHeader, TokenFields, MessageClass
<1> QED BY <1>1, TokenHeaderFieldsOf DEF When

CommissioningRequested(f, kind, args) ==
    Join([kind |-> kind, requester |-> Bits(f.id, "requester")], args)

LEMMA CommissioningDecoded ==
    ASSUME NEW f, NEW m
    PROVE  m \in DecodeCommissioning(f) <=>
               /\ Bits(f.id, "class") = 14 /\ Bits(f.id, "priority") = 6
               /\ \E kind \in CommissioningKinds :
                     /\ Opcode[kind] = Bits(f.id, "opcode")
                     /\ kind = "NODE_CLAIM" <=> ~HostRequester(Bits(f.id, "requester"))
                     /\ \E args \in DecodeCommissioningBody(kind, TokenHeader(f.id), f.payload) :
                           m = CommissioningRequested(f, kind, args)
<1> DEFINE Of(h, kind) == {Join([kind |-> kind, requester |-> h.requester], args) :
                             args \in DecodeCommissioningBody(kind, h, f.payload)}
           Kinds(h) == {k \in CommissioningKinds :
                          /\ Opcode[k] = h.opcode
                          /\ k = "NODE_CLAIM" <=> ~HostRequester(h.requester)}
           Heads == {h \in CommissioningHeaderDecode(f.id) : h.priority = 6}
<1>1. m \in DecodeCommissioning(f) <=>
          \E h \in Heads : \E kind \in Kinds(h) : m \in Of(h, kind)
  <2>1. DecodeCommissioning(f) = UNION {UNION {Of(h, kind) : kind \in Kinds(h)} : h \in Heads}
    BY DEF DecodeCommissioning
  <2> HIDE DEF Of, Kinds, Heads
  <2> QED BY <2>1
<1>2. \A h : h \in Heads <=> /\ h = TokenHeader(f.id) /\ Bits(f.id, "class") = 14
                             /\ Bits(f.id, "priority") = 6
  BY TokenHeaderDecodes, TokenHeaderFieldsOf
<1>3. \A kind : m \in Of(TokenHeader(f.id), kind) <=>
          \E args \in DecodeCommissioningBody(kind, TokenHeader(f.id), f.payload) :
             m = CommissioningRequested(f, kind, args)
  BY TokenHeaderFieldsOf DEF CommissioningRequested
<1>4. \A kind : kind \in Kinds(TokenHeader(f.id)) <=>
          /\ kind \in CommissioningKinds /\ Opcode[kind] = Bits(f.id, "opcode")
          /\ kind = "NODE_CLAIM" <=> ~HostRequester(Bits(f.id, "requester"))
  BY TokenHeaderFieldsOf
<1> HIDE DEF Of, Kinds, Heads
<1> QED BY <1>1, <1>2, <1>3, <1>4

LEMMA CommissioningOfKind ==
    ASSUME NEW f, NEW m, m.kind \in CommissioningKinds
    PROVE  m \in DecodeCommissioning(f) <=>
               /\ Bits(f.id, "class") = 14 /\ Bits(f.id, "priority") = 6
               /\ Opcode[m.kind] = Bits(f.id, "opcode")
               /\ m.kind = "NODE_CLAIM" <=> ~HostRequester(Bits(f.id, "requester"))
               /\ \E args \in DecodeCommissioningBody(m.kind, TokenHeader(f.id), f.payload) :
                     m = CommissioningRequested(f, m.kind, args)
<1>1. \A kind, args : m = CommissioningRequested(f, kind, args) => m.kind = kind
  BY Merged DEF CommissioningRequested
<1> QED BY <1>1, CommissioningDecoded

(* A message makes the trip when what its frame shows is what is read from it. *)
ReadAsShown(f, m, token, len, W) ==
    m.requester = Bits(f.id, "requester") =>
        ((/\ m.kind = "DISCOVERY_RESPONSE" => ValidDescriptor(m.info)
          /\ Bits(f.id, "token") = token
          /\ Length(f.payload) = len /\ Shows(f.payload, Range(W), len)) <=>
         \E args \in DecodeCommissioningBody(m.kind, TokenHeader(f.id), f.payload) :
               m = CommissioningRequested(f, m.kind, args))

LEMMA CommissioningMessageTrip ==
    ASSUME NEW f \in Frame, NEW m, m.kind \in CommissioningKinds, m.requester \in RequesterId,
           NEW token, NEW len \in CanFdLengths, NEW W \in Seq(Writes), Laid(Range(W), len),
           CommissioningBody(m) = [token |-> token, len |-> len, writes |-> W],
           ReadAsShown(f, m, token, len, W)
    PROVE  f \in EncodeCommissioning(m) <=> m \in DecodeCommissioning(f)
<1>1. f \in EncodeCommissioning(m) <=>
               /\ CommissioningGuard(m)
               /\ TokenMarked(f.id, 6, 14, token, m.requester, Opcode[m.kind])
               /\ Length(f.payload) = len /\ Shows(f.payload, Range(W), len)
  BY CommissioningEncoded
<1>2. m \in DecodeCommissioning(f) <=>
               /\ Bits(f.id, "class") = 14 /\ Bits(f.id, "priority") = 6
               /\ Opcode[m.kind] = Bits(f.id, "opcode")
               /\ m.kind = "NODE_CLAIM" <=> ~HostRequester(Bits(f.id, "requester"))
               /\ \E args \in DecodeCommissioningBody(m.kind, TokenHeader(f.id), f.payload) :
                     m = CommissioningRequested(f, m.kind, args)
  BY CommissioningOfKind, Zenon
<1>3. \A args : m = CommissioningRequested(f, m.kind, args) => m.requester = Bits(f.id, "requester")
  BY Merged DEF CommissioningRequested
<1>4. CommissioningGuard(m) <=>
          /\ m.kind = "NODE_CLAIM" <=> ~HostRequester(m.requester)
          /\ m.kind = "DISCOVERY_RESPONSE" => ValidDescriptor(m.info)
  BY DEF CommissioningGuard
<1>5. TokenMarked(f.id, 6, 14, token, m.requester, Opcode[m.kind]) <=>
          /\ Bits(f.id, "priority") = 6 /\ Bits(f.id, "class") = 14 /\ Bits(f.id, "token") = token
          /\ Bits(f.id, "requester") = m.requester /\ Bits(f.id, "opcode") = Opcode[m.kind]
  BY DEF TokenMarked
<1> QED BY <1>1, <1>2, <1>3, <1>4, <1>5 DEF ReadAsShown

(* An optional node and the byte that stands for it. *)
LEMMA Nodes ==
    ASSUME NEW x \in Option(NodeId)
    PROVE  /\ NodeByte(x) \in Byte /\ (NodeByte(x) = BROADCAST_NODE \/ ValidNodeId(NodeByte(x)))
           /\ \A b \in Byte : x = OptionalNode(b) <=> b = NodeByte(x)
<1>1. NONE \notin Byte
  BY NoneAssumption
<1>2. x = NONE \/ (x \in NodeId /\ x # NONE)
  BY DEF Option
<1>3. 0 \in Byte /\ \A y \in NodeId : y \in Byte /\ y # 0 /\ ValidNodeId(y)
  BY DEF Byte, NodeId, ValidNodeId
<1> QED BY <1>1, <1>2, <1>3 DEF NodeByte, OptionalNode, BROADCAST_NODE

LEMMA ClaimLayout ==
    ASSUME NEW m \in NodeClaim, NEW p, NEW W,
           W = <<<<0, m.uid>>, <<12, <<m.node>>>>, <<13, <<m.state>>>>,
                <<14, LittleEndian(m.nonce)>>>>
    PROVE  /\ W \in Seq(Writes) /\ Laid(Range(W), 16)
           /\ Shows(p, Range(W), 16) <=>
                /\ m.uid = Bytes(p, 0, 12) /\ p[12] = m.node /\ p[13] = m.state
                /\ m.nonce = ReadLe(p, 14, 2)
<1> DEFINE a == m.uid
           b == <<m.node>>
           c == <<m.state>>
           d == LittleEndian(m.nonce)
           A == Put({}, 0, a)
           B == Put(A, 12, b)
           C == Put(B, 13, c)
           D == Put(C, 14, d)
<1>1. /\ m.uid \in Word(12) /\ m.node \in Byte /\ m.state \in Byte /\ m.nonce \in Word(2)
      /\ 16 \in Nat
  BY DEF NodeClaim, RequestIds, NodeUid, Byte, NodeId, CommissioningState
<1>2. Laid({}, 0) /\ (Shows(p, {}, 0) <=> TRUE)
  BY Blank, NoGap
<1>3. Laid(A, 12) /\ (Shows(p, A, 12) <=> Shows(p, {}, 0) /\ m.uid = Bytes(p, 0, 12))
  BY <1>1, <1>2, PutUid, NoGap
<1> HIDE DEF A
<1>4. Laid(B, 13) /\ (Shows(p, B, 13) <=> Shows(p, A, 12) /\ p[12] = m.node)
  BY <1>1, <1>3, PutByte, NoGap
<1> HIDE DEF B
<1>5. Laid(C, 14) /\ (Shows(p, C, 14) <=> Shows(p, B, 13) /\ p[13] = m.state)
  BY <1>1, <1>4, PutByte, NoGap
<1> HIDE DEF C
<1>6. Laid(D, 16) /\ (Shows(p, D, 16) <=> Shows(p, C, 14) /\ m.nonce = ReadLe(p, 14, 2))
  BY <1>1, <1>5, PutWord, NoGap
<1> HIDE DEF D
<1>7. W = <<<<0, a>>, <<12, b>>, <<13, c>>, <<14, d>>>>
  OBVIOUS
<1> HIDE DEF a, b, c, d
<1>8. Range(W) = D
  BY <1>7 DEF A, B, C, D, Put, Range
<1>9. D \subseteq Writes
  BY <1>6 DEF Laid
<1>10. W \in Seq(Writes)
  BY <1>7, <1>8, <1>9 DEF Range
<1> QED BY <1>2, <1>3, <1>4, <1>5, <1>6, <1>8, <1>10, Zenon

LEMMA DiscoverLayout ==
    ASSUME NEW m \in Discover, NEW p, NEW W,
           W = <<<<0, LittleEndian(m.nonce)>>>>
    PROVE  /\ W \in Seq(Writes) /\ Laid(Range(W), 8)
           /\ Shows(p, Range(W), 8) <=>
                /\ m.nonce = ReadLe(p, 0, 8)
<1> DEFINE a == LittleEndian(m.nonce)
           A == Put({}, 0, a)
<1>1. /\ m.nonce \in Word(8) /\ 8 \in Nat
  BY DEF Discover, RequestIds, NodeUid, Byte
<1>2. Laid({}, 0) /\ (Shows(p, {}, 0) <=> TRUE)
  BY Blank, NoGap
<1>3. Laid(A, 8) /\ (Shows(p, A, 8) <=> Shows(p, {}, 0) /\ m.nonce = ReadLe(p, 0, 8))
  BY <1>1, <1>2, PutWord, NoGap
<1> HIDE DEF A
<1>4. W = <<<<0, a>>>>
  OBVIOUS
<1> HIDE DEF a
<1>5. Range(W) = A
  BY <1>4 DEF A, Put, Range
<1>6. A \subseteq Writes
  BY <1>3 DEF Laid
<1>7. W \in Seq(Writes)
  BY <1>4, <1>5, <1>6 DEF Range
<1> QED BY <1>2, <1>3, <1>5, <1>7, Zenon

LEMMA IdentifyLayout ==
    ASSUME NEW m \in Identify, NEW p, NEW W,
           W = <<<<0, LittleEndian(m.request)>>, <<8, m.uid>>,
                <<20, LittleEndian(m.seconds)>>>>
    PROVE  /\ W \in Seq(Writes) /\ Laid(Range(W), 24)
           /\ Shows(p, Range(W), 24) <=>
                /\ m.request = ReadLe(p, 0, 8) /\ m.uid = Bytes(p, 8, 12)
                /\ m.seconds = ReadLe(p, 20, 2) /\ Zero(p, 22, 24)
<1> DEFINE a == LittleEndian(m.request)
           b == m.uid
           c == LittleEndian(m.seconds)
           A == Put({}, 0, a)
           B == Put(A, 8, b)
           C == Put(B, 20, c)
<1>1. /\ m.request \in Word(8) /\ m.uid \in Word(12) /\ m.seconds \in Word(2) /\ 24 \in Nat
  BY DEF Identify, RequestIds, NodeUid, Byte
<1>2. Laid({}, 0) /\ (Shows(p, {}, 0) <=> TRUE)
  BY Blank, NoGap
<1>3. Laid(A, 8) /\ (Shows(p, A, 8) <=> Shows(p, {}, 0) /\ m.request = ReadLe(p, 0, 8))
  BY <1>1, <1>2, PutWord, NoGap
<1> HIDE DEF A
<1>4. Laid(B, 20) /\ (Shows(p, B, 20) <=> Shows(p, A, 8) /\ m.uid = Bytes(p, 8, 12))
  BY <1>1, <1>3, PutUid, NoGap
<1> HIDE DEF B
<1>5. /\ Laid(C, 24)
      /\ Shows(p, C, 24) <=> Shows(p, B, 20) /\ m.seconds = ReadLe(p, 20, 2) /\ Zero(p, 22, 24)
  BY <1>1, <1>4, PutWord
<1> HIDE DEF C
<1>6. W = <<<<0, a>>, <<8, b>>, <<20, c>>>>
  OBVIOUS
<1> HIDE DEF a, b, c
<1>7. Range(W) = C
  BY <1>6 DEF A, B, C, Put, Range
<1>8. C \subseteq Writes
  BY <1>5 DEF Laid
<1>9. W \in Seq(Writes)
  BY <1>6, <1>7, <1>8 DEF Range
<1> QED BY <1>2, <1>3, <1>4, <1>5, <1>7, <1>9, Zenon

LEMMA AssignLayout ==
    ASSUME NEW m \in AssignNode, NEW p, NEW W,
           W = <<<<0, LittleEndian(m.request)>>, <<8, m.uid>>, <<20, <<m.node>>>>>>
    PROVE  /\ W \in Seq(Writes) /\ Laid(Range(W), 24)
           /\ Shows(p, Range(W), 24) <=>
                /\ m.request = ReadLe(p, 0, 8) /\ m.uid = Bytes(p, 8, 12) /\ p[20] = m.node
                /\ Zero(p, 21, 24)
<1> DEFINE a == LittleEndian(m.request)
           b == m.uid
           c == <<m.node>>
           A == Put({}, 0, a)
           B == Put(A, 8, b)
           C == Put(B, 20, c)
<1>1. /\ m.request \in Word(8) /\ m.uid \in Word(12) /\ m.node \in Byte /\ 24 \in Nat
  BY DEF AssignNode, RequestIds, NodeUid, Byte, NodeId
<1>2. Laid({}, 0) /\ (Shows(p, {}, 0) <=> TRUE)
  BY Blank, NoGap
<1>3. Laid(A, 8) /\ (Shows(p, A, 8) <=> Shows(p, {}, 0) /\ m.request = ReadLe(p, 0, 8))
  BY <1>1, <1>2, PutWord, NoGap
<1> HIDE DEF A
<1>4. Laid(B, 20) /\ (Shows(p, B, 20) <=> Shows(p, A, 8) /\ m.uid = Bytes(p, 8, 12))
  BY <1>1, <1>3, PutUid, NoGap
<1> HIDE DEF B
<1>5. Laid(C, 24) /\ (Shows(p, C, 24) <=> Shows(p, B, 20) /\ p[20] = m.node /\ Zero(p, 21, 24))
  BY <1>1, <1>4, PutByte
<1> HIDE DEF C
<1>6. W = <<<<0, a>>, <<8, b>>, <<20, c>>>>
  OBVIOUS
<1> HIDE DEF a, b, c
<1>7. Range(W) = C
  BY <1>6 DEF A, B, C, Put, Range
<1>8. C \subseteq Writes
  BY <1>5 DEF Laid
<1>9. W \in Seq(Writes)
  BY <1>6, <1>7, <1>8 DEF Range
<1> QED BY <1>2, <1>3, <1>4, <1>5, <1>7, <1>9, Zenon

LEMMA ClearLayout ==
    ASSUME NEW m \in ClearNode, NEW p, NEW W,
           W = <<<<0, LittleEndian(m.request)>>, <<8, m.uid>>>>
    PROVE  /\ W \in Seq(Writes) /\ Laid(Range(W), 20)
           /\ Shows(p, Range(W), 20) <=>
                /\ m.request = ReadLe(p, 0, 8) /\ m.uid = Bytes(p, 8, 12)
<1> DEFINE a == LittleEndian(m.request)
           b == m.uid
           A == Put({}, 0, a)
           B == Put(A, 8, b)
<1>1. /\ m.request \in Word(8) /\ m.uid \in Word(12) /\ 20 \in Nat
  BY DEF ClearNode, RequestIds, NodeUid, Byte
<1>2. Laid({}, 0) /\ (Shows(p, {}, 0) <=> TRUE)
  BY Blank, NoGap
<1>3. Laid(A, 8) /\ (Shows(p, A, 8) <=> Shows(p, {}, 0) /\ m.request = ReadLe(p, 0, 8))
  BY <1>1, <1>2, PutWord, NoGap
<1> HIDE DEF A
<1>4. Laid(B, 20) /\ (Shows(p, B, 20) <=> Shows(p, A, 8) /\ m.uid = Bytes(p, 8, 12))
  BY <1>1, <1>3, PutUid, NoGap
<1> HIDE DEF B
<1>5. W = <<<<0, a>>, <<8, b>>>>
  OBVIOUS
<1> HIDE DEF a, b
<1>6. Range(W) = B
  BY <1>5 DEF A, B, Put, Range
<1>7. B \subseteq Writes
  BY <1>4 DEF Laid
<1>8. W \in Seq(Writes)
  BY <1>5, <1>6, <1>7 DEF Range
<1> QED BY <1>2, <1>3, <1>4, <1>6, <1>8, Zenon

LEMMA ResultLayout ==
    ASSUME NEW m \in CommissioningResult, NEW p, NEW W,
           W = <<<<0, LittleEndian(m.request)>>, <<8, m.uid>>, <<20, <<m.opcode>>>>,
                <<21, <<m.result>>>>, <<22, <<NodeByte(m.node)>>>>,
                <<23, <<m.state>>>>>>
    PROVE  /\ W \in Seq(Writes) /\ Laid(Range(W), 24)
           /\ Shows(p, Range(W), 24) <=>
                /\ m.request = ReadLe(p, 0, 8) /\ m.uid = Bytes(p, 8, 12)
                /\ p[20] = m.opcode /\ p[21] = m.result /\ p[22] = NodeByte(m.node)
                /\ p[23] = m.state
<1> DEFINE a == LittleEndian(m.request)
           b == m.uid
           c == <<m.opcode>>
           d == <<m.result>>
           e == <<NodeByte(m.node)>>
           f == <<m.state>>
           A == Put({}, 0, a)
           B == Put(A, 8, b)
           C == Put(B, 20, c)
           D == Put(C, 21, d)
           E == Put(D, 22, e)
           F == Put(E, 23, f)
<1>1. /\ m.request \in Word(8) /\ m.uid \in Word(12) /\ m.opcode \in Byte /\ m.result \in Byte
      /\ NodeByte(m.node) \in Byte /\ m.state \in Byte /\ 24 \in Nat
  BY Nodes DEF CommissioningResult, RequestIds, NodeUid, Byte, CommandResult, CommissioningState
<1>2. Laid({}, 0) /\ (Shows(p, {}, 0) <=> TRUE)
  BY Blank, NoGap
<1>3. Laid(A, 8) /\ (Shows(p, A, 8) <=> Shows(p, {}, 0) /\ m.request = ReadLe(p, 0, 8))
  BY <1>1, <1>2, PutWord, NoGap
<1> HIDE DEF A
<1>4. Laid(B, 20) /\ (Shows(p, B, 20) <=> Shows(p, A, 8) /\ m.uid = Bytes(p, 8, 12))
  BY <1>1, <1>3, PutUid, NoGap
<1> HIDE DEF B
<1>5. Laid(C, 21) /\ (Shows(p, C, 21) <=> Shows(p, B, 20) /\ p[20] = m.opcode)
  BY <1>1, <1>4, PutByte, NoGap
<1> HIDE DEF C
<1>6. Laid(D, 22) /\ (Shows(p, D, 22) <=> Shows(p, C, 21) /\ p[21] = m.result)
  BY <1>1, <1>5, PutByte, NoGap
<1> HIDE DEF D
<1>7. Laid(E, 23) /\ (Shows(p, E, 23) <=> Shows(p, D, 22) /\ p[22] = NodeByte(m.node))
  BY <1>1, <1>6, PutByte, NoGap
<1> HIDE DEF E
<1>8. Laid(F, 24) /\ (Shows(p, F, 24) <=> Shows(p, E, 23) /\ p[23] = m.state)
  BY <1>1, <1>7, PutByte, NoGap
<1> HIDE DEF F
<1>9. W = <<<<0, a>>, <<8, b>>, <<20, c>>, <<21, d>>, <<22, e>>, <<23, f>>>>
  OBVIOUS
<1> HIDE DEF a, b, c, d, e, f
<1>10. Range(W) = F
  BY <1>9 DEF A, B, C, D, E, F, Put, Range
<1>11. F \subseteq Writes
  BY <1>8 DEF Laid
<1>12. W \in Seq(Range(W))
  BY <1>9 DEF Range
<1>13. W \in Seq(Writes)
  BY <1>10, <1>11, <1>12, Widened
<1> QED BY <1>2, <1>3, <1>4, <1>5, <1>6, <1>7, <1>8, <1>10, <1>13, Zenon

LEMMA ResponseStart ==
    ASSUME NEW m \in DiscoveryResponse, NEW p
    PROVE  \A W : W = <<<<0, m.uid>>, <<12, <<NodeByte(m.node)>>>>, <<13, <<m.state>>>>,
                       <<14, <<m.major>>>>, <<15, <<m.minor>>>>>> =>
              /\ W \in Seq(Writes) /\ Laid(Range(W), 16)
              /\ Shows(p, Range(W), 16) <=>
                   /\ m.uid = Bytes(p, 0, 12) /\ p[12] = NodeByte(m.node) /\ p[13] = m.state
                   /\ p[14] = m.major /\ p[15] = m.minor
<1> DEFINE a == m.uid
           b == <<NodeByte(m.node)>>
           c == <<m.state>>
           d == <<m.major>>
           e == <<m.minor>>
           A == Put({}, 0, a)
           B == Put(A, 12, b)
           C == Put(B, 13, c)
           D == Put(C, 14, d)
           E == Put(D, 15, e)
<1>1. /\ m.uid \in Word(12) /\ NodeByte(m.node) \in Byte /\ m.state \in Byte
      /\ m.major \in Byte /\ m.minor \in Byte /\ 16 \in Nat
  BY Nodes DEF DiscoveryResponse, RequestIds, NodeUid, Byte, CommissioningState
<1>2. Laid({}, 0) /\ (Shows(p, {}, 0) <=> TRUE)
  BY Blank, NoGap
<1>3. Laid(A, 12) /\ (Shows(p, A, 12) <=> Shows(p, {}, 0) /\ m.uid = Bytes(p, 0, 12))
  BY <1>1, <1>2, PutUid, NoGap
<1> HIDE DEF A
<1>4. Laid(B, 13) /\ (Shows(p, B, 13) <=> Shows(p, A, 12) /\ p[12] = NodeByte(m.node))
  BY <1>1, <1>3, PutByte, NoGap
<1> HIDE DEF B
<1>5. Laid(C, 14) /\ (Shows(p, C, 14) <=> Shows(p, B, 13) /\ p[13] = m.state)
  BY <1>1, <1>4, PutByte, NoGap
<1> HIDE DEF C
<1>6. Laid(D, 15) /\ (Shows(p, D, 15) <=> Shows(p, C, 14) /\ p[14] = m.major)
  BY <1>1, <1>5, PutByte, NoGap
<1> HIDE DEF D
<1>7. Laid(E, 16) /\ (Shows(p, E, 16) <=> Shows(p, D, 15) /\ p[15] = m.minor)
  BY <1>1, <1>6, PutByte, NoGap
<1> HIDE DEF E
<1>8. ASSUME NEW W, W = <<<<0, m.uid>>, <<12, <<NodeByte(m.node)>>>>, <<13, <<m.state>>>>,
                 <<14, <<m.major>>>>, <<15, <<m.minor>>>>>>
      PROVE  W \in Seq(Writes) /\ Range(W) = E
  <2> HIDE DEF a, b, c, d, e
  <2>1. W = <<<<0, a>>, <<12, b>>, <<13, c>>, <<14, d>>, <<15, e>>>>
    BY <1>8 DEF a, b, c, d, e
  <2>2. Range(W) = {<<0, a>>, <<12, b>>, <<13, c>>, <<14, d>>, <<15, e>>}
    BY <2>1 DEF Range
  <2>3. Range(W) = E
    BY <2>2 DEF A, B, C, D, E, Put
  <2>4. Range(W) \subseteq Writes
    BY <1>7, <2>3 DEF Laid
  <2>5. /\ <<0, a>> \in Writes /\ <<12, b>> \in Writes /\ <<13, c>> \in Writes
        /\ <<14, d>> \in Writes /\ <<15, e>> \in Writes
    BY <2>2, <2>4
  <2>6. W \in Seq(Writes)
    BY <2>1, <2>5
  <2> QED BY <2>3, <2>6
<1> QED BY <1>2, <1>3, <1>4, <1>5, <1>6, <1>7, <1>8, Zenon

LEMMA WordPadded ==
    ASSUME NEW p, NEW S, NEW o \in Nat, Laid(S, o), NEW n \in Nat, NEW v \in Word(n),
           NEW x \in Nat, NEW e \in Nat, x = o + n, x <= e
    PROVE  /\ Laid(Put(S, o, LittleEndian(v)), e)
           /\ Shows(p, Put(S, o, LittleEndian(v)), e) <=>
                 Shows(p, S, o) /\ v = ReadLe(p, o, n) /\ Zero(p, x, e)
<1>1. o + n \in Nat /\ o + n <= e
  OBVIOUS
<1>2. /\ Laid(Put(S, o, LittleEndian(v)), e)
      /\ Shows(p, Put(S, o, LittleEndian(v)), e) <=>
            Shows(p, S, o) /\ v = ReadLe(p, o, n) /\ Zero(p, o + n, e)
  <2>1. ASSUME NEW y \in Nat, o + n <= y
        PROVE  /\ Laid(Put(S, o, LittleEndian(v)), y)
               /\ Shows(p, Put(S, o, LittleEndian(v)), y) <=>
                     Shows(p, S, o) /\ v = ReadLe(p, o, n) /\ Zero(p, o + n, y)
    BY <2>1, PutWord, Zenon
  <2> QED BY <1>1, <2>1
<1> QED BY <1>2

LEMMA ResponseEnd ==
    ASSUME NEW m \in DiscoveryResponse, NEW p, NEW S, Laid(S, 48)
    PROVE  \A W : W = <<<<48, LittleEndian(m.nonce)>>>> =>
              /\ W \in Seq(Writes) /\ Laid(S \cup Range(W), 64)
              /\ Shows(p, S \cup Range(W), 64) <=>
                   /\ Shows(p, S, 48) /\ m.nonce = ReadLe(p, 48, 8) /\ Zero(p, 56, 64)
<1> DEFINE a == LittleEndian(m.nonce)
           A == Put(S, 48, a)
<1>1. /\ m.nonce \in Word(8) /\ 64 \in Nat
  BY DEF DiscoveryResponse, RequestIds, NodeUid, Byte
<1>2. Laid(S, 48)
  OBVIOUS
<1>3. /\ Laid(A, 64)
      /\ Shows(p, A, 64) <=> Shows(p, S, 48) /\ m.nonce = ReadLe(p, 48, 8) /\ Zero(p, 56, 64)
  <2> DEFINE v == m.nonce
  <2>1. 48 \in Nat /\ 8 \in Nat /\ 64 \in Nat /\ 56 \in Nat /\ 56 = 48 + 8 /\ 56 <= 64
    OBVIOUS
  <2>2. v \in Word(8)
    BY <1>1
  <2> HIDE DEF v
  <2>3. /\ Laid(Put(S, 48, LittleEndian(v)), 64)
        /\ Shows(p, Put(S, 48, LittleEndian(v)), 64) <=>
              Shows(p, S, 48) /\ v = ReadLe(p, 48, 8) /\ Zero(p, 56, 64)
    BY <1>2, <2>1, <2>2, WordPadded
  <2> QED BY <2>3 DEF v
<1> HIDE DEF A
<1>4. ASSUME NEW W, W = <<<<48, LittleEndian(m.nonce)>>>>
      PROVE  W \in Seq(Writes) /\ S \cup Range(W) = A
  <2> HIDE DEF a
  <2>1. W = <<<<48, a>>>>
    BY <1>4 DEF a
  <2>2. Range(W) = {<<48, a>>}
    BY <2>1 DEF Range
  <2>3. S \cup Range(W) = A
    BY <2>2 DEF A, Put
  <2>4. Range(W) \subseteq Writes
    BY <1>3, <2>3 DEF Laid
  <2>5. /\ <<48, a>> \in Writes
    BY <2>2, <2>4
  <2>6. W \in Seq(Writes)
    BY <2>1, <2>5
  <2> QED BY <2>3, <2>6
<1> QED BY <1>2, <1>3, <1>4, Zenon

(* What a commissioning message of each kind is made of. *)
LEMMA ClaimJoin ==
    ASSUME NEW k, NEW r, NEW a1, NEW a2, NEW a3, NEW a4
    PROVE  Join([kind |-> k, requester |-> r], [uid |-> a1, node |-> a2, state |-> a3,
        nonce |-> a4])
             = [kind |-> k, requester |-> r, uid |-> a1, node |-> a2, state |-> a3,
                nonce |-> a4]
<1> DEFINE base == [kind |-> k, requester |-> r]
           args == [uid |-> a1, node |-> a2, state |-> a3, nonce |-> a4]
           full == [kind |-> k, requester |-> r, uid |-> a1, node |-> a2, state |-> a3,
                    nonce |-> a4]
<1>1. Join(base, args) = full
  <2>1. DOMAIN base \cup DOMAIN args = DOMAIN full
    OBVIOUS
  <2>2. \A x \in DOMAIN full : (IF x \in DOMAIN base THEN base[x] ELSE args[x]) = full[x]
    OBVIOUS
  <2>3. full = [x \in DOMAIN full |-> full[x]]
    OBVIOUS
  <2> QED BY <2>1, <2>2, <2>3 DEF Join
<1> QED BY <1>1

LEMMA DiscoverJoin ==
    ASSUME NEW k, NEW r, NEW a1
    PROVE  Join([kind |-> k, requester |-> r], [nonce |-> a1])
             = [kind |-> k, requester |-> r, nonce |-> a1]
<1> DEFINE base == [kind |-> k, requester |-> r]
           args == [nonce |-> a1]
           full == [kind |-> k, requester |-> r, nonce |-> a1]
<1>1. Join(base, args) = full
  <2>1. DOMAIN base \cup DOMAIN args = DOMAIN full
    OBVIOUS
  <2>2. \A x \in DOMAIN full : (IF x \in DOMAIN base THEN base[x] ELSE args[x]) = full[x]
    OBVIOUS
  <2>3. full = [x \in DOMAIN full |-> full[x]]
    OBVIOUS
  <2> QED BY <2>1, <2>2, <2>3 DEF Join
<1> QED BY <1>1

LEMMA ResponseJoin ==
    ASSUME NEW k, NEW r, NEW a1, NEW a2, NEW a3, NEW a4, NEW a5, NEW a6, NEW a7
    PROVE  Join([kind |-> k, requester |-> r], [uid |-> a1, node |-> a2, state |-> a3,
        major |-> a4, minor |-> a5, nonce |-> a6,
                info |-> a7])
             = [kind |-> k, requester |-> r, uid |-> a1, node |-> a2, state |-> a3,
                major |-> a4, minor |-> a5, nonce |-> a6, info |-> a7]
<1> DEFINE base == [kind |-> k, requester |-> r]
           args == [uid |-> a1, node |-> a2, state |-> a3, major |-> a4, minor |-> a5,
                    nonce |-> a6, info |-> a7]
           full == [kind |-> k, requester |-> r, uid |-> a1, node |-> a2, state |-> a3,
                    major |-> a4, minor |-> a5, nonce |-> a6, info |-> a7]
<1>1. Join(base, args) = full
  <2>1. DOMAIN base \cup DOMAIN args = DOMAIN full
    OBVIOUS
  <2>2. \A x \in DOMAIN full : (IF x \in DOMAIN base THEN base[x] ELSE args[x]) = full[x]
    OBVIOUS
  <2>3. full = [x \in DOMAIN full |-> full[x]]
    OBVIOUS
  <2> QED BY <2>1, <2>2, <2>3 DEF Join
<1> QED BY <1>1

LEMMA IdentifyJoin ==
    ASSUME NEW k, NEW r, NEW q, NEW u, NEW a1
    PROVE  Join([kind |-> k, requester |-> r], Join([request |-> q, uid |-> u], [seconds |-> a1]))
             = [kind |-> k, requester |-> r, request |-> q, uid |-> u, seconds |-> a1]
<1> DEFINE base == [kind |-> k, requester |-> r]
           request == [request |-> q, uid |-> u]
           given == [seconds |-> a1]
           args == [request |-> q, uid |-> u, seconds |-> a1]
           full == [kind |-> k, requester |-> r, request |-> q, uid |-> u, seconds |-> a1]
<1>1. Join(request, given) = args
  <2>1. DOMAIN request \cup DOMAIN given = DOMAIN args
    OBVIOUS
  <2>2. \A x \in DOMAIN args : (IF x \in DOMAIN request THEN request[x] ELSE given[x]) = args[x]
    OBVIOUS
  <2>3. args = [x \in DOMAIN args |-> args[x]]
    OBVIOUS
  <2> QED BY <2>1, <2>2, <2>3 DEF Join
<1>2. Join(base, args) = full
  <2>1. DOMAIN base \cup DOMAIN args = DOMAIN full
    OBVIOUS
  <2>2. \A x \in DOMAIN full : (IF x \in DOMAIN base THEN base[x] ELSE args[x]) = full[x]
    OBVIOUS
  <2>3. full = [x \in DOMAIN full |-> full[x]]
    OBVIOUS
  <2> QED BY <2>1, <2>2, <2>3 DEF Join
<1> QED BY <1>1, <1>2

LEMMA AssignJoin ==
    ASSUME NEW k, NEW r, NEW q, NEW u, NEW a1
    PROVE  Join([kind |-> k, requester |-> r], Join([request |-> q, uid |-> u], [node |-> a1]))
             = [kind |-> k, requester |-> r, request |-> q, uid |-> u, node |-> a1]
<1> DEFINE base == [kind |-> k, requester |-> r]
           request == [request |-> q, uid |-> u]
           given == [node |-> a1]
           args == [request |-> q, uid |-> u, node |-> a1]
           full == [kind |-> k, requester |-> r, request |-> q, uid |-> u, node |-> a1]
<1>1. Join(request, given) = args
  <2>1. DOMAIN request \cup DOMAIN given = DOMAIN args
    OBVIOUS
  <2>2. \A x \in DOMAIN args : (IF x \in DOMAIN request THEN request[x] ELSE given[x]) = args[x]
    OBVIOUS
  <2>3. args = [x \in DOMAIN args |-> args[x]]
    OBVIOUS
  <2> QED BY <2>1, <2>2, <2>3 DEF Join
<1>2. Join(base, args) = full
  <2>1. DOMAIN base \cup DOMAIN args = DOMAIN full
    OBVIOUS
  <2>2. \A x \in DOMAIN full : (IF x \in DOMAIN base THEN base[x] ELSE args[x]) = full[x]
    OBVIOUS
  <2>3. full = [x \in DOMAIN full |-> full[x]]
    OBVIOUS
  <2> QED BY <2>1, <2>2, <2>3 DEF Join
<1> QED BY <1>1, <1>2

LEMMA ClearJoin ==
    ASSUME NEW k, NEW r, NEW q, NEW u
    PROVE  Join([kind |-> k, requester |-> r], [request |-> q, uid |-> u])
             = [kind |-> k, requester |-> r, request |-> q, uid |-> u]
<1> DEFINE base == [kind |-> k, requester |-> r]
           args == [request |-> q, uid |-> u]
           full == [kind |-> k, requester |-> r, request |-> q, uid |-> u]
<1>1. Join(base, args) = full
  <2>1. DOMAIN base \cup DOMAIN args = DOMAIN full
    OBVIOUS
  <2>2. \A x \in DOMAIN full : (IF x \in DOMAIN base THEN base[x] ELSE args[x]) = full[x]
    OBVIOUS
  <2>3. full = [x \in DOMAIN full |-> full[x]]
    OBVIOUS
  <2> QED BY <2>1, <2>2, <2>3 DEF Join
<1> QED BY <1>1

LEMMA ResultJoin ==
    ASSUME NEW k, NEW r, NEW q, NEW u, NEW a1, NEW a2, NEW a3, NEW a4
    PROVE  Join([kind |-> k, requester |-> r], Join([request |-> q, uid |-> u], [opcode |-> a1,
        result |-> a2, node |-> a3,
                state |-> a4]))
             = [kind |-> k, requester |-> r, request |-> q, uid |-> u, opcode |-> a1,
                result |-> a2, node |-> a3, state |-> a4]
<1> DEFINE base == [kind |-> k, requester |-> r]
           request == [request |-> q, uid |-> u]
           given == [opcode |-> a1, result |-> a2, node |-> a3, state |-> a4]
           args == [request |-> q, uid |-> u, opcode |-> a1, result |-> a2, node |-> a3,
                    state |-> a4]
           full == [kind |-> k, requester |-> r, request |-> q, uid |-> u, opcode |-> a1,
                    result |-> a2, node |-> a3, state |-> a4]
<1>1. Join(request, given) = args
  <2>1. DOMAIN request \cup DOMAIN given = DOMAIN args
    OBVIOUS
  <2>2. \A x \in DOMAIN args : (IF x \in DOMAIN request THEN request[x] ELSE given[x]) = args[x]
    OBVIOUS
  <2>3. args = [x \in DOMAIN args |-> args[x]]
    OBVIOUS
  <2> QED BY <2>1, <2>2, <2>3 DEF Join
<1>2. Join(base, args) = full
  <2>1. DOMAIN base \cup DOMAIN args = DOMAIN full
    OBVIOUS
  <2>2. \A x \in DOMAIN full : (IF x \in DOMAIN base THEN base[x] ELSE args[x]) = full[x]
    OBVIOUS
  <2>3. full = [x \in DOMAIN full |-> full[x]]
    OBVIOUS
  <2> QED BY <2>1, <2>2, <2>3 DEF Join
<1> QED BY <1>1, <1>2

(* What a frame that is taken for a message of each kind means. *)
ClaimRead(f) ==
    LET p == f.payload IN
    [kind |-> "NODE_CLAIM", requester |-> Bits(f.id, "requester"), uid |-> ReadUid(p, 0),
     node |-> p[12], state |-> p[13], nonce |-> ReadLe(p, 14, 2)]

LEMMA ClaimMeans ==
    ASSUME NEW f, NEW m
    PROVE  LET p == f.payload IN
           (\E args \in DecodeCommissioningBody("NODE_CLAIM", TokenHeader(f.id), p) :
               m = CommissioningRequested(f, "NODE_CLAIM", args)) <=>
              /\ Length(p) = 16
              /\ ValidNodeId(p[12])
              /\ p[13] \in CommissioningState
              /\ Bits(f.id, "token") = NodeClaimToken(ReadUid(p, 0), p[12], ReadLe(p, 14, 2))
              /\ m = ClaimRead(f)
<1> DEFINE p == f.payload
           args == [uid |-> ReadUid(p, 0), node |-> p[12], state |-> p[13],
                    nonce |-> ReadLe(p, 14, 2)]
<1>1. \A x : x \in DecodeCommissioningBody("NODE_CLAIM", TokenHeader(f.id), p) <=>
             /\ Length(p) = 16
             /\ ValidNodeId(p[12])
             /\ p[13] \in CommissioningState
             /\ Bits(f.id, "token") = NodeClaimToken(ReadUid(p, 0), p[12], ReadLe(p, 14, 2))
             /\ x = args
  <2> HIDE DEF p
  <2>1. ASSUME NEW h, NEW x
        PROVE  x \in DecodeCommissioningBody("NODE_CLAIM", h, p) <=>
                    /\ Length(p) = 16
                    /\ ValidNodeId(p[12])
                    /\ p[13] \in CommissioningState
                    /\ h.token = NodeClaimToken(ReadUid(p, 0), p[12], ReadLe(p, 14, 2))
                    /\ x = args
    BY DEF DecodeCommissioningBody, When
  <2> HIDE DEF args
  <2> QED BY <2>1, TokenHeaderFieldsOf
<1>2. CommissioningRequested(f, "NODE_CLAIM", args) = ClaimRead(f)
  <2> DEFINE k == "NODE_CLAIM"
             r == Bits(f.id, "requester")
             a1 == ReadUid(p, 0)
             a2 == p[12]
             a3 == p[13]
             a4 == ReadLe(p, 14, 2)
  <2> HIDE DEF k, r, a1, a2, a3, a4
  <2>1. Join([kind |-> k, requester |-> r], [uid |-> a1, node |-> a2, state |-> a3, nonce |-> a4])
           = [kind |-> k, requester |-> r, uid |-> a1, node |-> a2, state |-> a3, nonce |-> a4]
    BY ClaimJoin
  <2> QED BY <2>1 DEF CommissioningRequested, ClaimRead, k, r, a1, a2, a3, a4
<1> HIDE DEF args
<1> QED BY <1>1, <1>2

DiscoverRead(f) ==
    LET p == f.payload IN
    [kind |-> "DISCOVER", requester |-> Bits(f.id, "requester"), nonce |-> ReadLe(p, 0, 8)]

LEMMA DiscoverMeans ==
    ASSUME NEW f, NEW m
    PROVE  LET p == f.payload IN
           (\E args \in DecodeCommissioningBody("DISCOVER", TokenHeader(f.id), p) :
               m = CommissioningRequested(f, "DISCOVER", args)) <=>
              /\ Length(p) = 8
              /\ Bits(f.id, "token") = 0
              /\ m = DiscoverRead(f)
<1> DEFINE p == f.payload
           args == [nonce |-> ReadLe(p, 0, 8)]
<1>1. \A x : x \in DecodeCommissioningBody("DISCOVER", TokenHeader(f.id), p) <=>
             /\ Length(p) = 8
             /\ Bits(f.id, "token") = 0
             /\ x = args
  <2> HIDE DEF p
  <2>1. ASSUME NEW h, NEW x
        PROVE  x \in DecodeCommissioningBody("DISCOVER", h, p) <=>
                    /\ Length(p) = 8
                    /\ h.token = 0
                    /\ x = args
    BY DEF DecodeCommissioningBody, When
  <2> HIDE DEF args
  <2> QED BY <2>1, TokenHeaderFieldsOf
<1>2. CommissioningRequested(f, "DISCOVER", args) = DiscoverRead(f)
  <2> DEFINE k == "DISCOVER"
             r == Bits(f.id, "requester")
             a1 == ReadLe(p, 0, 8)
  <2> HIDE DEF k, r, a1
  <2>1. Join([kind |-> k, requester |-> r], [nonce |-> a1])
           = [kind |-> k, requester |-> r, nonce |-> a1]
    BY DiscoverJoin
  <2> QED BY <2>1 DEF CommissioningRequested, DiscoverRead, k, r, a1
<1> HIDE DEF args
<1> QED BY <1>1, <1>2

ResponseRead(f, info) ==
    LET p == f.payload IN
    [kind |-> "DISCOVERY_RESPONSE", requester |-> Bits(f.id, "requester"),
     uid |-> ReadUid(p, 0), node |-> OptionalNode(p[12]), state |-> p[13], major |-> p[14],
     minor |-> p[15], nonce |-> ReadLe(p, 48, 8), info |-> info]

LEMMA ResponseMeans ==
    ASSUME NEW f, NEW m
    PROVE  LET p == f.payload IN
           (\E args \in DecodeCommissioningBody("DISCOVERY_RESPONSE", TokenHeader(f.id), p) :
               m = CommissioningRequested(f, "DISCOVERY_RESPONSE", args)) <=>
              /\ Length(p) = 64
              /\ Zero(p, 56, 64)
              /\ (p[12] = BROADCAST_NODE \/ ValidNodeId(p[12]))
              /\ Bits(f.id, "token") = Token(ReadUid(p, 0), ReadLe(p, 48, 8))
              /\ p[13] \in CommissioningState
              /\ \E info \in DecodeInfo(p, 16) : m = ResponseRead(f, info)
<1> DEFINE p == f.payload
           Args(info) == [uid |-> ReadUid(p, 0), node |-> OptionalNode(p[12]), state |-> p[13],
                    major |-> p[14], minor |-> p[15], nonce |-> ReadLe(p, 48, 8), info |-> info]
<1>1. \A x : x \in DecodeCommissioningBody("DISCOVERY_RESPONSE", TokenHeader(f.id), p) <=>
             /\ Length(p) = 64
             /\ Zero(p, 56, 64)
             /\ (p[12] = BROADCAST_NODE \/ ValidNodeId(p[12]))
             /\ Bits(f.id, "token") = Token(ReadUid(p, 0), ReadLe(p, 48, 8))
             /\ p[13] \in CommissioningState
             /\ \E info \in DecodeInfo(p, 16) : x = Args(info)
  <2> HIDE DEF p
  <2>1. ASSUME NEW h, NEW x
        PROVE  x \in DecodeCommissioningBody("DISCOVERY_RESPONSE", h, p) <=>
                    /\ Length(p) = 64
                    /\ Zero(p, 56, 64)
                    /\ (p[12] = BROADCAST_NODE \/ ValidNodeId(p[12]))
                    /\ h.token = Token(ReadUid(p, 0), ReadLe(p, 48, 8))
                    /\ p[13] \in CommissioningState
                    /\ \E info \in DecodeInfo(p, 16) : x = Args(info)
    BY DEF DecodeCommissioningBody, When
  <2> HIDE DEF Args
  <2> QED BY <2>1, TokenHeaderFieldsOf
<1>2. ASSUME NEW info
      PROVE  CommissioningRequested(f, "DISCOVERY_RESPONSE", Args(info)) = ResponseRead(f, info)
  <2> DEFINE k == "DISCOVERY_RESPONSE"
             r == Bits(f.id, "requester")
             a1 == ReadUid(p, 0)
             a2 == OptionalNode(p[12])
             a3 == p[13]
             a4 == p[14]
             a5 == p[15]
             a6 == ReadLe(p, 48, 8)
             a7 == info
  <2> HIDE DEF k, r, a1, a2, a3, a4, a5, a6, a7
  <2>1. Join([kind |-> k, requester |-> r], [uid |-> a1, node |-> a2, state |-> a3, major |-> a4,
            minor |-> a5, nonce |-> a6,
              info |-> a7])
           = [kind |-> k, requester |-> r, uid |-> a1, node |-> a2, state |-> a3, major |-> a4,
              minor |-> a5, nonce |-> a6, info |-> a7]
    BY ResponseJoin
  <2> QED BY <2>1 DEF CommissioningRequested, ResponseRead, k, r, a1, a2, a3, a4, a5, a6, a7
<1> HIDE DEF Args
<1> QED BY <1>1, <1>2

IdentifyRead(f) ==
    LET p == f.payload IN
    [kind |-> "IDENTIFY", requester |-> Bits(f.id, "requester"), request |-> ReadLe(p, 0, 8),
     uid |-> ReadUid(p, 8), seconds |-> ReadLe(p, 20, 2)]

LEMMA IdentifyMeans ==
    ASSUME NEW f, NEW m
    PROVE  LET p == f.payload IN
           (\E args \in DecodeCommissioningBody("IDENTIFY", TokenHeader(f.id), p) :
               m = CommissioningRequested(f, "IDENTIFY", args)) <=>
              /\ Length(p) = 24
              /\ Zero(p, 22, 24)
              /\ Bits(f.id, "token") = Token(ReadUid(p, 8), ReadLe(p, 0, 8))
              /\ m = IdentifyRead(f)
<1> DEFINE p == f.payload
           request == [request |-> ReadLe(p, 0, 8), uid |-> ReadUid(p, 8)]
           args == Join(request, [seconds |-> ReadLe(p, 20, 2)])
<1>1. \A x : x \in DecodeCommissioningBody("IDENTIFY", TokenHeader(f.id), p) <=>
             /\ Length(p) = 24
             /\ Zero(p, 22, 24)
             /\ Bits(f.id, "token") = Token(ReadUid(p, 8), ReadLe(p, 0, 8))
             /\ x = args
  <2> HIDE DEF p
  <2>1. ASSUME NEW h, NEW x
        PROVE  x \in DecodeCommissioningBody("IDENTIFY", h, p) <=>
                    /\ Length(p) = 24
                    /\ Zero(p, 22, 24)
                    /\ h.token = Token(request.uid, request.request)
                    /\ x = args
    BY DEF DecodeCommissioningBody, When
  <2>2. Token(request.uid, request.request) = Token(ReadUid(p, 8), ReadLe(p, 0, 8))
    OBVIOUS
  <2> HIDE DEF args, request
  <2> QED BY <2>1, <2>2, TokenHeaderFieldsOf
<1>2. CommissioningRequested(f, "IDENTIFY", args) = IdentifyRead(f)
  <2> DEFINE k == "IDENTIFY"
             r == Bits(f.id, "requester")
             q == ReadLe(p, 0, 8)
             u == ReadUid(p, 8)
             a1 == ReadLe(p, 20, 2)
  <2> HIDE DEF k, r, q, u, a1
  <2>1. Join([kind |-> k, requester |-> r], Join([request |-> q, uid |-> u], [seconds |-> a1]))
           = [kind |-> k, requester |-> r, request |-> q, uid |-> u, seconds |-> a1]
    BY IdentifyJoin
  <2> QED BY <2>1 DEF CommissioningRequested, IdentifyRead, k, r, q, u, a1
<1> HIDE DEF args
<1> QED BY <1>1, <1>2

AssignRead(f) ==
    LET p == f.payload IN
    [kind |-> "ASSIGN_NODE", requester |-> Bits(f.id, "requester"), request |-> ReadLe(p, 0, 8),
     uid |-> ReadUid(p, 8), node |-> p[20]]

LEMMA AssignMeans ==
    ASSUME NEW f, NEW m
    PROVE  LET p == f.payload IN
           (\E args \in DecodeCommissioningBody("ASSIGN_NODE", TokenHeader(f.id), p) :
               m = CommissioningRequested(f, "ASSIGN_NODE", args)) <=>
              /\ Length(p) = 24
              /\ Zero(p, 21, 24)
              /\ ValidNodeId(p[20])
              /\ Bits(f.id, "token") = Token(ReadUid(p, 8), ReadLe(p, 0, 8))
              /\ m = AssignRead(f)
<1> DEFINE p == f.payload
           request == [request |-> ReadLe(p, 0, 8), uid |-> ReadUid(p, 8)]
           args == Join(request, [node |-> p[20]])
<1>1. \A x : x \in DecodeCommissioningBody("ASSIGN_NODE", TokenHeader(f.id), p) <=>
             /\ Length(p) = 24
             /\ Zero(p, 21, 24)
             /\ ValidNodeId(p[20])
             /\ Bits(f.id, "token") = Token(ReadUid(p, 8), ReadLe(p, 0, 8))
             /\ x = args
  <2> HIDE DEF p
  <2>1. ASSUME NEW h, NEW x
        PROVE  x \in DecodeCommissioningBody("ASSIGN_NODE", h, p) <=>
                    /\ Length(p) = 24
                    /\ Zero(p, 21, 24)
                    /\ ValidNodeId(p[20])
                    /\ h.token = Token(request.uid, request.request)
                    /\ x = args
    BY DEF DecodeCommissioningBody, When
  <2>2. Token(request.uid, request.request) = Token(ReadUid(p, 8), ReadLe(p, 0, 8))
    OBVIOUS
  <2> HIDE DEF args, request
  <2> QED BY <2>1, <2>2, TokenHeaderFieldsOf
<1>2. CommissioningRequested(f, "ASSIGN_NODE", args) = AssignRead(f)
  <2> DEFINE k == "ASSIGN_NODE"
             r == Bits(f.id, "requester")
             q == ReadLe(p, 0, 8)
             u == ReadUid(p, 8)
             a1 == p[20]
  <2> HIDE DEF k, r, q, u, a1
  <2>1. Join([kind |-> k, requester |-> r], Join([request |-> q, uid |-> u], [node |-> a1]))
           = [kind |-> k, requester |-> r, request |-> q, uid |-> u, node |-> a1]
    BY AssignJoin
  <2> QED BY <2>1 DEF CommissioningRequested, AssignRead, k, r, q, u, a1
<1> HIDE DEF args
<1> QED BY <1>1, <1>2

ClearRead(f) ==
    LET p == f.payload IN
    [kind |-> "CLEAR_NODE", requester |-> Bits(f.id, "requester"), request |-> ReadLe(p, 0, 8),
     uid |-> ReadUid(p, 8)]

LEMMA ClearMeans ==
    ASSUME NEW f, NEW m
    PROVE  LET p == f.payload IN
           (\E args \in DecodeCommissioningBody("CLEAR_NODE", TokenHeader(f.id), p) :
               m = CommissioningRequested(f, "CLEAR_NODE", args)) <=>
              /\ Length(p) = 20
              /\ Bits(f.id, "token") = Token(ReadUid(p, 8), ReadLe(p, 0, 8))
              /\ m = ClearRead(f)
<1> DEFINE p == f.payload
           request == [request |-> ReadLe(p, 0, 8), uid |-> ReadUid(p, 8)]
           args == request
<1>1. \A x : x \in DecodeCommissioningBody("CLEAR_NODE", TokenHeader(f.id), p) <=>
             /\ Length(p) = 20
             /\ Bits(f.id, "token") = Token(ReadUid(p, 8), ReadLe(p, 0, 8))
             /\ x = args
  <2> HIDE DEF p
  <2>1. ASSUME NEW h, NEW x
        PROVE  x \in DecodeCommissioningBody("CLEAR_NODE", h, p) <=>
                    /\ Length(p) = 20
                    /\ h.token = Token(request.uid, request.request)
                    /\ x = args
    BY DEF DecodeCommissioningBody, When
  <2>2. Token(request.uid, request.request) = Token(ReadUid(p, 8), ReadLe(p, 0, 8))
    OBVIOUS
  <2> HIDE DEF args, request
  <2> QED BY <2>1, <2>2, TokenHeaderFieldsOf
<1>2. CommissioningRequested(f, "CLEAR_NODE", args) = ClearRead(f)
  <2> DEFINE k == "CLEAR_NODE"
             r == Bits(f.id, "requester")
             q == ReadLe(p, 0, 8)
             u == ReadUid(p, 8)
  <2> HIDE DEF k, r, q, u
  <2>1. Join([kind |-> k, requester |-> r], [request |-> q, uid |-> u])
           = [kind |-> k, requester |-> r, request |-> q, uid |-> u]
    BY ClearJoin
  <2> QED BY <2>1 DEF CommissioningRequested, ClearRead, k, r, q, u
<1> HIDE DEF args
<1> QED BY <1>1, <1>2

ResultRead(f) ==
    LET p == f.payload IN
    [kind |-> "COMMISSIONING_RESULT", requester |-> Bits(f.id, "requester"),
     request |-> ReadLe(p, 0, 8), uid |-> ReadUid(p, 8), opcode |-> p[20], result |-> p[21],
     node |-> OptionalNode(p[22]), state |-> p[23]]

LEMMA ResultMeans ==
    ASSUME NEW f, NEW m
    PROVE  LET p == f.payload IN
           (\E args \in DecodeCommissioningBody("COMMISSIONING_RESULT", TokenHeader(f.id), p) :
               m = CommissioningRequested(f, "COMMISSIONING_RESULT", args)) <=>
              /\ Length(p) = 24
              /\ Bits(f.id, "token") = Token(ReadUid(p, 8), ReadLe(p, 0, 8))
              /\ p[21] \in CommandResult
              /\ (p[22] = BROADCAST_NODE \/ ValidNodeId(p[22]))
              /\ p[23] \in CommissioningState
              /\ m = ResultRead(f)
<1> DEFINE p == f.payload
           request == [request |-> ReadLe(p, 0, 8), uid |-> ReadUid(p, 8)]
           args == Join(request, [opcode |-> p[20], result |-> p[21],
                    node |-> OptionalNode(p[22]), state |-> p[23]])
<1>1. \A x : x \in DecodeCommissioningBody("COMMISSIONING_RESULT", TokenHeader(f.id), p) <=>
             /\ Length(p) = 24
             /\ Bits(f.id, "token") = Token(ReadUid(p, 8), ReadLe(p, 0, 8))
             /\ p[21] \in CommandResult
             /\ (p[22] = BROADCAST_NODE \/ ValidNodeId(p[22]))
             /\ p[23] \in CommissioningState
             /\ x = args
  <2> HIDE DEF p
  <2>1. ASSUME NEW h, NEW x
        PROVE  x \in DecodeCommissioningBody("COMMISSIONING_RESULT", h, p) <=>
                    /\ Length(p) = 24
                    /\ h.token = Token(request.uid, request.request)
                    /\ p[21] \in CommandResult
                    /\ (p[22] = BROADCAST_NODE \/ ValidNodeId(p[22]))
                    /\ p[23] \in CommissioningState
                    /\ x = args
    BY DEF DecodeCommissioningBody, When
  <2>2. Token(request.uid, request.request) = Token(ReadUid(p, 8), ReadLe(p, 0, 8))
    OBVIOUS
  <2> HIDE DEF args, request
  <2> QED BY <2>1, <2>2, TokenHeaderFieldsOf
<1>2. CommissioningRequested(f, "COMMISSIONING_RESULT", args) = ResultRead(f)
  <2> DEFINE k == "COMMISSIONING_RESULT"
             r == Bits(f.id, "requester")
             q == ReadLe(p, 0, 8)
             u == ReadUid(p, 8)
             a1 == p[20]
             a2 == p[21]
             a3 == OptionalNode(p[22])
             a4 == p[23]
  <2> HIDE DEF k, r, q, u, a1, a2, a3, a4
  <2>1. Join([kind |-> k, requester |-> r], Join([request |-> q, uid |-> u], [opcode |-> a1,
            result |-> a2, node |-> a3,
              state |-> a4]))
           = [kind |-> k, requester |-> r, request |-> q, uid |-> u, opcode |-> a1,
              result |-> a2, node |-> a3, state |-> a4]
    BY ResultJoin
  <2> QED BY <2>1 DEF CommissioningRequested, ResultRead, k, r, q, u, a1, a2, a3, a4
<1> HIDE DEF args
<1> QED BY <1>1, <1>2

LEMMA ClaimTrip ==
    ASSUME NEW f \in Frame, NEW m \in NodeClaim
    PROVE  f \in EncodeCommissioning(m) <=> m \in DecodeCommissioning(f)
<1> DEFINE p == f.payload
           V == <<<<0, m.uid>>, <<12, <<m.node>>>>, <<13, <<m.state>>>>, <<14,
               LittleEndian(m.nonce)>>>>
           W == V
           token == NodeClaimToken(m.uid, m.node, m.nonce)
<1>1. /\ m.kind = "NODE_CLAIM" /\ m.kind \in CommissioningKinds /\ m.requester \in RequesterId
      /\ 16 \in CanFdLengths
  BY DEF NodeClaim, CommissioningKinds, CanFdLengths
<1>2. m = ClaimRead(f) <=>
          /\ m.requester = Bits(f.id, "requester") /\ m.uid = ReadUid(p, 0) /\ m.node = p[12]
          /\ m.state = p[13] /\ m.nonce = ReadLe(p, 14, 2)
  BY DEF NodeClaim, ClaimRead
<1>3. /\ W \in Seq(Writes) /\ Laid(Range(W), 16)
      /\ Shows(p, Range(W), 16) <=>
            /\ m.uid = Bytes(p, 0, 12) /\ p[12] = m.node /\ p[13] = m.state
            /\ m.nonce = ReadLe(p, 14, 2)
  <2>1. W = V
    OBVIOUS
  <2> HIDE DEF W, p
  <2> QED BY <2>1, ClaimLayout, Zenon
<1>4. CommissioningBody(m) = [token |-> token, len |-> 16, writes |-> W]
  BY <1>1 DEF CommissioningBody
<1>5. ASSUME m.requester = Bits(f.id, "requester")
      PROVE  (Bits(f.id, "token") = token /\ Length(p) = 16 /\ Shows(p, Range(W), 16)) <=>
             \E args \in DecodeCommissioningBody(m.kind, TokenHeader(f.id), p) :
                m = CommissioningRequested(f, m.kind, args)
  <2>1. ValidNodeId(m.node) /\ m.state \in CommissioningState
    BY DEF NodeClaim, NodeId, ValidNodeId
  <2> HIDE DEF W
  <2> QED BY <1>1, <1>2, <1>3, <1>5, ClaimMeans, <2>1, Zenon DEF ReadUid
<1> HIDE DEF W, token
<1>6. ReadAsShown(f, m, token, 16, W)
  BY <1>1, <1>5 DEF ReadAsShown
<1> QED BY <1>1, <1>3, <1>4, <1>6, CommissioningMessageTrip

LEMMA DiscoverTrip ==
    ASSUME NEW f \in Frame, NEW m \in Discover
    PROVE  f \in EncodeCommissioning(m) <=> m \in DecodeCommissioning(f)
<1> DEFINE p == f.payload
           V == <<<<0, LittleEndian(m.nonce)>>>>
           W == V
           token == 0
<1>1. /\ m.kind = "DISCOVER" /\ m.kind \in CommissioningKinds /\ m.requester \in RequesterId
      /\ 8 \in CanFdLengths
  BY DEF Discover, CommissioningKinds, CanFdLengths
<1>2. m = DiscoverRead(f) <=>
          /\ m.requester = Bits(f.id, "requester") /\ m.nonce = ReadLe(p, 0, 8)
  BY DEF Discover, DiscoverRead
<1>3. /\ W \in Seq(Writes) /\ Laid(Range(W), 8)
      /\ Shows(p, Range(W), 8) <=>
            /\ m.nonce = ReadLe(p, 0, 8)
  <2>1. W = V
    OBVIOUS
  <2> HIDE DEF W, p
  <2> QED BY <2>1, DiscoverLayout, Zenon
<1>4. CommissioningBody(m) = [token |-> token, len |-> 8, writes |-> W]
  BY <1>1 DEF CommissioningBody
<1>5. ASSUME m.requester = Bits(f.id, "requester")
      PROVE  (Bits(f.id, "token") = token /\ Length(p) = 8 /\ Shows(p, Range(W), 8)) <=>
             \E args \in DecodeCommissioningBody(m.kind, TokenHeader(f.id), p) :
                m = CommissioningRequested(f, m.kind, args)
  <2> HIDE DEF W
  <2> QED BY <1>1, <1>2, <1>3, <1>5, DiscoverMeans, Zenon DEF ReadUid
<1> HIDE DEF W, token
<1>6. ReadAsShown(f, m, token, 8, W)
  BY <1>1, <1>5 DEF ReadAsShown
<1> QED BY <1>1, <1>3, <1>4, <1>6, CommissioningMessageTrip

LEMMA IdentifyTrip ==
    ASSUME NEW f \in Frame, NEW m \in Identify
    PROVE  f \in EncodeCommissioning(m) <=> m \in DecodeCommissioning(f)
<1> DEFINE p == f.payload
           V == <<<<0, LittleEndian(m.request)>>, <<8, m.uid>>, <<20, LittleEndian(m.seconds)>>>>
           W == V
           token == Token(m.uid, m.request)
<1>1. /\ m.kind = "IDENTIFY" /\ m.kind \in CommissioningKinds /\ m.requester \in RequesterId
      /\ 24 \in CanFdLengths
  BY DEF Identify, CommissioningKinds, CanFdLengths
<1>2. m = IdentifyRead(f) <=>
          /\ m.requester = Bits(f.id, "requester") /\ m.request = ReadLe(p, 0, 8)
          /\ m.uid = ReadUid(p, 8) /\ m.seconds = ReadLe(p, 20, 2)
  BY DEF Identify, IdentifyRead
<1>3. /\ W \in Seq(Writes) /\ Laid(Range(W), 24)
      /\ Shows(p, Range(W), 24) <=>
            /\ m.request = ReadLe(p, 0, 8) /\ m.uid = Bytes(p, 8, 12)
            /\ m.seconds = ReadLe(p, 20, 2) /\ Zero(p, 22, 24)
  <2>1. W = V
    OBVIOUS
  <2> HIDE DEF W, p
  <2> QED BY <2>1, IdentifyLayout, Zenon
<1>4. CommissioningBody(m) = [token |-> token, len |-> 24, writes |-> W]
  <2>1. CommissioningBody(m) =
            [token |-> token, len |-> 24,
             writes |-> <<RequestId(m), <<8, m.uid>>>>
                          \o <<<<20, LittleEndian(m.seconds)>>>>]
    BY <1>1 DEF CommissioningBody
  <2>2. <<RequestId(m), <<8, m.uid>>>> \o <<<<20, LittleEndian(m.seconds)>>>> = W
    BY Concat2And1 DEF RequestId
  <2> HIDE DEF W
  <2> QED BY <2>1, <2>2
<1>5. ASSUME m.requester = Bits(f.id, "requester")
      PROVE  (Bits(f.id, "token") = token /\ Length(p) = 24 /\ Shows(p, Range(W), 24)) <=>
             \E args \in DecodeCommissioningBody(m.kind, TokenHeader(f.id), p) :
                m = CommissioningRequested(f, m.kind, args)
  <2> HIDE DEF W
  <2> QED BY <1>1, <1>2, <1>3, <1>5, IdentifyMeans, Zenon DEF ReadUid
<1> HIDE DEF W, token
<1>6. ReadAsShown(f, m, token, 24, W)
  BY <1>1, <1>5 DEF ReadAsShown
<1> QED BY <1>1, <1>3, <1>4, <1>6, CommissioningMessageTrip

LEMMA AssignTrip ==
    ASSUME NEW f \in Frame, NEW m \in AssignNode
    PROVE  f \in EncodeCommissioning(m) <=> m \in DecodeCommissioning(f)
<1> DEFINE p == f.payload
           V == <<<<0, LittleEndian(m.request)>>, <<8, m.uid>>, <<20, <<m.node>>>>>>
           W == V
           token == Token(m.uid, m.request)
<1>1. /\ m.kind = "ASSIGN_NODE" /\ m.kind \in CommissioningKinds /\ m.requester \in RequesterId
      /\ 24 \in CanFdLengths
  BY DEF AssignNode, CommissioningKinds, CanFdLengths
<1>2. m = AssignRead(f) <=>
          /\ m.requester = Bits(f.id, "requester") /\ m.request = ReadLe(p, 0, 8)
          /\ m.uid = ReadUid(p, 8) /\ m.node = p[20]
  BY DEF AssignNode, AssignRead
<1>3. /\ W \in Seq(Writes) /\ Laid(Range(W), 24)
      /\ Shows(p, Range(W), 24) <=>
            /\ m.request = ReadLe(p, 0, 8) /\ m.uid = Bytes(p, 8, 12) /\ p[20] = m.node
            /\ Zero(p, 21, 24)
  <2>1. W = V
    OBVIOUS
  <2> HIDE DEF W, p
  <2> QED BY <2>1, AssignLayout, Zenon
<1>4. CommissioningBody(m) = [token |-> token, len |-> 24, writes |-> W]
  <2>1. CommissioningBody(m) =
            [token |-> token, len |-> 24,
             writes |-> <<RequestId(m), <<8, m.uid>>>>
                          \o <<<<20, <<m.node>>>>>>]
    BY <1>1 DEF CommissioningBody
  <2>2. <<RequestId(m), <<8, m.uid>>>> \o <<<<20, <<m.node>>>>>> = W
    BY Concat2And1 DEF RequestId
  <2> HIDE DEF W
  <2> QED BY <2>1, <2>2
<1>5. ASSUME m.requester = Bits(f.id, "requester")
      PROVE  (Bits(f.id, "token") = token /\ Length(p) = 24 /\ Shows(p, Range(W), 24)) <=>
             \E args \in DecodeCommissioningBody(m.kind, TokenHeader(f.id), p) :
                m = CommissioningRequested(f, m.kind, args)
  <2>1. ValidNodeId(m.node)
    BY DEF AssignNode, NodeId, ValidNodeId
  <2> HIDE DEF W
  <2> QED BY <1>1, <1>2, <1>3, <1>5, AssignMeans, <2>1, Zenon DEF ReadUid
<1> HIDE DEF W, token
<1>6. ReadAsShown(f, m, token, 24, W)
  BY <1>1, <1>5 DEF ReadAsShown
<1> QED BY <1>1, <1>3, <1>4, <1>6, CommissioningMessageTrip

LEMMA ClearTrip ==
    ASSUME NEW f \in Frame, NEW m \in ClearNode
    PROVE  f \in EncodeCommissioning(m) <=> m \in DecodeCommissioning(f)
<1> DEFINE p == f.payload
           V == <<<<0, LittleEndian(m.request)>>, <<8, m.uid>>>>
           W == V
           token == Token(m.uid, m.request)
<1>1. /\ m.kind = "CLEAR_NODE" /\ m.kind \in CommissioningKinds /\ m.requester \in RequesterId
      /\ 20 \in CanFdLengths
  BY DEF ClearNode, CommissioningKinds, CanFdLengths
<1>2. m = ClearRead(f) <=>
          /\ m.requester = Bits(f.id, "requester") /\ m.request = ReadLe(p, 0, 8)
          /\ m.uid = ReadUid(p, 8)
  BY DEF ClearNode, ClearRead
<1>3. /\ W \in Seq(Writes) /\ Laid(Range(W), 20)
      /\ Shows(p, Range(W), 20) <=>
            /\ m.request = ReadLe(p, 0, 8) /\ m.uid = Bytes(p, 8, 12)
  <2>1. W = V
    OBVIOUS
  <2> HIDE DEF W, p
  <2> QED BY <2>1, ClearLayout, Zenon
<1>4. CommissioningBody(m) = [token |-> token, len |-> 20, writes |-> W]
  <2>1. CommissioningBody(m) =
            [token |-> token, len |-> 20,
             writes |-> <<RequestId(m), <<8, m.uid>>>>
                          \o <<>>]
    BY <1>1 DEF CommissioningBody
  <2>2. <<RequestId(m), <<8, m.uid>>>> \o <<>> = W
    BY Concat2And0 DEF RequestId
  <2> HIDE DEF W
  <2> QED BY <2>1, <2>2
<1>5. ASSUME m.requester = Bits(f.id, "requester")
      PROVE  (Bits(f.id, "token") = token /\ Length(p) = 20 /\ Shows(p, Range(W), 20)) <=>
             \E args \in DecodeCommissioningBody(m.kind, TokenHeader(f.id), p) :
                m = CommissioningRequested(f, m.kind, args)
  <2> HIDE DEF W
  <2> QED BY <1>1, <1>2, <1>3, <1>5, ClearMeans, Zenon DEF ReadUid
<1> HIDE DEF W, token
<1>6. ReadAsShown(f, m, token, 20, W)
  BY <1>1, <1>5 DEF ReadAsShown
<1> QED BY <1>1, <1>3, <1>4, <1>6, CommissioningMessageTrip

LEMMA ResultTrip ==
    ASSUME NEW f \in Frame, NEW m \in CommissioningResult
    PROVE  f \in EncodeCommissioning(m) <=> m \in DecodeCommissioning(f)
<1> DEFINE p == f.payload
           V == <<<<0, LittleEndian(m.request)>>, <<8, m.uid>>, <<20, <<m.opcode>>>>, <<21,
               <<m.result>>>>,
                  <<22, <<NodeByte(m.node)>>>>, <<23, <<m.state>>>>>>
           W == V
           token == Token(m.uid, m.request)
<1>1. /\ m.kind = "COMMISSIONING_RESULT" /\ m.kind \in CommissioningKinds
             /\ m.requester \in RequesterId
      /\ 24 \in CanFdLengths
  BY DEF CommissioningResult, CommissioningKinds, CanFdLengths
<1>2. m = ResultRead(f) <=>
          /\ m.requester = Bits(f.id, "requester") /\ m.request = ReadLe(p, 0, 8)
          /\ m.uid = ReadUid(p, 8) /\ m.opcode = p[20] /\ m.result = p[21]
          /\ m.node = OptionalNode(p[22]) /\ m.state = p[23]
  BY DEF CommissioningResult, ResultRead
<1>3. /\ W \in Seq(Writes) /\ Laid(Range(W), 24)
      /\ Shows(p, Range(W), 24) <=>
            /\ m.request = ReadLe(p, 0, 8) /\ m.uid = Bytes(p, 8, 12) /\ p[20] = m.opcode
            /\ p[21] = m.result /\ p[22] = NodeByte(m.node) /\ p[23] = m.state
  <2>1. W = V
    OBVIOUS
  <2> HIDE DEF W, p
  <2> QED BY <2>1, ResultLayout, Zenon
<1>4. CommissioningBody(m) = [token |-> token, len |-> 24, writes |-> W]
  <2>1. CommissioningBody(m) =
            [token |-> token, len |-> 24,
             writes |-> <<RequestId(m), <<8, m.uid>>>>
                          \o <<<<20, <<m.opcode>>>>, <<21, <<m.result>>>>, <<22,
                              <<NodeByte(m.node)>>>>, <<23, <<m.state>>>>>>]
    BY <1>1 DEF CommissioningBody
  <2>2. <<RequestId(m), <<8, m.uid>>>> \o <<<<20, <<m.opcode>>>>, <<21, <<m.result>>>>, <<22,
            <<NodeByte(m.node)>>>>, <<23, <<m.state>>>>>> = W
    BY Concat2And4 DEF RequestId
  <2> HIDE DEF W
  <2> QED BY <2>1, <2>2, Zenon
<1>5. ASSUME m.requester = Bits(f.id, "requester")
      PROVE  (Bits(f.id, "token") = token /\ Length(p) = 24 /\ Shows(p, Range(W), 24)) <=>
             \E args \in DecodeCommissioningBody(m.kind, TokenHeader(f.id), p) :
                m = CommissioningRequested(f, m.kind, args)
  <2>1. m.result \in CommandResult /\ m.state \in CommissioningState
    BY DEF CommissioningResult, NodeId, ValidNodeId
  <2>2. ASSUME Length(p) = 24
        PROVE  /\ m.node = OptionalNode(p[22]) <=> p[22] = NodeByte(m.node)
               /\ NodeByte(m.node) = BROADCAST_NODE \/ ValidNodeId(NodeByte(m.node))
    <3>1. p[22] \in Byte
      BY <2>2, Payloaded DEF Buffer
    <3>2. m.node \in Option(NodeId)
      BY DEF CommissioningResult
    <3> HIDE DEF p
    <3> QED BY <3>1, <3>2, Nodes
  <2> HIDE DEF W
  <2> QED BY <1>1, <1>2, <1>3, <1>5, ResultMeans, <2>1, <2>2, Zenon DEF ReadUid
<1> HIDE DEF W, token
<1>6. ReadAsShown(f, m, token, 24, W)
  BY <1>1, <1>5 DEF ReadAsShown
<1> QED BY <1>1, <1>3, <1>4, <1>6, CommissioningMessageTrip

LEMMA Chained ==
    ASSUME NEW s \in Seq(Writes), NEW t \in Seq(Writes)
    PROVE  s \o t \in Seq(Writes) /\ Range(s \o t) = Range(s) \cup Range(t)
BY RangeConcatenation, ConcatProperties

(* The writes of a discovery response before and after those of its info. *)
ResponseHead(m) ==
    <<<<0, m.uid>>, <<12, <<NodeByte(m.node)>>>>, <<13, <<m.state>>>>, <<14, <<m.major>>>>,
      <<15, <<m.minor>>>>>>

ResponseTail(m) == <<<<48, LittleEndian(m.nonce)>>>>

LEMMA ResponseLayout ==
    ASSUME NEW m \in DiscoveryResponse, NEW p
    PROVE  \A W : W = ResponseHead(m) \o InfoWrites(m.info, 16) \o ResponseTail(m) =>
              /\ W \in Seq(Writes) /\ Laid(Range(W), 64)
              /\ Shows(p, Range(W), 64) <=>
                   /\ m.uid = Bytes(p, 0, 12) /\ p[12] = NodeByte(m.node) /\ p[13] = m.state
                   /\ p[14] = m.major /\ p[15] = m.minor /\ InfoBytes(p, 16, m.info)
                   /\ m.nonce = ReadLe(p, 48, 8) /\ Zero(p, 56, 64)
<1> DEFINE s == ResponseHead(m)
           i == InfoWrites(m.info, 16)
           t == ResponseTail(m)
           A == Range(s)
           B == A \cup Range(i)
<1>1. /\ s \in Seq(Writes) /\ Laid(A, 16)
      /\ Shows(p, A, 16) <=>
           /\ m.uid = Bytes(p, 0, 12) /\ p[12] = NodeByte(m.node) /\ p[13] = m.state
           /\ p[14] = m.major /\ p[15] = m.minor
  <2>1. s = <<<<0, m.uid>>, <<12, <<NodeByte(m.node)>>>>, <<13, <<m.state>>>>,
              <<14, <<m.major>>>>, <<15, <<m.minor>>>>>>
    BY DEF ResponseHead
  <2> HIDE DEF s
  <2> QED BY <2>1, ResponseStart, Zenon
<1> HIDE DEF s, A
<1>2. /\ i \in Seq(Writes) /\ Laid(B, 48)
      /\ Shows(p, B, 48) <=> Shows(p, A, 16) /\ InfoBytes(p, 16, m.info)
  <2>1. m.info \in NodeDescriptor /\ 16 \in Nat /\ 16 + 32 = 48
    BY DEF DiscoveryResponse
  <2>2. /\ i \in Seq(Writes) /\ Laid(B, 16 + 32)
        /\ Shows(p, B, 16 + 32) <=> Shows(p, A, 16) /\ InfoBytes(p, 16, m.info)
    BY <1>1, <2>1, InfoLaid, Zenon
  <2> QED BY <2>1, <2>2
<1> HIDE DEF i, B
<1>3. /\ t \in Seq(Writes) /\ Laid(B \cup Range(t), 64)
      /\ Shows(p, B \cup Range(t), 64) <=>
           Shows(p, B, 48) /\ m.nonce = ReadLe(p, 48, 8) /\ Zero(p, 56, 64)
  <2>1. t = <<<<48, LittleEndian(m.nonce)>>>>
    BY DEF ResponseTail
  <2> HIDE DEF t
  <2>2. \A w : w = <<<<48, LittleEndian(m.nonce)>>>> =>
            /\ w \in Seq(Writes) /\ Laid(B \cup Range(w), 64)
            /\ Shows(p, B \cup Range(w), 64) <=>
                  Shows(p, B, 48) /\ m.nonce = ReadLe(p, 48, 8) /\ Zero(p, 56, 64)
    BY <1>2, ResponseEnd, Zenon
  <2> QED BY <2>1, <2>2, Zenon
<1> HIDE DEF t
<1>4. s \o i \o t \in Seq(Writes) /\ Range(s \o i \o t) = B \cup Range(t)
  <2>1. s \o i \in Seq(Writes) /\ Range(s \o i) = B
    BY <1>1, <1>2, Chained DEF A, B
  <2> QED BY <1>3, <2>1, Chained, Zenon
<1>5. ASSUME NEW W, W = s \o i \o t
      PROVE  /\ W \in Seq(Writes) /\ Laid(Range(W), 64)
             /\ Shows(p, Range(W), 64) <=>
                   /\ m.uid = Bytes(p, 0, 12) /\ p[12] = NodeByte(m.node) /\ p[13] = m.state
                   /\ p[14] = m.major /\ p[15] = m.minor /\ InfoBytes(p, 16, m.info)
                   /\ m.nonce = ReadLe(p, 48, 8) /\ Zero(p, 56, 64)
  <2>1. W \in Seq(Writes) /\ Range(W) = B \cup Range(t)
    BY <1>4, <1>5
  <2> QED BY <1>1, <1>2, <1>3, <2>1
<1> QED BY <1>5, Zenon DEF s, i, t

LEMMA ResponseTrip ==
    ASSUME NEW f \in Frame, NEW m \in DiscoveryResponse
    PROVE  f \in EncodeCommissioning(m) <=> m \in DecodeCommissioning(f)
<1> DEFINE p == f.payload
           W == ResponseHead(m) \o InfoWrites(m.info, 16) \o ResponseTail(m)
           token == Token(m.uid, m.nonce)
<1>1. /\ m.kind = "DISCOVERY_RESPONSE" /\ m.kind \in CommissioningKinds
      /\ m.requester \in RequesterId /\ 64 \in CanFdLengths
  BY DEF DiscoveryResponse, CommissioningKinds, CanFdLengths
<1>2. \A info : m = ResponseRead(f, info) <=>
          /\ m.requester = Bits(f.id, "requester") /\ m.uid = ReadUid(p, 0)
          /\ m.node = OptionalNode(p[12]) /\ m.state = p[13] /\ m.major = p[14]
          /\ m.minor = p[15] /\ m.nonce = ReadLe(p, 48, 8) /\ m.info = info
  BY DEF DiscoveryResponse, ResponseRead
<1>3. /\ W \in Seq(Writes) /\ Laid(Range(W), 64)
      /\ Shows(p, Range(W), 64) <=>
            /\ m.uid = Bytes(p, 0, 12) /\ p[12] = NodeByte(m.node) /\ p[13] = m.state
            /\ p[14] = m.major /\ p[15] = m.minor /\ InfoBytes(p, 16, m.info)
            /\ m.nonce = ReadLe(p, 48, 8) /\ Zero(p, 56, 64)
  <2>1. W = ResponseHead(m) \o InfoWrites(m.info, 16) \o ResponseTail(m)
    OBVIOUS
  <2> HIDE DEF W, p
  <2> QED BY <2>1, ResponseLayout, Zenon
<1>4. CommissioningBody(m) = [token |-> token, len |-> 64, writes |-> W]
  BY <1>1 DEF CommissioningBody, ResponseHead, ResponseTail
<1>5. ASSUME m.requester = Bits(f.id, "requester")
      PROVE  (/\ m.kind = "DISCOVERY_RESPONSE" => ValidDescriptor(m.info)
              /\ Bits(f.id, "token") = token
              /\ Length(p) = 64 /\ Shows(p, Range(W), 64)) <=>
             \E args \in DecodeCommissioningBody(m.kind, TokenHeader(f.id), p) :
                m = CommissioningRequested(f, m.kind, args)
  <2>1. ASSUME Length(p) = 64
        PROVE  /\ m.node = OptionalNode(p[12]) <=> p[12] = NodeByte(m.node)
               /\ NodeByte(m.node) = BROADCAST_NODE \/ ValidNodeId(NodeByte(m.node))
               /\ m.info \in DecodeInfo(p, 16) <=>
                     ValidDescriptor(m.info) /\ InfoBytes(p, 16, m.info)
    <3>1. p \in Buffer(64)
      BY <2>1, Payloaded
    <3>2. p[12] \in Byte
      BY <3>1 DEF Buffer
    <3>3. m.node \in Option(NodeId) /\ m.info \in NodeDescriptor
      BY DEF DiscoveryResponse
    <3>4. 64 \in Nat /\ 16 \in Nat /\ 16 + 32 <= 64
      OBVIOUS
    <3> HIDE DEF p
    <3>5. m.info \in DecodeInfo(p, 16) <=> ValidDescriptor(m.info) /\ InfoBytes(p, 16, m.info)
      BY <3>1, <3>3, <3>4, Infos
    <3> QED BY <3>2, <3>3, <3>5, Nodes
  <2>2. m.state \in CommissioningState
    BY DEF DiscoveryResponse
  <2>3. (\E args \in DecodeCommissioningBody(m.kind, TokenHeader(f.id), p) :
            m = CommissioningRequested(f, m.kind, args)) <=>
              /\ Length(p) = 64 /\ Zero(p, 56, 64)
              /\ p[12] = BROADCAST_NODE \/ ValidNodeId(p[12])
              /\ Bits(f.id, "token") = Token(ReadUid(p, 0), ReadLe(p, 48, 8))
              /\ p[13] \in CommissioningState
              /\ \E info \in DecodeInfo(p, 16) : m = ResponseRead(f, info)
    <3>1. (\E args \in DecodeCommissioningBody("DISCOVERY_RESPONSE", TokenHeader(f.id), p) :
              m = CommissioningRequested(f, "DISCOVERY_RESPONSE", args)) <=>
                /\ Length(p) = 64 /\ Zero(p, 56, 64)
                /\ p[12] = BROADCAST_NODE \/ ValidNodeId(p[12])
                /\ Bits(f.id, "token") = Token(ReadUid(p, 0), ReadLe(p, 48, 8))
                /\ p[13] \in CommissioningState
                /\ \E info \in DecodeInfo(p, 16) : m = ResponseRead(f, info)
      BY ResponseMeans, SMTT(30)
    <3> HIDE DEF W, p
    <3> QED BY <1>1, <3>1
  <2>4. (\E info \in DecodeInfo(p, 16) : m = ResponseRead(f, info)) <=>
              /\ m.uid = ReadUid(p, 0)
              /\ m.node = OptionalNode(p[12]) /\ m.state = p[13] /\ m.major = p[14]
              /\ m.minor = p[15] /\ m.nonce = ReadLe(p, 48, 8) /\ m.info \in DecodeInfo(p, 16)
    BY <1>2, <1>5
  <2> HIDE DEF W, p
  <2> QED BY <1>1, <1>3, <2>1, <2>2, <2>3, <2>4 DEF ReadUid
<1> HIDE DEF W, token
<1>6. ReadAsShown(f, m, token, 64, W)
  BY <1>5 DEF ReadAsShown
<1>7. m.kind \in CommissioningKinds /\ m.requester \in RequesterId /\ 64 \in CanFdLengths
  BY <1>1
<1>8. W \in Seq(Writes) /\ Laid(Range(W), 64)
  BY <1>3
<1> QED BY <1>4, <1>6, <1>7, <1>8, CommissioningMessageTrip

LEMMA OptionalNodes ==
    ASSUME NEW b, b = BROADCAST_NODE \/ ValidNodeId(b)
    PROVE  OptionalNode(b) \in Option(NodeId)
BY DEF OptionalNode, Option, NodeId, ValidNodeId

(* What is decoded as a commissioning message is one. *)
LEMMA CommissioningTyped ==
    ASSUME NEW f \in Frame, NEW m \in DecodeCommissioning(f)
    PROVE  m \in CommissioningMessage
<1> DEFINE p == f.payload
           requester == Bits(f.id, "requester")
<1>1. PICK kind \in CommissioningKinds :
          \E args \in DecodeCommissioningBody(kind, TokenHeader(f.id), p) :
             m = CommissioningRequested(f, kind, args)
  BY CommissioningDecoded
<1>2. requester \in RequesterId
  BY Ranges DEF Frame, RequesterId
<1>3. CASE kind = "NODE_CLAIM"
  <2>1. /\ Length(p) = 16 /\ ValidNodeId(p[12]) /\ p[13] \in CommissioningState
        /\ m = ClaimRead(f)
    <3>1. \E args \in DecodeCommissioningBody("NODE_CLAIM", TokenHeader(f.id), p) :
              m = CommissioningRequested(f, "NODE_CLAIM", args)
      BY <1>1, <1>3
    <3> QED BY <3>1, ClaimMeans, Zenon
  <2>2. p \in Buffer(16)
    BY <2>1, Payloaded
  <2>3. /\ ReadUid(p, 0) \in Word(12) /\ ReadLe(p, 14, 2) \in Word(2)
    BY <2>2, Reads DEF ReadUid
  <2>4. m = [kind |-> "NODE_CLAIM", requester |-> requester, uid |-> ReadUid(p, 0),
              node |-> p[12], state |-> p[13], nonce |-> ReadLe(p, 14, 2)]
    BY <2>1 DEF ClaimRead
  <2> HIDE DEF p, requester
  <2>5. m \in NodeClaim
    BY <1>2, <2>1, <2>3, <2>4 DEF NodeClaim, NodeUid, RequestIds, NodeId, ValidNodeId
  <2> QED BY <2>5 DEF CommissioningMessage
<1>4. CASE kind = "DISCOVER"
  <2>1. /\ Length(p) = 8 /\ m = DiscoverRead(f)
    <3>1. \E args \in DecodeCommissioningBody("DISCOVER", TokenHeader(f.id), p) :
              m = CommissioningRequested(f, "DISCOVER", args)
      BY <1>1, <1>4
    <3> QED BY <3>1, DiscoverMeans
  <2>2. p \in Buffer(8)
    BY <2>1, Payloaded
  <2>3. /\ ReadLe(p, 0, 8) \in Word(8)
    BY <2>2, Reads DEF ReadUid
  <2>4. m = [kind |-> "DISCOVER", requester |-> requester, nonce |-> ReadLe(p, 0, 8)]
    BY <2>1 DEF DiscoverRead
  <2> HIDE DEF p, requester
  <2>5. m \in Discover
    BY <1>2, <2>1, <2>3, <2>4 DEF Discover, NodeUid, RequestIds, NodeId, ValidNodeId
  <2> QED BY <2>5 DEF CommissioningMessage
<1>5. CASE kind = "DISCOVERY_RESPONSE"
  <2>1. /\ Length(p) = 64 /\ (p[12] = BROADCAST_NODE \/ ValidNodeId(p[12]))
        /\ p[13] \in CommissioningState
        /\ \E info \in DecodeInfo(p, 16) : m = ResponseRead(f, info)
    <3>1. \E args \in DecodeCommissioningBody("DISCOVERY_RESPONSE", TokenHeader(f.id), p) :
              m = CommissioningRequested(f, "DISCOVERY_RESPONSE", args)
      BY <1>1, <1>5
    <3>2. (\E args \in DecodeCommissioningBody("DISCOVERY_RESPONSE", TokenHeader(f.id), p) :
              m = CommissioningRequested(f, "DISCOVERY_RESPONSE", args)) <=>
                /\ Length(p) = 64 /\ Zero(p, 56, 64)
                /\ p[12] = BROADCAST_NODE \/ ValidNodeId(p[12])
                /\ Bits(f.id, "token") = Token(ReadUid(p, 0), ReadLe(p, 48, 8))
                /\ p[13] \in CommissioningState
                /\ \E info \in DecodeInfo(p, 16) : m = ResponseRead(f, info)
      BY ResponseMeans
    <3> HIDE DEF p
    <3> QED BY <3>1, <3>2
  <2>2. p \in Buffer(64)
    BY <2>1, Payloaded
  <2>3. /\ ReadUid(p, 0) \in Word(12) /\ ReadLe(p, 48, 8) \in Word(8)
    BY <2>2, Reads DEF ReadUid
  <2>4. p[14] \in Byte /\ p[15] \in Byte
    BY <2>2 DEF Buffer
  <2>5. OptionalNode(p[12]) \in Option(NodeId)
    BY <2>1, OptionalNodes
  <2>6. DecodeInfo(p, 16) \subseteq NodeDescriptor
    <3>1. 64 \in Nat /\ 16 \in Nat /\ 16 + 32 <= 64
      OBVIOUS
    <3> HIDE DEF p
    <3> QED BY <2>2, <3>1, Infos
  <2>7. PICK info \in NodeDescriptor :
           m = [kind |-> "DISCOVERY_RESPONSE", requester |-> requester, uid |-> ReadUid(p, 0),
              node |-> OptionalNode(p[12]), state |-> p[13], major |-> p[14], minor |-> p[15],
              nonce |-> ReadLe(p, 48, 8), info |-> info]
    BY <2>1, <2>6 DEF ResponseRead
  <2> HIDE DEF p, requester
  <2>8. ReadUid(p, 0) \in NodeUid /\ p[13] \in CommissioningState
    BY <2>1, <2>3 DEF NodeUid, RequestIds
  <2> DEFINE a1 == ReadUid(p, 0)
             a2 == OptionalNode(p[12])
             a3 == p[13]
             a4 == p[14]
             a5 == p[15]
             a6 == ReadLe(p, 48, 8)
  <2>9. a1 \in NodeUid /\ a2 \in Option(NodeId) /\ a3 \in CommissioningState /\ a4 \in Byte
            /\ a5 \in Byte /\ a6 \in Word(8)
    BY <1>2, <2>3, <2>4, <2>5, <2>7, <2>8
  <2>10. m = [kind |-> "DISCOVERY_RESPONSE", requester |-> requester, uid |-> a1, node |-> a2,
               state |-> a3, major |-> a4, minor |-> a5, nonce |-> a6, info |-> info]
    BY <2>7
  <2> HIDE DEF a1, a2, a3, a4, a5, a6
  <2>11. m \in DiscoveryResponse
    BY <1>2, <2>9, <2>10 DEF DiscoveryResponse
  <2> QED BY <2>11 DEF CommissioningMessage
<1>6. CASE kind = "IDENTIFY"
  <2>1. /\ Length(p) = 24 /\ m = IdentifyRead(f)
    <3>1. \E args \in DecodeCommissioningBody("IDENTIFY", TokenHeader(f.id), p) :
              m = CommissioningRequested(f, "IDENTIFY", args)
      BY <1>1, <1>6
    <3> QED BY <3>1, IdentifyMeans
  <2>2. p \in Buffer(24)
    BY <2>1, Payloaded
  <2>3. /\ ReadLe(p, 0, 8) \in Word(8) /\ ReadUid(p, 8) \in Word(12)
        /\ ReadLe(p, 20, 2) \in Word(2)
    BY <2>2, Reads DEF ReadUid
  <2>4. m = [kind |-> "IDENTIFY", requester |-> requester, request |-> ReadLe(p, 0, 8),
              uid |-> ReadUid(p, 8), seconds |-> ReadLe(p, 20, 2)]
    BY <2>1 DEF IdentifyRead
  <2> HIDE DEF p, requester
  <2>5. m \in Identify
    BY <1>2, <2>1, <2>3, <2>4 DEF Identify, NodeUid, RequestIds, NodeId, ValidNodeId
  <2> QED BY <2>5 DEF CommissioningMessage
<1>7. CASE kind = "ASSIGN_NODE"
  <2>1. /\ Length(p) = 24 /\ ValidNodeId(p[20]) /\ m = AssignRead(f)
    <3>1. \E args \in DecodeCommissioningBody("ASSIGN_NODE", TokenHeader(f.id), p) :
              m = CommissioningRequested(f, "ASSIGN_NODE", args)
      BY <1>1, <1>7
    <3> QED BY <3>1, AssignMeans
  <2>2. p \in Buffer(24)
    BY <2>1, Payloaded
  <2>3. /\ ReadLe(p, 0, 8) \in Word(8) /\ ReadUid(p, 8) \in Word(12)
    BY <2>2, Reads DEF ReadUid
  <2>4. m = [kind |-> "ASSIGN_NODE", requester |-> requester, request |-> ReadLe(p, 0, 8),
              uid |-> ReadUid(p, 8), node |-> p[20]]
    BY <2>1 DEF AssignRead
  <2> HIDE DEF p, requester
  <2>5. m \in AssignNode
    BY <1>2, <2>1, <2>3, <2>4 DEF AssignNode, NodeUid, RequestIds, NodeId, ValidNodeId
  <2> QED BY <2>5 DEF CommissioningMessage
<1>8. CASE kind = "CLEAR_NODE"
  <2>1. /\ Length(p) = 20 /\ m = ClearRead(f)
    <3>1. \E args \in DecodeCommissioningBody("CLEAR_NODE", TokenHeader(f.id), p) :
              m = CommissioningRequested(f, "CLEAR_NODE", args)
      BY <1>1, <1>8
    <3> QED BY <3>1, ClearMeans, Zenon
  <2>2. p \in Buffer(20)
    BY <2>1, Payloaded
  <2>3. /\ ReadLe(p, 0, 8) \in Word(8) /\ ReadUid(p, 8) \in Word(12)
    BY <2>2, Reads DEF ReadUid
  <2>4. m = [kind |-> "CLEAR_NODE", requester |-> requester, request |-> ReadLe(p, 0, 8),
              uid |-> ReadUid(p, 8)]
    BY <2>1 DEF ClearRead
  <2> HIDE DEF p, requester
  <2>5. m \in ClearNode
    BY <1>2, <2>1, <2>3, <2>4 DEF ClearNode, NodeUid, RequestIds, NodeId, ValidNodeId
  <2> QED BY <2>5 DEF CommissioningMessage
<1>9. CASE kind = "COMMISSIONING_RESULT"
  <2>1. /\ Length(p) = 24 /\ p[21] \in CommandResult
        /\ (p[22] = BROADCAST_NODE \/ ValidNodeId(p[22])) /\ p[23] \in CommissioningState
        /\ m = ResultRead(f)
    <3>1. \E args \in DecodeCommissioningBody("COMMISSIONING_RESULT", TokenHeader(f.id), p) :
              m = CommissioningRequested(f, "COMMISSIONING_RESULT", args)
      BY <1>1, <1>9
    <3> QED BY <3>1, ResultMeans
  <2>2. p \in Buffer(24)
    BY <2>1, Payloaded
  <2>3. /\ ReadLe(p, 0, 8) \in Word(8) /\ ReadUid(p, 8) \in Word(12)
    BY <2>2, Reads DEF ReadUid
  <2>4. p[20] \in Byte
    BY <2>2 DEF Buffer
  <2>5. OptionalNode(p[22]) \in Option(NodeId)
    BY <2>1, OptionalNodes
  <2>6. m = [kind |-> "COMMISSIONING_RESULT", requester |-> requester,
              request |-> ReadLe(p, 0, 8), uid |-> ReadUid(p, 8), opcode |-> p[20],
              result |-> p[21], node |-> OptionalNode(p[22]), state |-> p[23]]
    BY <2>1 DEF ResultRead
  <2> HIDE DEF p, requester
  <2>7. ReadLe(p, 0, 8) \in RequestIds /\ ReadUid(p, 8) \in NodeUid /\ p[21] \in CommandResult
            /\ p[23] \in CommissioningState
    BY <2>1, <2>3 DEF NodeUid, RequestIds
  <2> DEFINE a1 == ReadLe(p, 0, 8)
             a2 == ReadUid(p, 8)
             a3 == p[20]
             a4 == p[21]
             a5 == OptionalNode(p[22])
             a6 == p[23]
  <2>8. a1 \in RequestIds /\ a2 \in NodeUid /\ a3 \in Byte /\ a4 \in CommandResult
            /\ a5 \in Option(NodeId) /\ a6 \in CommissioningState
    BY <1>2, <2>3, <2>4, <2>5, <2>6, <2>7
  <2>9. m = [kind |-> "COMMISSIONING_RESULT", requester |-> requester, request |-> a1,
               uid |-> a2, opcode |-> a3, result |-> a4, node |-> a5, state |-> a6]
    BY <2>6
  <2> HIDE DEF a1, a2, a3, a4, a5, a6
  <2>10. m \in CommissioningResult
    BY <1>2, <2>8, <2>9 DEF CommissioningResult
  <2> QED BY <2>10 DEF CommissioningMessage
<1> QED BY <1>1, <1>3, <1>4, <1>5, <1>6, <1>7, <1>8, <1>9 DEF CommissioningKinds

LEMMA CommissioningTrip ==
    ASSUME NEW f \in Frame
    PROVE  /\ DecodeCommissioning(f) \subseteq CommissioningMessage
           /\ \A m \in CommissioningMessage :
                 f \in EncodeCommissioning(m) <=> m \in DecodeCommissioning(f)
BY CommissioningTyped, ClaimTrip, DiscoverTrip, ResponseTrip, IdentifyTrip, AssignTrip, ClearTrip,
   ResultTrip DEF CommissioningMessage

-----------------------------------------------------------------------------
(* Encoders make one legal frame, or none. *)

(* What an encoder may return: at most one frame, and a legal one. *)
Sent(S) == S \subseteq Frame /\ \A f, g \in S : f = g

LEMMA NoneSent == Sent({})
BY DEF Sent

(* Writes of bytes make a payload of bytes, wherever they go. *)
LEMMA Filled ==
    ASSUME NEW n \in Nat, NEW writes \in Seq(Writes)
    PROVE  Payload(n, writes) \in Buffer(n)
<1> DEFINE Hits(i) == {k \in DOMAIN writes : i - writes[k][1] \in 0 .. Len(writes[k][2]) - 1}
<1>1. DOMAIN writes = 1 .. Len(writes) /\ Len(writes) \in Nat
  BY LenProperties
<1>2. ASSUME NEW i \in 0 .. n - 1 PROVE Payload(n, writes)[i] \in Byte
  <2>1. CASE Hits(i) = {}
    <3>1. Payload(n, writes)[i] = 0
      BY <2>1 DEF Payload
    <3> QED BY <3>1, SMTT(30) DEF Byte
  <2>2. CASE Hits(i) # {}
    <3> DEFINE k == Max(Hits(i))
               w == writes[k]
    <3>1. Hits(i) \subseteq 0 .. Len(writes)
      BY <1>1
    <3>2. k \in Hits(i)
      <4> HIDE DEF Hits
      <4> QED BY <1>1, <2>2, <3>1, Greatest, Zenon
    <3>3. Payload(n, writes)[i] = w[2][i - w[1] + 1]
      BY <2>2 DEF Payload
    <3>4. k \in DOMAIN writes /\ i - w[1] \in 0 .. Len(w[2]) - 1
      BY <3>2
    <3> HIDE DEF k, Hits
    <3>5. w \in Writes
      BY <1>1, <3>4
    <3> HIDE DEF w
    <3>6. w[1] \in Nat /\ w[2] \in Seq(Byte)
      BY <3>5 DEF Writes
    <3>7. PICK l \in Nat, a \in Nat : l = Len(w[2]) /\ a = w[1]
      BY <3>6, LenProperties
    <3>8. i - a + 1 \in 1 .. l
      <4>1. i - a \in 0 .. l - 1 /\ i \in Int
        BY <3>4, <3>7
      <4> QED BY <4>1
    <3>9. w[2] \in [1 .. l -> Byte]
      BY <3>6, <3>7, LenProperties, SMTT(30)
    <3> QED BY <3>3, <3>7, <3>8, <3>9, Zenon
  <2> QED BY <2>1, <2>2
<1>3. Payload(n, writes) = [i \in 0 .. n - 1 |-> Payload(n, writes)[i]]
  BY DEF Payload
<1> QED BY <1>2, <1>3 DEF Buffer

LEMMA LegalPayload ==
    ASSUME NEW n \in CanFdLengths, NEW writes \in Seq(Writes), NEW id \in Identifier
    PROVE  [id |-> id, payload |-> Payload(n, writes)] \in Frame
<1>1. n \in Nat
  BY DEF CanFdLengths
<1>2. Payload(n, writes) \in Buffer(n)
  BY <1>1, Filled
<1> QED BY <1>2 DEF Frame

(* The fields of a header that fits make a 29-bit identifier. *)
LEMMA LegalIdentifiers ==
    ASSUME NEW a \in 0 .. 7, NEW b \in 0 .. 15, NEW e \in 0 .. 15, NEW g \in 0 .. 63
    PROVE  /\ \A c \in 0 .. 255, d \in 0 .. 15 :
                 InPlace("priority", a) + InPlace("class", b) + InPlace("node", c)
                     + InPlace("target", d) + InPlace("requester", e) + InPlace("opcode", g)
                   \in Identifier
           /\ \A c \in Tokens :
                 InPlace("priority", a) + InPlace("class", b) + InPlace("token", c)
                     + InPlace("requester", e) + InPlace("opcode", g) \in Identifier
<1>1. /\ a \in Nat /\ a < 8 /\ b \in Nat /\ b < 16 /\ e \in Nat /\ e < 16 /\ g \in Nat /\ g < 64
  OBVIOUS
<1>2. /\ InPlace("priority", a) = 67108864 * a /\ InPlace("class", b) = 4194304 * b
      /\ InPlace("requester", e) = 64 * e /\ InPlace("opcode", g) = g
  BY <1>1, Places, SMT
<1>3. ASSUME NEW c \in 0 .. 255, NEW d \in 0 .. 15
      PROVE  InPlace("priority", a) + InPlace("class", b) + InPlace("node", c)
                 + InPlace("target", d) + InPlace("requester", e) + InPlace("opcode", g)
               \in Identifier
  <2>1. c \in Nat /\ c < 256 /\ d \in Nat /\ d < 16
    OBVIOUS
  <2>2. InPlace("node", c) = 16384 * c /\ InPlace("target", d) = 1024 * d
    BY <2>1, Places, SMT
  <2> QED BY <1>1, <1>2, <2>1, <2>2, SMT DEF Identifier
<1>4. ASSUME NEW c \in Tokens
      PROVE  InPlace("priority", a) + InPlace("class", b) + InPlace("token", c)
                 + InPlace("requester", e) + InPlace("opcode", g) \in Identifier
  <2>1. c \in Nat /\ c < 4096
    BY SMT DEF Tokens
  <2>2. InPlace("token", c) = 1024 * c
    BY <2>1, Places, SMT
  <2> QED BY <1>1, <1>2, <2>1, <2>2, SMT DEF Identifier
<1> QED BY <1>3, <1>4, Zenon

LEMMA LegalHeaders ==
    ASSUME NEW h, DOMAIN h = HeaderFields, Fits(h)
    PROVE  HeaderEncode(h) \in Identifier
<1>1. /\ h.priority \in 0 .. 7 /\ h.class \in 0 .. 15 /\ h.node \in 0 .. 255
      /\ h.target \in 0 .. 15 /\ h.requester \in 0 .. 15 /\ h.opcode \in 0 .. 63
  BY FitsMeans
<1>2. PICK a \in 0 .. 7, b \in 0 .. 15, c \in 0 .. 255, d \in 0 .. 15, e \in 0 .. 15,
          g \in 0 .. 63 :
        /\ a = h.priority /\ b = h.class /\ c = h.node /\ d = h.target
        /\ e = h.requester /\ g = h.opcode
  BY <1>1, Zenon
<1> QED BY <1>2, LegalIdentifiers, ZenonT(40) DEF HeaderEncode

LEMMA LegalTokenHeaders ==
    ASSUME NEW h, DOMAIN h = TokenFields, Fits(h)
    PROVE  CommissioningHeaderEncode(h) \in Identifier
<1>1. /\ h.priority \in 0 .. 7 /\ h.class \in 0 .. 15 /\ h.token \in Tokens
      /\ h.requester \in 0 .. 15 /\ h.opcode \in 0 .. 63
  BY TokenFitsMeans
<1>2. PICK a \in 0 .. 7, b \in 0 .. 15, c \in Tokens, e \in 0 .. 15, g \in 0 .. 63 :
        /\ a = h.priority /\ b = h.class /\ c = h.token /\ e = h.requester /\ g = h.opcode
  BY <1>1, Zenon
<1> QED BY <1>2, LegalIdentifiers, ZenonT(40) DEF CommissioningHeaderEncode

LEMMA HeaderSent ==
    ASSUME NEW h, DOMAIN h = HeaderFields, NEW len, NEW writes \in Seq(Writes)
    PROVE  Sent(Framed(h, len, writes))
<1>1. Framed(h, len, writes) \subseteq
          {x \in {[id |-> HeaderEncode(h), payload |-> Payload(len, writes)]} :
              Fits(h) /\ len \in CanFdLengths}
  BY DEF Framed, HeaderNew, When
<1>2. ASSUME Fits(h), len \in CanFdLengths
      PROVE  [id |-> HeaderEncode(h), payload |-> Payload(len, writes)] \in Frame
  <2>1. HeaderEncode(h) \in Identifier
    BY <1>2, LegalHeaders
  <2> QED BY <1>2, <2>1, LegalPayload
<1> QED BY <1>1, <1>2 DEF Sent

LEMMA ScopedSent ==
    ASSUME NEW priority, NEW class, NEW node, NEW target, NEW requester, NEW opcode, NEW len,
           NEW writes \in Seq(Writes)
    PROVE  Sent(Framed([priority |-> priority, class |-> class, node |-> node,
                        target |-> target, requester |-> requester, opcode |-> opcode],
                       len, writes))
<1> DEFINE h == [priority |-> priority, class |-> class, node |-> node,
                 target |-> target, requester |-> requester, opcode |-> opcode]
<1>1. DOMAIN h = HeaderFields
  BY DEF HeaderFields
<1> HIDE DEF h
<1>2. Sent(Framed(h, len, writes))
  BY <1>1, HeaderSent
<1> QED BY <1>2 DEF h

LEMMA NodeSent ==
    ASSUME NEW priority, NEW class, NEW node, NEW target, NEW opcode, NEW len,
           NEW writes \in Seq(Writes)
    PROVE  Sent(Framed(ProtocolHeader(priority, class, node, target, opcode), len, writes))
BY ScopedSent DEF ProtocolHeader

LEMMA TokenSent ==
    ASSUME NEW token, NEW requester, NEW opcode, NEW len \in CanFdLengths,
           NEW writes \in Seq(Writes)
    PROVE  Sent(TokenFrames(token, requester, opcode, len, writes))
<1> DEFINE h == [priority |-> 6, class |-> MessageClass.commissioning,
                 token |-> token, requester |-> requester, opcode |-> opcode]
<1>1. DOMAIN h = TokenFields
  BY DEF TokenFields
<1>2. TokenFrames(token, requester, opcode, len, writes) \subseteq
          {x \in {[id |-> CommissioningHeaderEncode(h), payload |-> Payload(len,
              writes)]} : Fits(h)}
  BY DEF TokenFrames, CommissioningHeaderNew, When
<1> HIDE DEF h
<1>3. ASSUME Fits(h)
      PROVE  [id |-> CommissioningHeaderEncode(h), payload |-> Payload(len, writes)] \in Frame
  <2>1. CommissioningHeaderEncode(h) \in Identifier
    BY <1>1, <1>3, LegalTokenHeaders
  <2> QED BY <2>1, LegalPayload
<1> QED BY <1>2, <1>3 DEF Sent

(* The writes the encoders make are of bytes. *)
LEMMA WordWrites ==
    ASSUME NEW o \in Nat, NEW n \in Nat, NEW v \in Word(n)
    PROVE  <<o, LittleEndian(v)>> \in Writes /\ <<o, v>> \in Writes
BY LittleEndians, Words DEF Writes

LEMMA ByteWrites == ASSUME NEW o \in Nat, NEW b \in Byte PROVE <<o, <<b>>>> \in Writes
BY Single1, Zenon DEF Writes

LEMMA VersionWrites ==
    ASSUME NEW o \in Nat, NEW v \in FirmwareVersion PROVE <<o, Version(v)>> \in Writes
BY Versions DEF Writes

LEMMA HeartbeatSent == \A m \in Heartbeat : Sent(EncodeHeartbeat(m))
<1> SUFFICES ASSUME NEW m \in Heartbeat PROVE Sent(EncodeHeartbeat(m))
  OBVIOUS
<1> DEFINE writes == <<<<0, LittleEndian(m.sequence)>>, <<2, <<m.service>>>>, <<3, <<m.update>>>>,
                       <<4, LittleEndian(m.faults)>>, <<8, LittleEndian(m.uptime)>>>>
           header == ProtocolHeader(5, "management", m.node, NODE_TARGET, Opcode.HEARTBEAT)
<1>1. writes \in Seq(Writes)
  BY HeartbeatLayout, Zenon
<1>2. EncodeHeartbeat(m) \in {{}, Framed(header, 16, writes)}
  BY DEF EncodeHeartbeat
<1> HIDE DEF writes
<1>3. Sent(Framed(header, 16, writes))
  BY <1>1, NodeSent, Zenon
<1> QED BY <1>2, <1>3, NoneSent

LEMMA PowerSent == \A m \in PowerTelemetry : Sent(EncodePower(m))
<1> SUFFICES ASSUME NEW m \in PowerTelemetry PROVE Sent(EncodePower(m))
  OBVIOUS
<1> DEFINE writes == <<<<0, LittleEndian(m.sequence)>>, <<2, <<m.source>>>>,
                       <<4, LittleEndian(m.voltage)>>, <<8, LittleEndian(m.current)>>,
                       <<12, LittleEndian(m.power)>>>>
           header == ProtocolHeader(4, "telemetry", m.node, NODE_TARGET, Opcode.POWER)
<1>1. writes \in Seq(Writes)
  BY PowerLayout, Zenon
<1>2. EncodePower(m) \in {{}, Framed(header, 16, writes)}
  BY DEF EncodePower
<1> HIDE DEF writes
<1>3. Sent(Framed(header, 16, writes))
  BY <1>1, NodeSent, Zenon
<1> QED BY <1>2, <1>3, NoneSent

LEMMA FanStateSent == \A m \in FanState : Sent(EncodeFanState(m))
<1> SUFFICES ASSUME NEW m \in FanState PROVE Sent(EncodeFanState(m))
  OBVIOUS
<1> DEFINE writes == <<<<0, LittleEndian(m.sequence)>>, <<2, <<m.duty>>>>,
                       <<3, <<Flag(m.stalled)>>>>, <<4, LittleEndian(m.rpm)>>>>
           header == ProtocolHeader(3, "state", m.node, m.fan, Opcode.FAN_STATE)
<1>1. writes \in Seq(Writes)
  BY FanStateLayout, Zenon
<1>2. EncodeFanState(m) \in {{}, Framed(header, 12, writes)}
  BY DEF EncodeFanState
<1> HIDE DEF writes
<1>3. Sent(Framed(header, 12, writes))
  BY <1>1, NodeSent, Zenon
<1> QED BY <1>2, <1>3, NoneSent

LEMMA NodeStateSent == \A m \in NodeState : Sent(EncodeNodeState(m))
<1> SUFFICES ASSUME NEW m \in NodeState PROVE Sent(EncodeNodeState(m))
  OBVIOUS
<1> DEFINE writes == <<<<0, LittleEndian(m.sequence)>>, <<2, <<m.service>>>>,
                       <<3, <<Flags(m)>>>>,
                       <<4, LittleEndian(m.faults)>>, <<8, LittleEndian(m.uptime)>>>>
           header == ProtocolHeader(3, "state", m.node, NODE_TARGET, Opcode.NODE_STATE)
<1>1. writes \in Seq(Writes)
  BY NodeStateLayout, Zenon
<1>2. EncodeNodeState(m) \in {{}, Framed(header, 16, writes)}
  BY DEF EncodeNodeState, Flags
<1> HIDE DEF writes
<1>3. Sent(Framed(header, 16, writes))
  BY <1>1, NodeSent, Zenon
<1> QED BY <1>2, <1>3, NoneSent

LEMMA CommandResponseSent == \A m \in CommandResponse : Sent(EncodeCommandResponse(m))
<1> SUFFICES ASSUME NEW m \in CommandResponse PROVE Sent(EncodeCommandResponse(m))
  OBVIOUS
<1> DEFINE writes == <<<<0, LittleEndian(m.request)>>, <<8, <<m.opcode>>>>, <<9, <<m.target>>>>,
                       <<10, <<m.result>>>>, <<12, LittleEndian(m.detail)>>>>
           header == [priority |-> 2, class |-> MessageClass.response, node |-> m.node,
                      target |-> NODE_TARGET, requester |-> m.requester,
                      opcode |-> Opcode.COMMAND_RESPONSE]
<1>1. writes \in Seq(Writes)
  BY CommandResponseLayout, Zenon
<1>2. EncodeCommandResponse(m) \in {{}, Framed(header, 16, writes)}
  BY DEF EncodeCommandResponse, RequestId
<1> HIDE DEF writes
<1>3. Sent(Framed(header, 16, writes))
  BY <1>1, ScopedSent, Zenon
<1> QED BY <1>2, <1>3, NoneSent

LEMMA FirmwareAckSent == \A m \in FirmwareAck : Sent(EncodeFirmwareAck(m))
<1> SUFFICES ASSUME NEW m \in FirmwareAck PROVE Sent(EncodeFirmwareAck(m))
  OBVIOUS
<1> DEFINE writes == <<<<0, LittleEndian(m.request)>>, <<8, LittleEndian(m.session)>>,
                       <<12, LittleEndian(m.next)>>, <<16, <<m.state>>>>, <<17, <<m.error>>>>,
                       <<18, <<m.window>>>>, <<20, LittleEndian(m.detail)>>>>
           header == [priority |-> 5, class |-> MessageClass.firmware, node |-> m.node,
                      target |-> NODE_TARGET, requester |-> m.requester,
                      opcode |-> Opcode.FW_ACK]
<1>1. writes \in Seq(Writes)
  BY FirmwareAckLayout, Zenon
<1>2. EncodeFirmwareAck(m) \in {{}, Framed(header, 24, writes)}
  BY DEF EncodeFirmwareAck, RequestId
<1> HIDE DEF writes
<1>3. Sent(Framed(header, 24, writes))
  BY <1>1, ScopedSent, Zenon
<1> QED BY <1>2, <1>3, NoneSent

LEMMA InfosAreWritten ==
    ASSUME NEW d \in NodeDescriptor, NEW o \in Nat
    PROVE  InfoWrites(d, o) \in Seq(Writes)
<1>1. Laid({}, o)
  BY Blank
<1> QED BY <1>1, InfoLaid, Zenon

LEMMA TemperatureSent == \A m \in TemperatureTelemetry : Sent(EncodeTemperature(m))
<1> SUFFICES ASSUME NEW m \in TemperatureTelemetry PROVE Sent(EncodeTemperature(m))
  OBVIOUS
<1> DEFINE a == <<0, LittleEndian(m.sequence)>>
           b == <<2, <<m.source>>>>
           c == <<3, <<m.status>>>>
           d == <<8, LittleEndian(m.identifier)>>
           s == <<a, b, c, d>>
           t == IF m.centi = NONE THEN <<>> ELSE <<<<4, LittleEndian(m.centi)>>>>
           header == ProtocolHeader(4, "telemetry", m.node, NODE_TARGET, Opcode.TEMPERATURE)
<1>1. /\ m.sequence \in Word(2) /\ m.source \in Byte /\ m.status \in Byte
      /\ m.identifier \in Word(8) /\ (m.centi = NONE \/ m.centi \in Word(2))
  BY DEF TemperatureTelemetry, Byte, DIE_SENSORS, ONE_WIRE, MEASURED, UNMEASURED, Option
<1>2. a \in Writes /\ b \in Writes /\ c \in Writes /\ d \in Writes
  BY <1>1, WordWrites, ByteWrites, Zenon
<1>3. t \in Seq(Writes)
  <2>1. CASE m.centi = NONE
    BY <2>1
  <2>2. CASE m.centi # NONE
    <3>1. <<4, LittleEndian(m.centi)>> \in Writes
      BY <1>1, <2>2, WordWrites, Zenon
    <3> QED BY <2>2, <3>1
  <2> QED BY <2>1, <2>2
<1>4. EncodeTemperature(m) \in {{}, Framed(header, 16, s \o t)}
  BY DEF EncodeTemperature
<1> HIDE DEF a, b, c, d, t
<1>5. s \in Seq(Writes)
  BY <1>2
<1> HIDE DEF s
<1>6. Sent(Framed(header, 16, s \o t))
  BY <1>3, <1>5, Chained, NodeSent, Zenon
<1> QED BY <1>4, <1>6, NoneSent

LEMMA BindingSent == \A m \in BindingInfo : Sent(EncodeBinding(m))
<1> SUFFICES ASSUME NEW m \in BindingInfo PROVE Sent(EncodeBinding(m))
  OBVIOUS
<1> DEFINE t == IF m.binding = NONE THEN <<<<1, <<255>>>>>>
                ELSE <<<<0, <<1>>>>, <<1, <<m.binding.slot>>>>, <<4, m.binding.uid>>>>
           header == ProtocolHeader(5, "management", m.node, NODE_TARGET, Opcode.BINDING)
<1>1. t \in Seq(Writes)
  <2>1. CASE m.binding = NONE
    <3>1. 255 \in Byte
      BY DEF Byte
    <3>2. <<1, <<255>>>> \in Writes
      BY <3>1, ByteWrites
    <3> QED BY <2>1, <3>2
  <2>2. CASE m.binding # NONE
    <3> DEFINE a == <<0, <<1>>>>
               b == <<1, <<m.binding.slot>>>>
               c == <<4, m.binding.uid>>
    <3>1. 1 \in Byte /\ m.binding.slot \in Byte /\ m.binding.uid \in Word(12)
      BY <2>2 DEF BindingInfo, Option, CarrierBinding, Slot, NodeUid, Byte
    <3>2. a \in Writes /\ b \in Writes /\ c \in Writes
      BY <3>1, WordWrites, ByteWrites, Zenon
    <3>3. t = <<a, b, c>>
      BY <2>2
    <3> HIDE DEF a, b, c, t
    <3> QED BY <3>2, <3>3
  <2> QED BY <2>1, <2>2
<1>2. EncodeBinding(m) \in {{}, Framed(header, 16, t)}
  BY DEF EncodeBinding
<1> HIDE DEF t
<1>3. Sent(Framed(header, 16, t))
  BY <1>1, NodeSent
<1> QED BY <1>2, <1>3, NoneSent

LEMMA NodeInfoSent == \A m \in NodeInfo : Sent(EncodeNodeInfo(m))
<1> SUFFICES ASSUME NEW m \in NodeInfo PROVE Sent(EncodeNodeInfo(m))
  OBVIOUS
<1> DEFINE header == ProtocolHeader(5, "management", m.node, NODE_TARGET, Opcode.NODE_INFO)
<1>1. EncodeNodeInfo(m) \in {{}, Framed(header, 32, InfoWrites(m.info, 0))}
  BY DEF EncodeNodeInfo
<1>2. InfoWrites(m.info, 0) \in Seq(Writes)
  BY InfosAreWritten DEF NodeInfo
<1>3. Sent(Framed(header, 32, InfoWrites(m.info, 0)))
  BY <1>2, NodeSent
<1> QED BY <1>1, <1>3, NoneSent

LEMMA FirmwareStatusSent == \A m \in FirmwareStatus : Sent(EncodeFirmwareStatus(m))
<1> SUFFICES ASSUME NEW m \in FirmwareStatus PROVE Sent(EncodeFirmwareStatus(m))
  OBVIOUS
<1> DEFINE bare == BareStatus(m)
           rest == IF m.staged = NONE THEN <<>> ELSE <<<<18, Version(m.staged)>>>>
           header == [priority |-> 5, class |-> MessageClass.firmware, node |-> m.node,
                      target |-> NODE_TARGET, requester |-> m.requester,
                      opcode |-> Opcode.FW_STATUS_RESPONSE]
<1>1. bare \in Seq(Writes)
  BY NoneStagedLayout, Zenon
<1>2. rest \in Seq(Writes)
  <2>1. CASE m.staged = NONE
    BY <2>1
  <2>2. CASE m.staged # NONE
    <3>1. <<18, Version(m.staged)>> \in Writes
      BY <2>2, VersionWrites DEF FirmwareStatus, Option
    <3> QED BY <2>2, <3>1
  <2> QED BY <2>1, <2>2
<1>3. EncodeFirmwareStatus(m) \in {{}, Framed(header, 64, bare \o rest)}
  BY DEF EncodeFirmwareStatus, RequestId, BareStatus
<1> HIDE DEF bare, rest
<1>4. Sent(Framed(header, 64, bare \o rest))
  BY <1>1, <1>2, Chained, ScopedSent, Zenon
<1> QED BY <1>3, <1>4, NoneSent

LEMMA RequestWrites ==
    ASSUME NEW m, m.request \in RequestIds
    PROVE  RequestId(m) \in Writes
BY WordWrites, Zenon DEF RequestId, RequestIds

LEMMA ControlIsWritten == \A m \in ControlRequest : ControlWrites(m) \in Seq(Writes)
<1> SUFFICES ASSUME NEW m \in ControlRequest PROVE ControlWrites(m) \in Seq(Writes)
  OBVIOUS
<1>1. CASE m \in PlainCommand
  <2>1. ControlWrites(m) = <<>>
    BY <1>1 DEF ControlWrites, PlainCommand
  <2> QED BY <2>1
<1>2. CASE m \in SetFan
  <2>1. m.duty \in Byte /\ ControlWrites(m) = <<<<8, <<m.duty>>>>>>
    BY <1>2 DEF ControlWrites, SetFan
  <2>2. <<8, <<m.duty>>>> \in Writes
    BY <2>1, ByteWrites
  <2> QED BY <2>1, <2>2
<1>3. CASE m \in SetBinding
  <2> DEFINE a == <<8, <<1>>>>
             b == <<9, <<m.binding.slot>>>>
             c == <<12, m.binding.uid>>
             d == <<9, <<255>>>>
  <2>1. 1 \in Byte /\ 255 \in Byte
    BY DEF Byte
  <2>2. d \in Writes /\ a \in Writes
    BY <2>1, ByteWrites
  <2>3. CASE m.binding = NONE
    <3>1. ControlWrites(m) = <<d>>
      BY <1>3, <2>3 DEF ControlWrites, SetBinding
    <3> HIDE DEF d
    <3> QED BY <2>2, <3>1
  <2>4. CASE m.binding # NONE
    <3>1. m.binding.slot \in Byte /\ m.binding.uid \in Word(12)
      BY <1>3, <2>4 DEF SetBinding, Option, CarrierBinding, Slot, NodeUid, Byte
    <3>2. b \in Writes /\ c \in Writes
      BY <3>1, WordWrites, ByteWrites, Zenon
    <3>3. ControlWrites(m) = <<a, b, c>>
      BY <1>3, <2>4 DEF ControlWrites, SetBinding
    <3> HIDE DEF a, b, c
    <3> QED BY <2>2, <3>2, <3>3
  <2> QED BY <2>3, <2>4
<1>4. CASE m \in SetCarrierPolicy
  <2> DEFINE a == <<8, <<Flag(m.enabled)>>>>
             b == <<9, <<1>>>>
             c == <<12, LittleEndian(m.limits.voltage)>>
             d == <<16, LittleEndian(m.limits.current)>>
             e == <<20, LittleEndian(m.limits.power)>>
             t == IF m.limits = NONE THEN <<>> ELSE <<b, c, d, e>>
  <2>1. Flag(m.enabled) \in Byte /\ 1 \in Byte
    BY DEF Flag, Byte
  <2>2. a \in Writes /\ b \in Writes
    BY <2>1, ByteWrites
  <2>3. t \in Seq(Writes)
    <3>1. CASE m.limits = NONE
      BY <3>1
    <3>2. CASE m.limits # NONE
      <4>1. /\ m.limits.voltage \in Word(4) /\ m.limits.current \in Word(4)
            /\ m.limits.power \in Word(4)
        BY <1>4, <3>2 DEF SetCarrierPolicy, Option, PdLimits
      <4>2. c \in Writes /\ d \in Writes /\ e \in Writes
        BY <4>1, WordWrites, Zenon
      <4>3. t = <<b, c, d, e>>
        BY <3>2
      <4> HIDE DEF b, c, d, e, t
      <4> QED BY <2>2, <4>2, <4>3
    <3> QED BY <3>1, <3>2
  <2>4. ControlWrites(m) = <<a>> \o t
    BY <1>4 DEF ControlWrites, SetCarrierPolicy
  <2> HIDE DEF a, t
  <2>5. <<a>> \in Seq(Writes)
    BY <2>2
  <2> QED BY <2>3, <2>4, <2>5, Chained
<1> QED BY <1>1, <1>2, <1>3, <1>4 DEF ControlRequest

LEMMA ControlSent == \A m \in ControlRequest : Sent(EncodeControlRequest(m))
<1> SUFFICES ASSUME NEW m \in ControlRequest PROVE Sent(EncodeControlRequest(m))
  OBVIOUS
<1> DEFINE header == [priority |-> Flag(~(m.kind = "EMERGENCY_DISABLE")),
                      class |-> MessageClass.control,
                      node |-> m.node, requester |-> m.requester,
                      target |-> IF m.kind = "SET_FAN" THEN m.fan ELSE NODE_TARGET,
                      opcode |-> Opcode[m.kind]]
           writes == <<RequestId(m)>> \o ControlWrites(m)
<1>1. EncodeControlRequest(m) \in {{}, Framed(header, ControlLength(m.kind), writes)}
  BY DEF EncodeControlRequest
<1>2. DOMAIN header = HeaderFields
  BY DEF HeaderFields
<1>3. writes \in Seq(Writes)
  <2>1. m.request \in RequestIds
    BY DEF ControlRequest, PlainCommand, SetCarrierPolicy, SetFan, SetBinding
  <2>2. RequestId(m) \in Writes
    BY <2>1, RequestWrites
  <2>3. <<RequestId(m)>> \in Seq(Writes)
    BY <2>2
  <2>4. ControlWrites(m) \in Seq(Writes)
    BY ControlIsWritten
  <2> QED BY <2>3, <2>4, Chained
<1> HIDE DEF header, writes
<1>4. Sent(Framed(header, ControlLength(m.kind), writes))
  BY <1>2, <1>3, HeaderSent
<1> QED BY <1>1, <1>4, NoneSent

LEMMA FirmwareIsWritten == \A m \in FirmwareRequest : FirmwareWrites(m) \in Seq(Writes)
<1> SUFFICES ASSUME NEW m \in FirmwareRequest PROVE FirmwareWrites(m) \in Seq(Writes)
  OBVIOUS
<1>1. CASE m \in StatusRequest
  <2>1. m.request \in RequestIds /\ FirmwareWrites(m) = <<RequestId(m)>>
    BY <1>1 DEF FirmwareWrites, StatusRequest
  <2>2. RequestId(m) \in Writes
    BY <2>1, RequestWrites
  <2> QED BY <2>1, <2>2
<1>2. CASE m \in Data
  <2> DEFINE a == <<0, LittleEndian(m.session)>>
             b == <<4, LittleEndian(m.offset)>>
             c == <<8, <<m.len>>>>
             d == <<16, m.bytes>>
  <2>1. /\ m.session \in Word(4) /\ m.offset \in Word(4) /\ m.len \in Byte
        /\ m.bytes \in Word(48)
    BY <1>2 DEF Data, FIRMWARE_CHUNK_BYTES
  <2>2. a \in Writes /\ b \in Writes /\ c \in Writes /\ d \in Writes
    BY <2>1, WordWrites, ByteWrites, Zenon
  <2>3. FirmwareWrites(m) = <<a, b, c, d>>
    BY <1>2 DEF FirmwareWrites, Data
  <2> HIDE DEF a, b, c, d
  <2> QED BY <2>2, <2>3
<1>3. ASSUME m.request \in RequestIds, m.session \in Word(4)
      PROVE  <<RequestId(m), <<8, LittleEndian(m.session)>>>> \in Seq(Writes)
  <2> DEFINE a == <<8, LittleEndian(m.session)>>
  <2>1. a \in Writes /\ RequestId(m) \in Writes
    BY <1>3, WordWrites, RequestWrites, Zenon
  <2> HIDE DEF a
  <2> QED BY <2>1 DEF a
<1>4. CASE m \in FinishOrAbort
  <2>1. /\ m.request \in RequestIds /\ m.session \in Word(4)
        /\ FirmwareWrites(m) = <<RequestId(m), <<8, LittleEndian(m.session)>>>> \o <<>>
    BY <1>4, Zenon DEF FirmwareWrites, FinishOrAbort
  <2> QED BY <1>3, <2>1, Chained
<1>5. CASE m \in Activate
  <2> DEFINE a == <<12, <<Flag(m.interrupt)>>>>
  <2>1. /\ m.request \in RequestIds /\ m.session \in Word(4)
        /\ FirmwareWrites(m) = <<RequestId(m), <<8, LittleEndian(m.session)>>>> \o <<a>>
    BY <1>5, Zenon DEF FirmwareWrites, Activate
  <2>2. Flag(m.interrupt) \in Byte
    BY DEF Flag, Byte
  <2>3. a \in Writes
    BY <2>2, ByteWrites
  <2> HIDE DEF a
  <2>4. <<a>> \in Seq(Writes)
    BY <2>3
  <2> QED BY <1>3, <2>1, <2>4, Chained
<1>6. CASE m \in Begin
  <2> DEFINE a == <<12, LittleEndian(m.size)>>
             b == <<16, <<m.role>>>>
             c == <<17, <<ProfileByte(m.profile)>>>>
             d == <<18, <<m.revision>>>>
             e == <<19, <<m.layout>>>>
             g == <<20, Version(m.version)>>
             h == <<32, m.digest>>
             t == <<a, b, c, d, e, g, h>>
  <2>1. /\ m.request \in RequestIds /\ m.session \in Word(4)
        /\ FirmwareWrites(m) = <<RequestId(m), <<8, LittleEndian(m.session)>>>> \o t
    BY <1>6, Zenon DEF FirmwareWrites, Begin
  <2>2. /\ m.size \in Word(4) /\ m.role \in Byte /\ m.profile \in Option(1 .. 4)
        /\ m.revision \in Byte /\ m.layout \in Byte /\ m.version \in FirmwareVersion
        /\ m.digest \in Word(32)
    BY <1>6 DEF Begin, BACKPLANE, CARRIER, HardwareRevision, Byte, Sha256
  <2>3. ProfileByte(m.profile) \in Byte
    BY <2>2, Profiles
  <2>4. /\ a \in Writes /\ b \in Writes /\ c \in Writes /\ d \in Writes /\ e \in Writes
        /\ h \in Writes
    BY <2>2, <2>3, WordWrites, ByteWrites, Zenon
  <2>5. g \in Writes
    BY <2>2, VersionWrites
  <2> HIDE DEF a, b, c, d, e, g, h
  <2>6. t \in Seq(Writes)
    BY <2>4, <2>5
  <2> HIDE DEF t
  <2> QED BY <1>3, <2>1, <2>6, Chained
<1> QED BY <1>1, <1>2, <1>4, <1>5, <1>6 DEF FirmwareRequest

LEMMA FirmwareSent == \A m \in FirmwareRequest : Sent(EncodeFirmwareRequest(m))
<1> SUFFICES ASSUME NEW m \in FirmwareRequest PROVE Sent(EncodeFirmwareRequest(m))
  OBVIOUS
<1> DEFINE header == [priority |-> 5, class |-> MessageClass.firmware, node |-> m.node,
                      target |-> NODE_TARGET, requester |-> m.requester,
                      opcode |-> Opcode[m.kind]]
<1>1. EncodeFirmwareRequest(m) \in {{}, Framed(header, FirmwareLength(m.kind), FirmwareWrites(m))}
  BY DEF EncodeFirmwareRequest
<1>2. DOMAIN header = HeaderFields
  BY DEF HeaderFields
<1>3. FirmwareWrites(m) \in Seq(Writes)
  BY FirmwareIsWritten
<1> HIDE DEF header
<1>4. Sent(Framed(header, FirmwareLength(m.kind), FirmwareWrites(m)))
  BY <1>2, <1>3, HeaderSent
<1> QED BY <1>1, <1>4, NoneSent

(* The writes of a body and the length they fill. *)
WellWritten(body) == body.len \in CanFdLengths /\ body.writes \in Seq(Writes)

LEMMA ClaimsAreWritten ==
    /\ \A m \in NodeClaim : WellWritten(CommissioningBody(m))
    /\ \A m \in Discover : WellWritten(CommissioningBody(m))
<1>1. ASSUME NEW m \in NodeClaim PROVE WellWritten(CommissioningBody(m))
  <2> DEFINE a == <<0, m.uid>>
             b == <<12, <<m.node>>>>
             c == <<13, <<m.state>>>>
             d == <<14, LittleEndian(m.nonce)>>
             body == CommissioningBody(m)
  <2>1. /\ m.uid \in Word(12) /\ m.node \in Byte /\ m.state \in Byte /\ m.nonce \in Word(2)
    BY DEF NodeClaim, NodeUid, NodeId, CommissioningState, Byte
  <2>2. a \in Writes /\ b \in Writes /\ c \in Writes /\ d \in Writes
    BY <2>1, WordWrites, ByteWrites, Zenon
  <2>3. body.len = 16 /\ body.writes = <<a, b, c, d>>
    BY DEF CommissioningBody, NodeClaim
  <2> HIDE DEF a, b, c, d, body
  <2>4. <<a, b, c, d>> \in Seq(Writes)
    BY <2>2
  <2> QED BY <2>3, <2>4 DEF body, WellWritten, CanFdLengths
<1>2. ASSUME NEW m \in Discover PROVE WellWritten(CommissioningBody(m))
  <2> DEFINE a == <<0, LittleEndian(m.nonce)>>
             body == CommissioningBody(m)
  <2>1. m.nonce \in Word(8)
    BY DEF Discover
  <2>2. a \in Writes
    BY <2>1, WordWrites, Zenon
  <2>3. body.len = 8 /\ body.writes = <<a>>
    BY DEF CommissioningBody, Discover
  <2> HIDE DEF a, body
  <2>4. <<a>> \in Seq(Writes)
    BY <2>2
  <2> QED BY <2>3, <2>4 DEF body, WellWritten, CanFdLengths
<1> QED BY <1>1, <1>2

LEMMA ResponsesAreWritten ==
    \A m \in DiscoveryResponse : WellWritten(CommissioningBody(m))
<1> SUFFICES ASSUME NEW m \in DiscoveryResponse PROVE WellWritten(CommissioningBody(m))
  OBVIOUS
<1> DEFINE a == <<0, m.uid>>
           b == <<12, <<NodeByte(m.node)>>>>
           c == <<13, <<m.state>>>>
           d == <<14, <<m.major>>>>
           e == <<15, <<m.minor>>>>
           g == <<48, LittleEndian(m.nonce)>>
           s == <<a, b, c, d, e>>
           t == InfoWrites(m.info, 16)
           body == CommissioningBody(m)
<1>1. /\ m.uid \in Word(12) /\ m.node \in Option(NodeId) /\ m.state \in Byte /\ m.major \in Byte
      /\ m.minor \in Byte /\ m.nonce \in Word(8) /\ m.info \in NodeDescriptor
  BY DEF DiscoveryResponse, NodeUid, CommissioningState, Byte
<1>2. NodeByte(m.node) \in Byte
  BY <1>1, Nodes
<1>3. /\ a \in Writes /\ b \in Writes /\ c \in Writes /\ d \in Writes /\ e \in Writes
      /\ g \in Writes
  BY <1>1, <1>2, WordWrites, ByteWrites, Zenon
<1>4. body.len = 64 /\ body.writes = s \o t \o <<g>>
  BY Zenon DEF CommissioningBody, DiscoveryResponse
<1>5. t \in Seq(Writes)
  BY <1>1, InfosAreWritten
<1> HIDE DEF a, b, c, d, e, g, t, body
<1>6. s \in Seq(Writes) /\ <<g>> \in Seq(Writes)
  BY <1>3
<1> HIDE DEF s
<1>7. s \o t \in Seq(Writes)
  BY <1>5, <1>6, Chained
<1>8. s \o t \o <<g>> \in Seq(Writes)
  BY <1>6, <1>7, Chained
<1> QED BY <1>4, <1>8 DEF body, WellWritten, CanFdLengths

LEMMA CommandsAreWritten ==
    ASSUME NEW m \in Identify \cup AssignNode \cup ClearNode \cup CommissioningResult
    PROVE  WellWritten(CommissioningBody(m))
<1> DEFINE u == <<8, m.uid>>
           s == <<RequestId(m), u>>
           body == CommissioningBody(m)
<1>1. m.request \in RequestIds /\ m.uid \in Word(12)
  BY DEF Identify, AssignNode, ClearNode, CommissioningResult, NodeUid
<1>2. RequestId(m) \in Writes /\ u \in Writes
  BY <1>1, RequestWrites, WordWrites, Zenon
<1>3. s \in Seq(Writes)
  <2> HIDE DEF u
  <2> QED BY <1>2
<1>4. ASSUME NEW len \in CanFdLengths, NEW t \in Seq(Writes), body.len = len, body.writes = s \o t
      PROVE  WellWritten(body)
  <2> HIDE DEF s, body
  <2>1. s \o t \in Seq(Writes)
    BY <1>3, Chained
  <2> QED BY <1>4, <2>1 DEF WellWritten
<1>5. 20 \in CanFdLengths /\ 24 \in CanFdLengths
  BY DEF CanFdLengths
<1>6. CASE m \in Identify
  <2> DEFINE a == <<20, LittleEndian(m.seconds)>>
  <2>1. body.len = 24 /\ body.writes = s \o <<a>>
    BY <1>6, Zenon DEF CommissioningBody, Identify
  <2>2. m.seconds \in Word(2)
    BY <1>6 DEF Identify
  <2>3. a \in Writes
    BY <2>2, WordWrites, Zenon
  <2> HIDE DEF a, s, body
  <2>4. <<a>> \in Seq(Writes)
    BY <2>3
  <2> QED BY <1>4, <1>5, <2>1, <2>4, Zenon DEF body
<1>7. CASE m \in AssignNode
  <2> DEFINE a == <<20, <<m.node>>>>
  <2>1. body.len = 24 /\ body.writes = s \o <<a>>
    BY <1>7, Zenon DEF CommissioningBody, AssignNode
  <2>2. m.node \in Byte
    BY <1>7 DEF AssignNode, NodeId, Byte
  <2>3. a \in Writes
    BY <2>2, ByteWrites
  <2> HIDE DEF a, s, body
  <2>4. <<a>> \in Seq(Writes)
    BY <2>3
  <2> QED BY <1>4, <1>5, <2>1, <2>4, Zenon DEF body
<1>8. CASE m \in ClearNode
  <2>1. body.len = 20 /\ body.writes = s \o <<>>
    BY <1>8, Zenon DEF CommissioningBody, ClearNode
  <2>2. <<>> \in Seq(Writes)
    OBVIOUS
  <2> HIDE DEF s, body
  <2> QED BY <1>4, <1>5, <2>1, <2>2, Zenon DEF body
<1>9. CASE m \in CommissioningResult
  <2> DEFINE a == <<20, <<m.opcode>>>>
             b == <<21, <<m.result>>>>
             c == <<22, <<NodeByte(m.node)>>>>
             d == <<23, <<m.state>>>>
             t == <<a, b, c, d>>
  <2>1. body.len = 24 /\ body.writes = s \o t
    BY <1>9, Zenon DEF CommissioningBody, CommissioningResult
  <2>2. /\ m.opcode \in Byte /\ m.result \in Byte /\ m.node \in Option(NodeId) /\ m.state \in Byte
    BY <1>9 DEF CommissioningResult, CommandResult, CommissioningState, Byte
  <2>3. NodeByte(m.node) \in Byte
    BY <2>2, Nodes
  <2>4. a \in Writes /\ b \in Writes /\ c \in Writes /\ d \in Writes
    BY <2>2, <2>3, ByteWrites
  <2> HIDE DEF a, b, c, d, s, body
  <2>5. t \in Seq(Writes)
    BY <2>4
  <2> HIDE DEF t
  <2> QED BY <1>4, <1>5, <2>1, <2>5 DEF body
<1> QED BY <1>6, <1>7, <1>8, <1>9

LEMMA CommissioningSent == \A m \in CommissioningMessage : Sent(EncodeCommissioning(m))
<1> SUFFICES ASSUME NEW m \in CommissioningMessage PROVE Sent(EncodeCommissioning(m))
  OBVIOUS
<1> DEFINE body == CommissioningBody(m)
           frames == TokenFrames(body.token, m.requester, Opcode[m.kind], body.len, body.writes)
<1>1. EncodeCommissioning(m) \in {{}, frames}
  BY DEF EncodeCommissioning, TokenFrames
<1>2. WellWritten(body)
  BY ClaimsAreWritten, ResponsesAreWritten, CommandsAreWritten DEF CommissioningMessage
<1> HIDE DEF body
<1>3. Sent(frames)
  BY <1>2, TokenSent DEF WellWritten
<1> QED BY <1>1, <1>3, NoneSent

-----------------------------------------------------------------------------
(* The round trip. *)

LEMMA EncodersChosen ==
    /\ \A m \in ControlRequest : Encode(m) = EncodeControlRequest(m)
    /\ \A m \in CommissioningMessage : Encode(m) = EncodeCommissioning(m)
    /\ \A m \in FirmwareRequest : Encode(m) = EncodeFirmwareRequest(m)
    /\ \A m \in CommandResponse : Encode(m) = EncodeCommandResponse(m)
    /\ \A m \in NodeState : Encode(m) = EncodeNodeState(m)
    /\ \A m \in FanState : Encode(m) = EncodeFanState(m)
    /\ \A m \in PowerTelemetry : Encode(m) = EncodePower(m)
    /\ \A m \in TemperatureTelemetry : Encode(m) = EncodeTemperature(m)
    /\ \A m \in NodeInfo : Encode(m) = EncodeNodeInfo(m)
    /\ \A m \in Heartbeat : Encode(m) = EncodeHeartbeat(m)
    /\ \A m \in BindingInfo : Encode(m) = EncodeBinding(m)
    /\ \A m \in FirmwareAck : Encode(m) = EncodeFirmwareAck(m)
    /\ \A m \in FirmwareStatus : Encode(m) = EncodeFirmwareStatus(m)
<1> USE DEF Encode, ControlKinds, CommissioningKinds, FirmwareKinds
<1>1. \A m \in ControlRequest : Encode(m) = EncodeControlRequest(m)
  BY DEF ControlRequest, PlainCommand, SetCarrierPolicy, SetFan, SetBinding
<1>2. \A m \in CommissioningMessage : Encode(m) = EncodeCommissioning(m)
  BY DEF CommissioningMessage, NodeClaim, Discover, DiscoveryResponse, Identify, AssignNode,
         ClearNode, CommissioningResult
<1>3. \A m \in FirmwareRequest : Encode(m) = EncodeFirmwareRequest(m)
  BY DEF FirmwareRequest, Begin, Data, FinishOrAbort, Activate, StatusRequest
<1>4. \A m \in CommandResponse : Encode(m) = EncodeCommandResponse(m)
  BY DEF CommandResponse
<1>5. \A m \in NodeState : Encode(m) = EncodeNodeState(m)
  BY DEF NodeState
<1>6. \A m \in FanState : Encode(m) = EncodeFanState(m)
  BY DEF FanState
<1>7. \A m \in PowerTelemetry : Encode(m) = EncodePower(m)
  BY DEF PowerTelemetry
<1>8. \A m \in TemperatureTelemetry : Encode(m) = EncodeTemperature(m)
  BY DEF TemperatureTelemetry
<1>9. \A m \in NodeInfo : Encode(m) = EncodeNodeInfo(m)
  BY DEF NodeInfo
<1>10. \A m \in Heartbeat : Encode(m) = EncodeHeartbeat(m)
  BY DEF Heartbeat
<1>11. \A m \in BindingInfo : Encode(m) = EncodeBinding(m)
  BY DEF BindingInfo
<1>12. \A m \in FirmwareAck : Encode(m) = EncodeFirmwareAck(m)
  BY DEF FirmwareAck
<1>13. \A m \in FirmwareStatus : Encode(m) = EncodeFirmwareStatus(m)
  BY DEF FirmwareStatus
<1> QED BY <1>1, <1>2, <1>3, <1>4, <1>5, <1>6, <1>7, <1>8, <1>9, <1>10, <1>11, <1>12, <1>13, Zenon

(* Whatever the message, encoding it makes one legal frame or is refused. *)
THEOREM EncodersAreDefinite == \A m \in Message : Sent(Encode(m))
<1>1. /\ \A m \in ControlRequest : Sent(Encode(m))
      /\ \A m \in CommissioningMessage : Sent(Encode(m))
      /\ \A m \in FirmwareRequest : Sent(Encode(m))
  BY EncodersChosen, ControlSent, CommissioningSent, FirmwareSent
<1>2. /\ \A m \in CommandResponse : Sent(Encode(m))
      /\ \A m \in NodeState : Sent(Encode(m))
      /\ \A m \in FanState : Sent(Encode(m))
      /\ \A m \in PowerTelemetry : Sent(Encode(m))
      /\ \A m \in TemperatureTelemetry : Sent(Encode(m))
  BY EncodersChosen, CommandResponseSent, NodeStateSent, FanStateSent, PowerSent, TemperatureSent
<1>3. /\ \A m \in NodeInfo : Sent(Encode(m))
      /\ \A m \in Heartbeat : Sent(Encode(m))
      /\ \A m \in BindingInfo : Sent(Encode(m))
      /\ \A m \in FirmwareAck : Sent(Encode(m))
      /\ \A m \in FirmwareStatus : Sent(Encode(m))
  BY EncodersChosen, NodeInfoSent, HeartbeatSent, BindingSent, FirmwareAckSent, FirmwareStatusSent
<1> QED BY <1>1, <1>2, <1>3 DEF Message

(* Encoding and decoding are inverse on all legal frames and messages: a decoder makes
   a message of a frame exactly when the encoder makes that frame of the message.     *)
THEOREM RoundTrip ==
    \A f \in Frame :
        /\ Decoded(f) \subseteq Message
        /\ \A m \in Message : f \in Encode(m) <=> m \in Decoded(f)
<1> SUFFICES ASSUME NEW f \in Frame
             PROVE  /\ Decoded(f) \subseteq Message
                    /\ \A m \in Message : f \in Encode(m) <=> m \in Decoded(f)
  OBVIOUS
<1> DEFINE Trips(T, D) == D \subseteq T /\ \A m \in T : f \in Encode(m) <=> m \in D
<1>1. /\ Trips(ControlRequest, DecodeControlRequest(f))
      /\ Trips(CommissioningMessage, DecodeCommissioning(f))
      /\ Trips(FirmwareRequest, DecodeFirmwareRequest(f))
  BY EncodersChosen, ControlTrip, CommissioningTrip, FirmwareTrip
<1>2. /\ Trips(CommandResponse, DecodeCommandResponse(f))
      /\ Trips(NodeState, DecodeNodeState(f))
      /\ Trips(FanState, DecodeFanState(f))
      /\ Trips(PowerTelemetry, DecodePower(f))
      /\ Trips(TemperatureTelemetry, DecodeTemperature(f))
  BY EncodersChosen, CommandResponseTrip, NodeStateTrip, FanStateTrip, PowerTrip, TemperatureTrip
<1>3. /\ Trips(NodeInfo, DecodeNodeInfo(f))
      /\ Trips(Heartbeat, DecodeHeartbeat(f))
      /\ Trips(BindingInfo, DecodeBinding(f))
      /\ Trips(FirmwareAck, DecodeFirmwareAck(f))
      /\ Trips(FirmwareStatus, DecodeFirmwareStatus(f))
  BY EncodersChosen, NodeInfoTrip, HeartbeatTrip, BindingTrip, FirmwareAckTrip, FirmwareStatusTrip
<1>4. Decoded(f) \subseteq Message
  BY <1>1, <1>2, <1>3 DEF Decoded, Message
<1>5. ASSUME NEW m \in Message, f \in Encode(m)
      PROVE  m \in Decoded(f)
  BY <1>1, <1>2, <1>3, <1>5 DEF Decoded, Message
<1>6. ASSUME NEW m \in Decoded(f)
      PROVE  f \in Encode(m)
  BY <1>1, <1>2, <1>3 DEF Decoded
<1> QED BY <1>4, <1>5, <1>6

(* The identifier with another value in one of its fields. *)
LEMMA ReplacedField ==
    ASSUME NEW i \in Identifier, NEW v \in Nat,
           NEW field \in DOMAIN BitField \ {"token"}, v < 2 ^ BitField[field][2]
    PROVE  i + (v - Bits(i, field)) * 2 ^ BitField[field][1] \in Identifier
<1> DEFINE A == Bits(i, "priority")
           B == Bits(i, "class")
           C == Bits(i, "node")
           D == Bits(i, "target")
           F == Bits(i, "requester")
           G == Bits(i, "opcode")
<1>1. /\ A \in 0 .. 7 /\ B \in 0 .. 15 /\ C \in 0 .. 255 /\ D \in 0 .. 15 /\ F \in 0 .. 15
      /\ G \in 0 .. 63
  BY Ranges
<1> DEFINE a == (i \div 67108864) % 8
           b == (i \div 4194304) % 16
           c == (i \div 16384) % 256
           d == (i \div 1024) % 16
           e == (i \div 64) % 16
           g == i % 64
<1>2. A = a /\ B = b /\ C = c /\ D = d /\ F = e /\ G = g
  BY FieldsOf
<1>3. i = 67108864 * A + 4194304 * B + 16384 * C + 1024 * D + 64 * F + G
  <2>1. i = 67108864 * a + 4194304 * b + 16384 * c + 1024 * d + 64 * e + g
    BY Quotients, SMT DEF Identifier
  <2> HIDE DEF A, B, C, D, F, G, a, b, c, d, e, g
  <2> QED BY <1>2, <2>1, SMT
<1> HIDE DEF A, B, C, D, F, G, a, b, c, d, e, g
<1>4. /\ A \in Nat /\ A < 8 /\ B \in Nat /\ B < 16 /\ C \in Nat /\ C < 256 /\ D \in Nat /\ D < 16
      /\ F \in Nat /\ F < 16 /\ G \in Nat /\ G < 64 /\ i \in Nat
  BY <1>1, SMT DEF Identifier
<1>5. CASE field = "priority"
  <2>1. v < 8
    BY <1>5, Widths
  <2>2. i + (v - A) * 67108864 \in Nat /\ i + (v - A) * 67108864 < 536870912
    BY <1>3, <1>4, <2>1, SMT
  <2> QED BY <1>5, <2>2, Positions DEF A, Identifier
<1>6. CASE field = "class"
  <2>1. v < 16
    BY <1>6, Widths
  <2>2. i + (v - B) * 4194304 \in Nat /\ i + (v - B) * 4194304 < 536870912
    BY <1>3, <1>4, <2>1, SMT
  <2> QED BY <1>6, <2>2, Positions DEF B, Identifier
<1>7. CASE field = "node"
  <2>1. v < 256
    BY <1>7, Widths
  <2>2. i + (v - C) * 16384 \in Nat /\ i + (v - C) * 16384 < 536870912
    BY <1>3, <1>4, <2>1, SMT
  <2> QED BY <1>7, <2>2, Positions DEF C, Identifier
<1>8. CASE field = "target"
  <2>1. v < 16
    BY <1>8, Widths
  <2>2. i + (v - D) * 1024 \in Nat /\ i + (v - D) * 1024 < 536870912
    BY <1>3, <1>4, <2>1, SMT
  <2> QED BY <1>8, <2>2, Positions DEF D, Identifier
<1>9. CASE field = "requester"
  <2>1. v < 16
    BY <1>9, Widths
  <2>2. i + (v - F) * 64 \in Nat /\ i + (v - F) * 64 < 536870912
    BY <1>3, <1>4, <2>1, SMT
  <2> QED BY <1>9, <2>2, Positions DEF F, Identifier
<1>10. CASE field = "opcode"
  <2>1. v < 64
    BY <1>10, Widths
  <2>2. i + (v - G) * 1 \in Nat /\ i + (v - G) * 1 < 536870912
    BY <1>3, <1>4, <2>1, SMT
  <2> QED BY <1>10, <2>2, Positions DEF G, Identifier
<1> QED BY <1>5, <1>6, <1>7, <1>8, <1>9, <1>10 DEF BitField

(* The inductive invariant: what was sent was a legal message, what arrives is a legal
   frame, and until it is changed it is the one the encoder made.                     *)
Legal ==
    /\ message \in Message
    /\ frame \in Frame
    /\ changes \in Nat
    /\ changes = 0 => frame \in Encode(message)

LEMMA LegalInit == Init => Legal
<1> SUFFICES ASSUME Init PROVE Legal
  OBVIOUS
<1>1. message \in Message
  BY MessagesAssumption DEF Init
<1>2. Encode(message) \subseteq Frame
  BY <1>1, EncodersAreDefinite DEF Sent
<1> QED BY <1>1, <1>2 DEF Init, Legal

LEMMA LegalChange ==
    ASSUME Legal, NEW id \in Identifier, NEW n \in CanFdLengths, NEW payload \in Buffer(n),
           Changed(id, payload)
    PROVE  Legal'
<1>1. frame' \in Frame
  <2>1. [id |-> id, payload |-> payload] \in Frame
    BY DEF Frame
  <2> QED BY <2>1 DEF Changed
<1>2. message' \in Message /\ changes' \in Nat /\ changes' # 0
  BY DEF Changed, Legal
<1> QED BY <1>1, <1>2 DEF Legal

LEMMA LegalStep == Legal /\ [Next]_vars => Legal'
<1> SUFFICES ASSUME Legal, [Next]_vars PROVE Legal'
  OBVIOUS
<1>1. frame.id \in Identifier
  BY DEF Legal, Frame
<1>2. PICK n \in CanFdLengths : frame.payload \in Buffer(n)
  BY DEF Legal, Frame
<1>3. CASE ChangeByte
  <2>1. PICK i \in DOMAIN frame.payload, b \in ByteValues :
          Changed(frame.id, [frame.payload EXCEPT ![i] = b])
    BY <1>3 DEF ChangeByte
  <2>2. b \in Byte
    BY CodecAssumption DEF Byte
  <2>3. [frame.payload EXCEPT ![i] = b] \in Buffer(n)
    BY <1>2, <2>2, Zenon DEF Buffer
  <2> QED BY <1>1, <2>1, <2>3, LegalChange
<1>4. CASE ChangeLength
  <2>1. PICK l \in CanFdLengths :
          Changed(frame.id, [i \in 0 .. l - 1 |-> IF i \in DOMAIN frame.payload
                                                  THEN frame.payload[i] ELSE 0])
    BY <1>4, Zenon DEF ChangeLength
  <2> DEFINE payload == [i \in 0 .. l - 1 |-> IF i \in DOMAIN frame.payload
                                              THEN frame.payload[i] ELSE 0]
  <2>2. 0 \in Byte
    BY DEF Byte
  <2>3. payload \in Buffer(l)
    BY <1>2, <2>2, Zenon DEF Buffer
  <2> QED BY <1>1, <2>1, <2>3, LegalChange
<1>5. CASE ChangeIdentifier
  <2>1. PICK field \in DOMAIN BitField \ {"token"}, v \in FieldValues :
          /\ v < 2 ^ BitField[field][2]
          /\ Changed(frame.id + (v - Bits(frame.id, field)) * 2 ^ BitField[field][1],
                     frame.payload)
    BY <1>5 DEF ChangeIdentifier
  <2>2. v \in Nat
    BY CodecAssumption
  <2>3. frame.id + (v - Bits(frame.id, field)) * 2 ^ BitField[field][1] \in Identifier
    BY <1>1, <2>1, <2>2, ReplacedField
  <2> QED BY <1>2, <2>1, <2>3, LegalChange
<1>6. CASE UNCHANGED vars
  BY <1>6 DEF Legal, vars
<1> QED BY <1>3, <1>4, <1>5, <1>6 DEF Next

(* Sending and changing a frame never make it illegal: its identifier stays below 2^29
   and its payload one of bytes, in a length of CAN FD (Legal).                       *)
THEOREM LegalHolds == Spec => []Legal
BY LegalInit, LegalStep, PTL DEF Spec

(* Every message a sender may encode comes out of the decoders as it was, and as nothing
   else (DecodesWhatWasEncoded). *)
THEOREM DecodesCorrect == Spec => []DecodesWhatWasEncoded
<1>1. Legal => DecodesWhatWasEncoded
  <2> SUFFICES ASSUME Legal, changes = 0 PROVE Decoded(frame) = {message}
    BY DEF DecodesWhatWasEncoded
  <2>1. message \in Decoded(frame)
    BY RoundTrip DEF Legal
  <2> QED BY <2>1, Meanings DEF Single
<1> QED BY <1>1, LegalHolds, PTL

(* Whatever changed a frame, a decoder that still takes it takes what the encoder would
   write for the message it reads (AcceptsOnlyEncodings). *)
THEOREM AcceptsCorrect == Spec => []AcceptsOnlyEncodings
<1>1. Legal => AcceptsOnlyEncodings
  <2> SUFFICES ASSUME Legal, NEW m \in Decoded(frame) PROVE Encode(m) = {frame}
    BY DEF AcceptsOnlyEncodings
  <2>1. m \in Message /\ frame \in Encode(m)
    BY RoundTrip DEF Legal
  <2> QED BY <2>1, EncodersAreDefinite DEF Sent
<1> QED BY <1>1, LegalHolds, PTL

-----------------------------------------------------------------------------
(* Arbitration. *)

(* An emergency disable for any node, from any host, has an identifier below 2^26. *)
LEMMA EmergencyIdentifiers ==
    ASSUME NEW e \in EncodeControlRequest([kind |-> "EMERGENCY_DISABLE", node |-> 254,
                                           requester |-> 15,
                                           request |-> <<0, 0, 0, 0, 0, 0, 0, 0>>])
    PROVE  e.id \in Nat /\ e.id < 67108864
<1> DEFINE m == [kind |-> "EMERGENCY_DISABLE", node |-> 254, requester |-> 15,
                 request |-> <<0, 0, 0, 0, 0, 0, 0, 0>>]
           h == [priority |-> 0, class |-> 0, node |-> 254, requester |-> 15,
                 target |-> 15, opcode |-> 0]
<1>1. PICK len, writes : e \in Framed(h, len, writes)
  <2>1. PICK len, writes :
          e \in Framed([priority |-> Flag(~(m.kind = "EMERGENCY_DISABLE")),
                        class |-> MessageClass.control,
                        node |-> m.node, requester |-> m.requester,
                        target |-> IF m.kind = "SET_FAN" THEN m.fan ELSE NODE_TARGET,
                        opcode |-> Opcode[m.kind]], len, writes)
    BY DEF EncodeControlRequest
  <2>2. /\ Flag(~(m.kind = "EMERGENCY_DISABLE")) = 0 /\ MessageClass.control = 0
        /\ (IF m.kind = "SET_FAN" THEN m.fan ELSE NODE_TARGET) = 15 /\ Opcode[m.kind] = 0
    BY Opcodes, MessageClasses DEF Flag, NODE_TARGET
  <2> QED BY <2>1, <2>2
<1>2. e.id = HeaderEncode(h)
  <2>1. PICK x \in HeaderNew(h) : e = [id |-> HeaderEncode(x), payload |-> Payload(len, writes)]
    BY <1>1 DEF Framed
  <2>2. x = h
    BY <2>1 DEF HeaderNew, When
  <2> QED BY <2>1, <2>2
<1>3. HeaderEncode(h) = InPlace("priority", 0) + InPlace("class", 0) + InPlace("node", 254)
                            + InPlace("target", 15) + InPlace("requester", 15)
                            + InPlace("opcode", 0)
  BY DEF HeaderEncode
<1>4. /\ InPlace("priority", 0) = 0 /\ InPlace("class", 0) = 0 /\ InPlace("node", 254) = 4161536
      /\ InPlace("target", 15) = 15360 /\ InPlace("requester", 15) = 960
      /\ InPlace("opcode", 0) = 0
  <2>1. 0 \in Nat /\ 254 \in Nat /\ 15 \in Nat
    OBVIOUS
  <2> QED BY <2>1, Places, SMT
<1> QED BY <1>2, <1>3, <1>4, SMT

(* The emergency disable with the highest identifier wins the arbitration against
   every other frame that a decoder accepts, and no other is addressed to all nodes
   (EmergencyGoesFirst). *)
THEOREM EmergencyCorrect == Spec => []EmergencyGoesFirst
<1>1. Legal => EmergencyGoesFirst
  <2> SUFFICES ASSUME Legal, NEW m \in Decoded(frame), m.kind # "EMERGENCY_DISABLE"
               PROVE  /\ \A e \in EncodeControlRequest([kind |-> "EMERGENCY_DISABLE", node |-> 254,
                                          requester |-> 15, request |-> <<0, 0, 0, 0, 0, 0, 0,
                                              0>>]) :
                            e.id < frame.id
                      /\ Registry[m.kind].target # "token" => Bits(frame.id,
                             "node") # BROADCAST_NODE
    BY DEF EmergencyGoesFirst
  <2>1. Described(frame, m.kind)
    BY Meanings
  <2>2. Bits(frame.id, "priority") \in 1 .. 6
    BY <2>1 DEF Described, Describes
  <2>3. frame.id \in Nat /\ 67108864 <= frame.id
    <3>1. frame.id \in Nat
      BY DEF Legal, Frame, Identifier
    <3>2. (frame.id \div 67108864) % 8 \in 1 .. 6
      BY <2>2, <3>1, Fields
    <3> QED BY <3>1, <3>2, SMT
  <2>4. ASSUME NEW e \in EncodeControlRequest([kind |-> "EMERGENCY_DISABLE", node |-> 254,
                                          requester |-> 15, request |-> <<0, 0, 0, 0, 0, 0, 0, 0>>])
        PROVE  e.id < frame.id
    BY <2>3, EmergencyIdentifiers, SMT
  <2> QED BY <2>1, <2>4 DEF Described
<1> QED BY <1>1, LegalHolds, PTL
===============================================================================
