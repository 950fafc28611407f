-------------------------------- MODULE Codec --------------------------------
(***************************************************************************)
(* A PDCAN frame on its way from an encoder to the decoders.  The sender    *)
(* encodes a message; the frame that arrives is that one, or one with a     *)
(* payload byte, the length or a field of the identifier changed, as a peer *)
(* of another minor version, another tool on the bus or a mistaken codec    *)
(* could send.  Every decoder of the crate is offered the frame: a bus has  *)
(* no connections, so what keeps messages apart is the frame alone.         *)
(***************************************************************************)
EXTENDS MessageTypes

CONSTANTS Messages,       \* the messages a sender may encode
          ByteValues,     \* what a changed payload byte may become
          FieldValues,    \* what a changed identifier field may become
          MaxChanges      \* bound on the changes one frame suffers

ASSUME CodecAssumption ==
    /\ ByteValues \subseteq 0 .. 255
    /\ FieldValues \subseteq 0 .. 255
    /\ MaxChanges \in Nat

ASSUME MessagesAssumption == Messages \subseteq Message

VARIABLES message,   \* the message that was encoded
          frame,     \* the frame as it is now
          changes    \* how often it was changed

vars == <<message, frame, changes>>

(* MESSAGE_DEFINITIONS: class, priority, kind of target, length and whether the
   host's requester is in the identifier.                                    *)
Registry ==
    LET entry(class, priority, target, len, scoped) ==
            [class |-> MessageClass[class], priority |-> priority, target |-> target,
             len |-> len, scoped |-> scoped]
    IN  [EMERGENCY_DISABLE     |-> entry("control", 0, "node", 8, TRUE),
         SET_CARRIER_POLICY    |-> entry("control", 1, "node", 24, TRUE),
         ACKNOWLEDGE_EMERGENCY |-> entry("control", 1, "node", 8, TRUE),
         REQUEST_STATUS        |-> entry("control", 1, "node", 8, TRUE),
         SET_FAN               |-> entry("control", 1, "fan", 12, TRUE),
         SET_BINDING           |-> entry("control", 1, "node", 24, TRUE),
         COMMAND_RESPONSE      |-> entry("response", 2, "node", 16, TRUE),
         NODE_STATE            |-> entry("state", 3, "node", 16, FALSE),
         FAN_STATE             |-> entry("state", 3, "fan", 12, FALSE),
         POWER                 |-> entry("telemetry", 4, "node", 16, FALSE),
         TEMPERATURE           |-> entry("telemetry", 4, "node", 16, FALSE),
         HEARTBEAT             |-> entry("management", 5, "node", 16, FALSE),
         NODE_INFO             |-> entry("management", 5, "node", 32, FALSE),
         BINDING               |-> entry("management", 5, "node", 16, FALSE),
         FW_BEGIN              |-> entry("firmware", 5, "node", 64, TRUE),
         FW_DATA               |-> entry("firmware", 5, "node", 64, TRUE),
         FW_FINISH             |-> entry("firmware", 5, "node", 16, TRUE),
         FW_ACTIVATE           |-> entry("firmware", 5, "node", 16, TRUE),
         FW_ABORT              |-> entry("firmware", 5, "node", 16, TRUE),
         FW_STATUS             |-> entry("firmware", 5, "node", 8, TRUE),
         FW_ACK                |-> entry("firmware", 5, "node", 24, TRUE),
         FW_STATUS_RESPONSE    |-> entry("firmware", 5, "node", 64, TRUE),
         NODE_CLAIM            |-> entry("commissioning", 6, "token", 16, FALSE),
         DISCOVER              |-> entry("commissioning", 6, "token", 8, TRUE),
         DISCOVERY_RESPONSE    |-> entry("commissioning", 6, "token", 64, TRUE),
         IDENTIFY              |-> entry("commissioning", 6, "token", 24, TRUE),
         ASSIGN_NODE           |-> entry("commissioning", 6, "token", 24, TRUE),
         CLEAR_NODE            |-> entry("commissioning", 6, "token", 20, TRUE),
         COMMISSIONING_RESULT  |-> entry("commissioning", 6, "token", 24, TRUE)]

Encode(m) ==
    CASE m.kind \in ControlKinds -> EncodeControlRequest(m)
      [] m.kind \in CommissioningKinds -> EncodeCommissioning(m)
      [] m.kind \in FirmwareKinds -> EncodeFirmwareRequest(m)
      [] m.kind = "COMMAND_RESPONSE" -> EncodeCommandResponse(m)
      [] m.kind = "NODE_STATE" -> EncodeNodeState(m)
      [] m.kind = "FAN_STATE" -> EncodeFanState(m)
      [] m.kind = "POWER" -> EncodePower(m)
      [] m.kind = "TEMPERATURE" -> EncodeTemperature(m)
      [] m.kind = "HEARTBEAT" -> EncodeHeartbeat(m)
      [] m.kind = "NODE_INFO" -> EncodeNodeInfo(m)
      [] m.kind = "BINDING" -> EncodeBinding(m)
      [] m.kind = "FW_ACK" -> EncodeFirmwareAck(m)
      [] m.kind = "FW_STATUS_RESPONSE" -> EncodeFirmwareStatus(m)

(* What the decoders of the crate, each offered the frame, make of it. *)
Decoded(f) ==
    UNION {DecodeControlRequest(f), DecodeCommandResponse(f), DecodeNodeState(f),
           DecodeFanState(f), DecodePower(f), DecodeTemperature(f), DecodeNodeInfo(f),
           DecodeHeartbeat(f), DecodeBinding(f), DecodeCommissioning(f),
           DecodeFirmwareRequest(f), DecodeFirmwareAck(f), DecodeFirmwareStatus(f)}

-----------------------------------------------------------------------------
Init ==
    /\ message \in Messages
    /\ frame \in Encode(message)
    /\ changes = 0

Changed(id, payload) ==
    /\ changes < MaxChanges
    /\ changes' = changes + 1
    /\ frame' = [id |-> id, payload |-> payload]
    /\ UNCHANGED message

ChangeByte ==
    \E i \in DOMAIN frame.payload, b \in ByteValues :
        Changed(frame.id, [frame.payload EXCEPT ![i] = b])

(* The frame has another legal length: cut short or padded with zeros. *)
ChangeLength ==
    \E n \in CanFdLengths :
        Changed(frame.id, [i \in 0 .. n - 1 |-> IF i \in DOMAIN frame.payload
                                                THEN frame.payload[i] ELSE 0])

ChangeIdentifier ==
    \E field \in DOMAIN BitField \ {"token"}, v \in FieldValues :
        /\ v < 2 ^ BitField[field][2]
        /\ Changed(frame.id + (v - Bits(frame.id, field)) * 2 ^ BitField[field][1],
                   frame.payload)

Next == ChangeByte \/ ChangeLength \/ ChangeIdentifier

Spec == Init /\ [][Next]_vars

-----------------------------------------------------------------------------
(* A frame that was not changed is decoded by exactly one decoder, as the
   message that was encoded: no field overlaps another or is read from another
   place, and no other decoder takes the frame for its own.                  *)
DecodesWhatWasEncoded == changes = 0 => Decoded(frame) = {message}

(* No frame has two meanings, whichever way it came about: the thirteen
   decoders, each reading the identifier by itself, disagree on every frame. *)
OneMeaning == Cardinality(Decoded(frame)) <= 1

(* A decoder accepts only what an encoder writes: reserved bytes are zero,
   absent options are zeroed, Booleans are 0 or 1, and every number and
   identifier field is one the message may carry (docs/pdcan/protocol.md,
   "Reserved bytes must be zero", "Decoders enforce ...").                   *)
AcceptsOnlyEncodings == \A m \in Decoded(frame) : Encode(m) = {frame}

Describes(entry, kind, f) ==
    /\ Bits(f.id, "class") = entry.class
    /\ Bits(f.id, "opcode") = Opcode[kind]
    /\ Bits(f.id, "priority") = entry.priority
    /\ Length(f.payload) = entry.len
    /\ entry.scoped <=> Bits(f.id, "requester") # PROTOCOL
    /\ entry.target = "node" => Bits(f.id, "target") = NODE_TARGET
    /\ entry.target = "fan" => Bits(f.id, "target") \in FanId

(* Every accepted frame is the one MESSAGE_DEFINITIONS describes, from which
   the DBC that other tools use is generated.                                *)
RegistryDescribesFrames == \A m \in Decoded(frame) : Describes(Registry[m.kind], m.kind, frame)

(* The lower identifier wins the arbitration of the bus: an emergency disable,
   for whichever node and from whichever host, goes ahead of every other
   message a decoder accepts, and is the only one addressed to all nodes.    *)
EmergencyGoesFirst ==
    \A m \in {m \in Decoded(frame) : m.kind # "EMERGENCY_DISABLE"} :
        /\ \A e \in EncodeControlRequest([kind |-> "EMERGENCY_DISABLE", node |-> 254,
                                          requester |-> 15, request |-> <<0, 0, 0, 0, 0, 0, 0, 0>>]) :
              e.id < frame.id
        /\ Registry[m.kind].target # "token" => Bits(frame.id, "node") # BROADCAST_NODE
=============================================================================
