-------------------------------- MODULE Wire --------------------------------
(***************************************************************************)
(* The frames of PDCAN 1.0 and the pieces their codecs share               *)
(* (pdcan-protocol/src/lib.rs): the packing of the 29-bit identifier, the   *)
(* numbering of the messages, the reading and writing of payload bytes.     *)
(*                                                                         *)
(* A payload is a function from offsets to bytes.  An integer wider than a  *)
(* byte is the sequence of its base-256 digits, most significant first, so  *)
(* that little-endian conversion reverses it.  A function of the code that  *)
(* returns Result<T, CodecError> is a set here: {} is any error, {v} is     *)
(* Ok(v).  Which error it is, is left out.                                  *)
(***************************************************************************)
EXTENDS Integers, Sequences, FiniteSetsExt

(* Ok(v) when the checks before it pass. *)
When(checks, v) == IF checks THEN {v} ELSE {}

(* The fields of both records. *)
Join(a, b) == [x \in DOMAIN a \cup DOMAIN b |-> IF x \in DOMAIN a THEN a[x] ELSE b[x]]

CONSTANTS Token(_, _),   \* commissioning_token: 12 bits of a hash of a UID and a nonce
          NONE           \* an absent Option

BROADCAST_NODE == 0
INVALID_NODE   == 255
NODE_TARGET    == 15
PROTOCOL       == 0     \* the requester of unsolicited node traffic

MessageClass == [control |-> 0, response |-> 1, state |-> 2, telemetry |-> 3,
                 management |-> 4, configuration |-> 5, firmware |-> 6,
                 commissioning |-> 14, debug |-> 15]

Classes == {MessageClass[c] : c \in DOMAIN MessageClass}

Opcode == [EMERGENCY_DISABLE |-> 0, SET_CARRIER_POLICY |-> 1,
           ACKNOWLEDGE_EMERGENCY |-> 2, REQUEST_STATUS |-> 3, SET_FAN |-> 4,
           SET_BINDING |-> 5, COMMAND_RESPONSE |-> 0, NODE_STATE |-> 0,
           FAN_STATE |-> 1, POWER |-> 0, TEMPERATURE |-> 1, HEARTBEAT |-> 0,
           NODE_INFO |-> 1, BINDING |-> 2, FW_BEGIN |-> 0, FW_DATA |-> 1,
           FW_FINISH |-> 2, FW_ACTIVATE |-> 3, FW_ABORT |-> 4, FW_STATUS |-> 5,
           FW_ACK |-> 6, FW_STATUS_RESPONSE |-> 7, NODE_CLAIM |-> 0,
           DISCOVER |-> 1, DISCOVERY_RESPONSE |-> 2, IDENTIFY |-> 3,
           ASSIGN_NODE |-> 4, CLEAR_NODE |-> 5, COMMISSIONING_RESULT |-> 6]

-----------------------------------------------------------------------------
(* The 29-bit identifier.                                                    *)

BitField == [priority |-> <<26, 3>>, class |-> <<22, 4>>, node |-> <<14, 8>>,
             target |-> <<10, 4>>, token |-> <<10, 12>>,
             requester |-> <<6, 4>>, opcode |-> <<0, 6>>]

Bits(raw, f) == (raw \div 2 ^ BitField[f][1]) % 2 ^ BitField[f][2]

Fits(h) == \A f \in DOMAIN h : h[f] \in 0 .. 2 ^ BitField[f][2] - 1

InPlace(f, v) == 2 ^ BitField[f][1] * v

HeaderEncode(h) ==
    InPlace("priority", h.priority) + InPlace("class", h.class) + InPlace("node", h.node)
        + InPlace("target", h.target) + InPlace("requester", h.requester)
        + InPlace("opcode", h.opcode)

CommissioningHeaderEncode(h) ==
    InPlace("priority", h.priority) + InPlace("class", h.class) + InPlace("token", h.token)
        + InPlace("requester", h.requester) + InPlace("opcode", h.opcode)

HeaderNew(h) == When(h.node # INVALID_NODE /\ Fits(h), h)

HeaderDecode(id) ==
    LET h == [f \in {"priority", "class", "node", "target", "requester", "opcode"}
                |-> Bits(id, f)]
    IN  IF h.class \in Classes THEN HeaderNew(h) ELSE {}

CommissioningHeaderNew(h) == When(Fits(h), h)

CommissioningHeaderDecode(id) ==
    LET h == [f \in {"priority", "class", "token", "requester", "opcode"}
                |-> Bits(id, f)]
    IN  When(h.class = MessageClass.commissioning, h)

-----------------------------------------------------------------------------
(* Payload bytes.                                                            *)

CanFdLengths == (0 .. 8) \cup {12, 16, 20, 24, 32, 48, 64}

Length(payload) == Max(DOMAIN payload \cup {-1}) + 1

(* The payload of len bytes that a codec fills by the writes
   <<offset, bytes>>, in order, over zeros.                                  *)
Payload(len, writes) ==
    [i \in 0 .. len - 1 |->
        LET hits == {k \in DOMAIN writes :
                        i - writes[k][1] \in 0 .. Len(writes[k][2]) - 1}
        IN  IF hits = {} THEN 0
            ELSE LET w == writes[Max(hits)] IN w[2][i - w[1] + 1]]

LittleEndian(v) == [k \in DOMAIN v |-> v[Len(v) + 1 - k]]

Bytes(p, offset, n) == [k \in 1 .. n |-> p[offset + k - 1]]

ReadLe(p, offset, n) == LittleEndian(Bytes(p, offset, n))

ReadUid(p, offset) == Bytes(p, offset, 12)

Version(v) == LittleEndian(v.major) \o LittleEndian(v.minor) \o LittleEndian(v.patch)

ReadVersion(p, offset) == [major |-> ReadLe(p, offset, 2),
                           minor |-> ReadLe(p, offset + 2, 2),
                           patch |-> ReadLe(p, offset + 4, 2)]

Zero(p, start, end) == \A i \in start .. end - 1 : p[i] = 0

Bool(b) == b \in {0, 1}

Flag(b) == IF b THEN 1 ELSE 0

OptionalNode(b) == IF b = BROADCAST_NODE THEN NONE ELSE b

NodeByte(n) == IF n = NONE THEN BROADCAST_NODE ELSE n

ValidNodeId(n) == n \in 1 .. 254

HostRequester(r) == r # PROTOCOL

-----------------------------------------------------------------------------
(* Values the types crate validates, by their wire numbers.                  *)

CommandResult      == 0 .. 13
ServiceState       == 0 .. 5
PowerSource        == {1, 2}
CommissioningState == 0 .. 3
UpdateState        == 0 .. 8
UpdateError        == 0 .. 12
UpdateImpact       == {1, 2}
FanId              == {0, 1}
Slot               == 0 .. 254
HardwareRevision   == 1 .. 254
ValidDuty(d)       == d <= 100

BACKPLANE == 1
CARRIER   == 2

(* The role and optional carrier profile of a node descriptor, and of an
   image target: carriers have a profile and backplanes none.                *)
RoleProfile(role, profile) ==
    \/ role = BACKPLANE /\ profile = NONE
    \/ role = CARRIER /\ profile \in 1 .. 4

ProfileByte(profile) == IF profile = NONE THEN 0 ELSE profile

OptionalProfile(b) == IF b = 0 THEN NONE ELSE b

FirmwareUpdateCapable(caps) == (caps[7] \div 8) % 2 = 1   \* bit 11 of 64

ValidDescriptor(d) ==
    /\ RoleProfile(d.role, d.profile)
    /\ FirmwareUpdateCapable(d.caps)
    /\ d.role = BACKPLANE => d.outputs = 0
    /\ d.role = CARRIER => d.fans = 0

DIE_SENSORS == {1, 2}
ONE_WIRE    == 3

ValidSensor(source, identifier) ==
    LET unnamed == \A k \in DOMAIN identifier : identifier[k] = 0
    IN  \/ source \in DIE_SENSORS /\ unnamed
        \/ source = ONE_WIRE /\ ~unnamed

MEASURED   == {0, 1}    \* SampleStatus Valid, Stale
UNMEASURED == {2, 3}    \* SampleStatus Unavailable, Invalid

ValidReading(r) ==
    /\ ValidSensor(r.source, r.identifier)
    /\ r.status \in MEASURED \cup UNMEASURED
    /\ r.status \in MEASURED <=> r.centi # NONE
=============================================================================
