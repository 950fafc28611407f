----------------------------- MODULE ServiceCodec -----------------------------
(***************************************************************************)
(* The encoders and decoders of the messages that service a node             *)
(* (pdcan-protocol/src/lib.rs): commissioning, whose identifier carries a   *)
(* token in the place of node and target, and firmware update.              *)
(***************************************************************************)
EXTENDS OperationalCodec

(* Bitwise exclusive or of two bytes. *)
Xor(a, b) ==
    LET differ(i) == 2 ^ i * ((a \div 2 ^ i + b \div 2 ^ i) % 2) IN MapThenSumSet(differ, 0 .. 7)

(* A claim's token nonce is CLAIM_DOMAIN, 0x5044_4341_4E43_4C4D, with the Node ID
   and the 16-bit claim nonce xored into its low bytes: the domain keeps the
   tokens of claims apart from those of requests.                             *)
NodeClaimToken(uid, node, nonce) ==
    Token(uid, <<80, 68, 67, 65, 78, Xor(67, node), Xor(76, nonce[1]), Xor(77, nonce[2])>>)

CommissioningKinds == {"NODE_CLAIM", "DISCOVER", "DISCOVERY_RESPONSE", "IDENTIFY",
                       "ASSIGN_NODE", "CLEAR_NODE", "COMMISSIONING_RESULT"}

(* The token, the length and the writes of each commissioning message. *)
CommissioningBody(m) ==
    CASE m.kind = "NODE_CLAIM" ->
            [token |-> NodeClaimToken(m.uid, m.node, m.nonce), len |-> 16,
             writes |-> <<<<0, m.uid>>, <<12, <<m.node>>>>, <<13, <<m.state>>>>,
                          <<14, LittleEndian(m.nonce)>>>>]
      [] m.kind = "DISCOVER" ->
            [token |-> 0, len |-> 8, writes |-> <<<<0, LittleEndian(m.nonce)>>>>]
      [] m.kind = "DISCOVERY_RESPONSE" ->
            [token |-> Token(m.uid, m.nonce), len |-> 64,
             writes |-> <<<<0, m.uid>>, <<12, <<NodeByte(m.node)>>>>, <<13, <<m.state>>>>,
                          <<14, <<m.major>>>>, <<15, <<m.minor>>>>>>
                        \o InfoWrites(m.info, 16) \o <<<<48, LittleEndian(m.nonce)>>>>]
      [] OTHER ->
            [token |-> Token(m.uid, m.request),
             len |-> IF m.kind = "CLEAR_NODE" THEN 20 ELSE 24,
             writes |-> <<RequestId(m), <<8, m.uid>>>> \o
                CASE m.kind = "IDENTIFY" -> <<<<20, LittleEndian(m.seconds)>>>>
                  [] m.kind = "ASSIGN_NODE" -> <<<<20, <<m.node>>>>>>
                  [] m.kind = "CLEAR_NODE" -> <<>>
                  [] m.kind = "COMMISSIONING_RESULT" ->
                        <<<<20, <<m.opcode>>>>, <<21, <<m.result>>>>,
                          <<22, <<NodeByte(m.node)>>>>, <<23, <<m.state>>>>>>]

(* The caller gives a discovery response the node of its info, which the code
   compares with the response's own; they are one field here.                 *)
EncodeCommissioning(m) ==
    LET body == CommissioningBody(m)
        header == [priority |-> 6, class |-> MessageClass.commissioning,
                   token |-> body.token, requester |-> m.requester,
                   opcode |-> Opcode[m.kind]]
    IN  IF /\ m.kind = "NODE_CLAIM" <=> ~HostRequester(m.requester)
           /\ m.kind = "DISCOVERY_RESPONSE" => ValidDescriptor(m.info)
        THEN {[id |-> CommissioningHeaderEncode(h), payload |-> Payload(body.len, body.writes)] :
                h \in CommissioningHeaderNew(header)}
        ELSE {}

(* The fields of a message whose opcode is that of kind. *)
DecodeCommissioningBody(kind, h, p) ==
    LET request == [request |-> ReadLe(p, 0, 8), uid |-> ReadUid(p, 8)]
        Answers == h.token = Token(request.uid, request.request)
        Node(b) == b = BROADCAST_NODE \/ ValidNodeId(b)
    IN CASE kind = "NODE_CLAIM" ->
            When(/\ Length(p) = 16
                 /\ ValidNodeId(p[12])
                 /\ p[13] \in CommissioningState
                 /\ h.token = NodeClaimToken(ReadUid(p, 0), p[12], ReadLe(p, 14, 2)),
                 [uid |-> ReadUid(p, 0), node |-> p[12], state |-> p[13],
                  nonce |-> ReadLe(p, 14, 2)])
      [] kind = "DISCOVER" ->
            When(Length(p) = 8 /\ h.token = 0, [nonce |-> ReadLe(p, 0, 8)])
      [] kind = "DISCOVERY_RESPONSE" ->
            {[uid |-> ReadUid(p, 0), node |-> OptionalNode(p[12]), state |-> p[13],
              major |-> p[14], minor |-> p[15], nonce |-> ReadLe(p, 48, 8), info |-> info] :
                info \in IF /\ Length(p) = 64
                            /\ Zero(p, 56, 64)
                            /\ Node(p[12])
                            /\ h.token = Token(ReadUid(p, 0), ReadLe(p, 48, 8))
                            /\ p[13] \in CommissioningState
                         THEN DecodeInfo(p, 16) ELSE {}}
      [] kind = "IDENTIFY" ->
            When(Length(p) = 24 /\ Zero(p, 22, 24) /\ Answers,
                 Join(request, [seconds |-> ReadLe(p, 20, 2)]))
      [] kind = "ASSIGN_NODE" ->
            When(Length(p) = 24 /\ Zero(p, 21, 24) /\ ValidNodeId(p[20]) /\ Answers,
                 Join(request, [node |-> p[20]]))
      [] kind = "CLEAR_NODE" ->
            When(Length(p) = 20 /\ Answers, request)
      [] kind = "COMMISSIONING_RESULT" ->
            When(/\ Length(p) = 24
                 /\ Answers
                 /\ p[21] \in CommandResult
                 /\ Node(p[22])
                 /\ p[23] \in CommissioningState,
                 Join(request, [opcode |-> p[20], result |-> p[21],
                                node |-> OptionalNode(p[22]), state |-> p[23]]))

DecodeCommissioning(f) ==
    UNION {UNION {{Join([kind |-> kind, requester |-> h.requester], args) :
                    args \in DecodeCommissioningBody(kind, h, f.payload)} :
                  kind \in {k \in CommissioningKinds :
                            /\ Opcode[k] = h.opcode
                            /\ k = "NODE_CLAIM" <=> ~HostRequester(h.requester)}} :
           h \in {h \in CommissioningHeaderDecode(f.id) : h.priority = 6}}

-----------------------------------------------------------------------------
(* Firmware update.                                                          *)

FIRMWARE_CHUNK_BYTES == 48

FirmwareKinds == {"FW_BEGIN", "FW_DATA", "FW_FINISH", "FW_ACTIVATE", "FW_ABORT", "FW_STATUS"}

FirmwareLength(kind) ==
    IF kind \in {"FW_BEGIN", "FW_DATA"} THEN 64 ELSE IF kind = "FW_STATUS" THEN 8 ELSE 16

(* A chunk holds its len bytes and zeros after them. *)
ValidChunk(len, bytes) ==
    len \in 1 .. FIRMWARE_CHUNK_BYTES /\ \A k \in len + 1 .. FIRMWARE_CHUNK_BYTES : bytes[k] = 0

FirmwareWrites(m) ==
    IF m.kind = "FW_STATUS" THEN <<RequestId(m)>>
    ELSE IF m.kind = "FW_DATA"
    THEN <<<<0, LittleEndian(m.session)>>, <<4, LittleEndian(m.offset)>>, <<8, <<m.len>>>>,
           <<16, m.bytes>>>>
    ELSE <<RequestId(m), <<8, LittleEndian(m.session)>>>> \o
         CASE m.kind = "FW_BEGIN" ->
                <<<<12, LittleEndian(m.size)>>, <<16, <<m.role>>>>,
                  <<17, <<ProfileByte(m.profile)>>>>, <<18, <<m.revision>>>>,
                  <<19, <<m.layout>>>>, <<20, Version(m.version)>>, <<32, m.digest>>>>
           [] m.kind = "FW_ACTIVATE" -> <<<<12, <<Flag(m.interrupt)>>>>>>
           [] OTHER -> <<>>

EncodeFirmwareRequest(m) ==
    IF /\ HostRequester(m.requester)
       /\ m.kind = "FW_BEGIN" => RoleProfile(m.role, m.profile)
       /\ m.kind = "FW_DATA" => ValidChunk(m.len, m.bytes)
    THEN Framed([priority |-> 5, class |-> MessageClass.firmware, node |-> m.node,
                 target |-> NODE_TARGET, requester |-> m.requester,
                 opcode |-> Opcode[m.kind]],
                FirmwareLength(m.kind), FirmwareWrites(m))
    ELSE {}

(* The fields of a request whose opcode is that of kind. *)
DecodeFirmwareBody(kind, p) ==
    LET request == [request |-> ReadLe(p, 0, 8)]
        session == Join(request, [session |-> ReadLe(p, 8, 4)])
    IN CASE kind = "FW_BEGIN" ->
            When(/\ Zero(p, 26, 32)
                 /\ RoleProfile(p[16], OptionalProfile(p[17]))
                 /\ p[18] \in HardwareRevision,
                 Join(session, [size |-> ReadLe(p, 12, 4), role |-> p[16],
                                profile |-> OptionalProfile(p[17]), revision |-> p[18],
                                layout |-> p[19], version |-> ReadVersion(p, 20),
                                digest |-> Bytes(p, 32, 32)]))
      [] kind = "FW_DATA" ->
            When(Zero(p, 9, 16) /\ ValidChunk(p[8], Bytes(p, 16, FIRMWARE_CHUNK_BYTES)),
                 [session |-> ReadLe(p, 0, 4), offset |-> ReadLe(p, 4, 4), len |-> p[8],
                  bytes |-> Bytes(p, 16, FIRMWARE_CHUNK_BYTES)])
      [] kind \in {"FW_FINISH", "FW_ABORT"} -> When(Zero(p, 12, 16), session)
      [] kind = "FW_ACTIVATE" ->
            When(Bool(p[12]) /\ Zero(p, 13, 16), Join(session, [interrupt |-> p[12] # 0]))
      [] kind = "FW_STATUS" -> {request}

DecodeFirmwareRequest(f) ==
    UNION {UNION {{Join([kind |-> kind, node |-> h.node, requester |-> h.requester], args) :
                    args \in DecodeFirmwareBody(kind, f.payload)} :
                  kind \in {k \in FirmwareKinds : /\ Opcode[k] = h.opcode
                                                  /\ Length(f.payload) = FirmwareLength(k)}} :
           h \in {h \in HeaderDecode(f.id) :
                    /\ h.class = MessageClass.firmware
                    /\ h.priority = 5
                    /\ h.target = NODE_TARGET
                    /\ HostRequester(h.requester)
                    /\ ValidNodeId(h.node)}}

EncodeFirmwareAck(m) ==
    IF ValidNodeId(m.node) /\ HostRequester(m.requester)
    THEN Framed([priority |-> 5, class |-> MessageClass.firmware, node |-> m.node,
                 target |-> NODE_TARGET, requester |-> m.requester,
                 opcode |-> Opcode.FW_ACK], 24,
                <<RequestId(m), <<8, LittleEndian(m.session)>>, <<12, LittleEndian(m.next)>>,
                  <<16, <<m.state>>>>, <<17, <<m.error>>>>, <<18, <<m.window>>>>,
                  <<20, LittleEndian(m.detail)>>>>)
    ELSE {}

DecodeFirmwareAck(f) ==
    LET p == f.payload IN
    {[kind |-> "FW_ACK", node |-> h.node, requester |-> h.requester,
      request |-> ReadLe(p, 0, 8), session |-> ReadLe(p, 8, 4), next |-> ReadLe(p, 12, 4),
      state |-> p[16], error |-> p[17], window |-> p[18], detail |-> ReadLe(p, 20, 4)] :
        h \in {h \in ScopedNodeMessage(f, 5, "firmware", Opcode.FW_ACK, 24) :
                p[19] = 0 /\ p[16] \in UpdateState /\ p[17] \in UpdateError}}

EncodeFirmwareStatus(m) ==
    IF ValidNodeId(m.node) /\ HostRequester(m.requester)
    THEN Framed([priority |-> 5, class |-> MessageClass.firmware, node |-> m.node,
                 target |-> NODE_TARGET, requester |-> m.requester,
                 opcode |-> Opcode.FW_STATUS_RESPONSE], 64,
                <<RequestId(m), <<8, <<m.state>>>>, <<9, <<m.error>>>>, <<10, <<m.impact>>>>,
                  <<11, <<Flag(m.staged # NONE)>>>>, <<12, Version(m.running)>>,
                  <<24, LittleEndian(m.session)>>, <<28, LittleEndian(m.next)>>,
                  <<32, m.digest>>>>
                \o IF m.staged = NONE THEN <<>> ELSE <<<<18, Version(m.staged)>>>>)
    ELSE {}

DecodeFirmwareStatus(f) ==
    LET p == f.payload IN
    {[kind |-> "FW_STATUS_RESPONSE", node |-> h.node, requester |-> h.requester,
      request |-> ReadLe(p, 0, 8), state |-> p[8], error |-> p[9], impact |-> p[10],
      running |-> ReadVersion(p, 12),
      staged |-> IF p[11] = 0 THEN NONE ELSE ReadVersion(p, 18),
      session |-> ReadLe(p, 24, 4), next |-> ReadLe(p, 28, 4), digest |-> Bytes(p, 32, 32)] :
        h \in {h \in ScopedNodeMessage(f, 5, "firmware", Opcode.FW_STATUS_RESPONSE, 64) :
                /\ Bool(p[11])
                /\ p[11] = 0 => Zero(p, 18, 24)
                /\ p[8] \in UpdateState
                /\ p[9] \in UpdateError
                /\ p[10] \in UpdateImpact}}
=============================================================================
