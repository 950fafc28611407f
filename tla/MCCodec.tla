------------------------------- MODULE MCCodec -------------------------------
EXTENDS Codec

(* A hash with collisions: the sum of the bytes, modulo 16. *)
MCToken(uid, nonce) ==
    LET OfUid(k) == uid[k]
        OfNonce(k) == nonce[k]
    IN  (MapThenSumSet(OfUid, DOMAIN uid) + MapThenSumSet(OfNonce, DOMAIN nonce)) % 16

U16 == <<1, 2>>
U32 == <<3, 4, 5, 6>>
V32 == <<255, 254, 253, 252>>
U64 == <<7, 8, 9, 10, 11, 12, 13, 14>>
Id  == [k \in 1 .. 12 |-> 20 + k]
Digest == [k \in 1 .. 32 |-> 100 + k]
V1 == [major |-> <<40, 41>>, minor |-> <<42, 43>>, patch |-> <<44, 45>>]
V2 == [major |-> <<50, 51>>, minor |-> <<52, 53>>, patch |-> <<54, 55>>]
Bound == [slot |-> 254, uid |-> Id]
Limits == [voltage |-> U32, current |-> V32, power |-> <<0, 0, 0, 9>>]

Backplane == [role |-> BACKPLANE, profile |-> NONE, revision |-> 1, impact |-> 1,
              caps |-> <<0, 0, 0, 0, 0, 0, 8, 51>>, outputs |-> 0, fans |-> 2, sensors |-> 255,
              layout |-> 3, firmware |-> V1, bootloader |-> V2]
Carrier == [Backplane EXCEPT !.role = CARRIER, !.profile = 4, !.impact = 2, !.outputs = 1, !.fans = 0]

Control ==
    {[kind |-> "EMERGENCY_DISABLE", node |-> n, requester |-> 15, request |-> U64] : n \in {0, 7}}
    \cup {[kind |-> k, node |-> 254, requester |-> 1, request |-> U64] :
             k \in {"ACKNOWLEDGE_EMERGENCY", "REQUEST_STATUS"}}
    \cup {[kind |-> "SET_CARRIER_POLICY", node |-> 1, requester |-> 15, request |-> U64,
           enabled |-> e, limits |-> l] : e \in BOOLEAN, l \in {NONE, Limits}}
    \cup {[kind |-> "SET_FAN", node |-> 1, requester |-> 15, request |-> U64,
           fan |-> n, duty |-> 100] : n \in FanId}
    \cup {[kind |-> "SET_BINDING", node |-> 1, requester |-> 15, request |-> U64,
           binding |-> b] : b \in {NONE, Bound}}
    \cup {[kind |-> "COMMAND_RESPONSE", node |-> 1, requester |-> 15, request |-> U64,
           opcode |-> 1, target |-> 15, result |-> 13, detail |-> U32]}

Reports ==
    {[kind |-> "NODE_STATE", node |-> 1, sequence |-> U16, service |-> 3, output |-> b,
      good |-> ~b, emergency |-> b, faults |-> U32, uptime |-> V32] : b \in BOOLEAN}
    \cup {[kind |-> "FAN_STATE", node |-> 1, fan |-> n, duty |-> 0, sequence |-> U16,
           rpm |-> <<60, 61>>, stalled |-> TRUE] : n \in FanId}
    \cup {[kind |-> "POWER", node |-> 1, source |-> 2, sequence |-> U16, voltage |-> U32,
           current |-> V32, power |-> <<70, 71, 72, 73>>]}
    \cup {[kind |-> "TEMPERATURE", node |-> 1, sequence |-> U16, source |-> q[1], status |-> q[2],
           identifier |-> q[3], centi |-> q[4]] :
             q \in {<<1, 0, <<0, 0, 0, 0, 0, 0, 0, 0>>, <<60, 61>>>>, <<3, 1, U64, <<0, 0>>>>,
                    <<2, 2, <<0, 0, 0, 0, 0, 0, 0, 0>>, NONE>>, <<3, 3, U64, NONE>>}}
    \cup {[kind |-> "NODE_INFO", node |-> 1, info |-> d] : d \in {Backplane, Carrier}}
    \cup {[kind |-> "HEARTBEAT", node |-> 1, sequence |-> U16, service |-> 5, update |-> 8,
           faults |-> U32, uptime |-> V32]}
    \cup {[kind |-> "BINDING", node |-> 254, binding |-> b] : b \in {NONE, Bound}}

Commissioning ==
    {[kind |-> "NODE_CLAIM", requester |-> 0, uid |-> Id, node |-> 254, state |-> 1, nonce |-> U16],
     [kind |-> "DISCOVER", requester |-> 15, nonce |-> U64],
     [kind |-> "IDENTIFY", requester |-> 15, request |-> U64, uid |-> Id, seconds |-> U16],
     [kind |-> "ASSIGN_NODE", requester |-> 15, request |-> U64, uid |-> Id, node |-> 1],
     [kind |-> "CLEAR_NODE", requester |-> 15, request |-> U64, uid |-> Id]}
    \cup {[kind |-> "DISCOVERY_RESPONSE", requester |-> 15, uid |-> Id, node |-> n, state |-> 3,
           major |-> 1, minor |-> 0, nonce |-> U64, info |-> Carrier] : n \in {NONE, 7}}
    \cup {[kind |-> "COMMISSIONING_RESULT", requester |-> 15, request |-> U64, uid |-> Id,
           opcode |-> 4, result |-> 11, node |-> n, state |-> 2] : n \in {NONE, 7}}

Firmware ==
    {[kind |-> "FW_BEGIN", node |-> 1, requester |-> 15, request |-> U64, session |-> U32,
      size |-> V32, role |-> q[1], profile |-> q[2], revision |-> 254, layout |-> 1,
      version |-> V1, digest |-> Digest] : q \in {<<BACKPLANE, NONE>>, <<CARRIER, 1>>}}
    \cup {[kind |-> "FW_DATA", node |-> 1, requester |-> 15, session |-> U32, offset |-> V32,
           len |-> n, bytes |-> [k \in 1 .. 48 |-> IF k <= n THEN 200 - k ELSE 0]] : n \in {1, 48}}
    \cup {[kind |-> k, node |-> 1, requester |-> 15, request |-> U64, session |-> U32] :
             k \in {"FW_FINISH", "FW_ABORT"}}
    \cup {[kind |-> "FW_ACTIVATE", node |-> 1, requester |-> 15, request |-> U64, session |-> U32,
           interrupt |-> b] : b \in BOOLEAN}
    \cup {[kind |-> "FW_STATUS", node |-> 1, requester |-> 15, request |-> U64],
          [kind |-> "FW_ACK", node |-> 1, requester |-> 15, request |-> U64, session |-> U32,
           next |-> V32, state |-> 1, error |-> 12, window |-> 8, detail |-> <<80, 81, 82, 83>>]}
    \cup {[kind |-> "FW_STATUS_RESPONSE", node |-> 1, requester |-> 15, request |-> U64, state |-> 3,
           error |-> 0, impact |-> 2, running |-> V1, staged |-> v, session |-> U32, next |-> V32,
           digest |-> Digest] : v \in {NONE, V2}}

MCMessages == Control \cup Reports \cup Commissioning \cup Firmware
=============================================================================
