----------------------------- MODULE UpdateNode -----------------------------
(***************************************************************************)
(* A node's side of the firmware update: the sequencer of UpdateController *)
(* with the storage it sequences, as SimulatedNode::handle_firmware        *)
(* composes them (firmware/tools/pdcan-sim/src/lib.rs).  One action per    *)
(* request; the last parameter e is the error code of the acknowledgement. *)
(*                                                                         *)
(* An image is a function from byte offsets to bytes.  SHA-256 is taken to *)
(* be injective, so a manifest's digest is the image it was computed from. *)
(***************************************************************************)
EXTENDS UpdateController

CONSTANTS
    Bytes,     \* the values of a byte
    ZeroByte,  \* what a freshly erased byte reads
    Factory    \* SIMULATED_FIRMWARE, the version a node starts with

VARIABLES image, firmware, policy_enabled

storageVars == <<image, firmware, policy_enabled>>

nodeVars == <<vars, storageVars>>

ASSUME BytesAssumption == ZeroByte \in Bytes

AckError == UpdateError \cup {"ConflictingData"}

\* error.unwrap_or(UpdateError::None)
ErrorOf(r) == IF r \in UpdateError THEN r ELSE "None"

Empty == [i \in {} |-> ZeroByte]

NodeInit ==
    /\ Init
    /\ image = Empty
    /\ firmware = Factory
    /\ policy_enabled = FALSE

\* The acknowledgement every request but Status is answered with: the state
\* after the request.
FirmwareAck(e) ==
    [session |-> session', next_offset |-> next_offset', state |-> state', error |-> e]

FirmwareStatus ==
    [session |-> session, state |-> state, impact |-> Impact]

-----------------------------------------------------------------------------

\* Mutant: the buffer is resized and keeps its old bytes.
Erased_Resized(m) ==
    [i \in 0..(m.image_size - 1) |-> IF i \in DOMAIN image THEN image[i] ELSE ZeroByte]

Erased(m) == [i \in 0..(m.image_size - 1) |-> ZeroByte]

FwBegin(s, m, e) ==
    \E r \in Result :
        /\ begin(s, m, r)
        /\ e = ErrorOf(r)
        /\ image' = IF r = "Ok" THEN Erased(m) ELSE image
        /\ UNCHANGED <<firmware, policy_enabled>>

Covers(offset, bytes, i) == i - offset \in DOMAIN bytes

Overwritten(offset, bytes) ==
    [i \in DOMAIN image |-> IF Covers(offset, bytes, i) THEN bytes[i - offset] ELSE image[i]]

\* Mutant: it is checked that the buffer has such bytes, not which they are.
SameBytes_AnyBytes(offset, bytes) ==
    \A i \in DOMAIN bytes : offset + i \in DOMAIN image

SameBytes(offset, bytes) ==
    \A i \in DOMAIN bytes : offset + i \in DOMAIN image /\ image[offset + i] = bytes[i]

\* Mutant: a duplicate is written again instead of being compared.
Stored_DuplicatesToo(r, offset, bytes) ==
    IF r \in ChunkDisposition THEN Overwritten(offset, bytes) ELSE image

Stored(r, offset, bytes) ==
    IF r = "Write" THEN Overwritten(offset, bytes) ELSE image

FwData(s, offset, len, bytes, e) ==
    \E r \in Result :
        /\ accept_chunk(s, offset, len, r)
        /\ image' = Stored(r, offset, bytes)
        /\ e = IF r = "Duplicate" /\ ~SameBytes(offset, bytes)
               THEN "ConflictingData"
               ELSE ErrorOf(r)
        /\ UNCHANGED <<firmware, policy_enabled>>

\* Mutant: the length is checked, the content is not.
DigestMatches_LengthOnly == DOMAIN image = 0..(manifest.image_size - 1)

DigestMatches == image = manifest.digest

\* The hash is computed inside the handler, so verification starts and
\* completes in the one step.
FwFinish(s, e) ==
    \/ /\ \E r \in Result \ {"Ok"} : begin_verification(s, r) /\ e = ErrorOf(r)
       /\ UNCHANGED storageVars
    \/ /\ InSession("Receiving", s)
       /\ ReceivedAll
       /\ \E r \in Result : verdict(DigestMatches, r) /\ e = ErrorOf(r)
       /\ UNCHANGED storageVars

\* Mutant: the version of the request that was refused is taken over too.
Installed_Always(r) == IF manifest # NoManifest THEN manifest.version ELSE firmware

Installed(r) ==
    IF r = "Ok" /\ manifest # NoManifest THEN manifest.version ELSE firmware

\* The service is disabled whatever the plan says (disable_service is unused).
FwActivate(s, allow_interruption, e) ==
    \E r \in Result :
        /\ activate(s, allow_interruption, r)
        /\ e = ErrorOf(r)
        /\ firmware' = Installed(r)
        /\ policy_enabled' = (policy_enabled /\ r # "Ok")
        /\ UNCHANGED image

FwAbort(s, e) ==
    \E r \in Result :
        /\ abort(s, r)
        /\ e = ErrorOf(r)
        /\ image' = IF r = "Ok" THEN Empty ELSE image
        /\ UNCHANGED <<firmware, policy_enabled>>

\* ControlCommand::SetCarrierPolicy, which shares the policy with FwActivate.
SetCarrierPolicy(enabled) ==
    /\ policy_enabled' = enabled
    /\ UNCHANGED <<vars, image, firmware>>

\* The chunks the codec lets through: 1 to MaxLen bytes.
Chunks(len) == [0..(len - 1) -> Bytes]

Request(e) ==
    \/ \E s \in Sessions, m \in Manifests : FwBegin(s, m, e)
    \/ \E s \in Sessions, offset \in 0..U32_MAX, len \in 1..MaxLen :
           \E bytes \in Chunks(len) : FwData(s, offset, len, bytes, e)
    \/ \E s \in Sessions : FwFinish(s, e)
    \/ \E s \in Sessions, allow_interruption \in BOOLEAN :
           FwActivate(s, allow_interruption, e)
    \/ \E s \in Sessions : FwAbort(s, e)

NodeNext ==
    \/ \E e \in AckError : Request(e)
    \/ \E enabled \in BOOLEAN : SetCarrierPolicy(enabled)

NodeSpec == NodeInit /\ [][NodeNext]_nodeVars

-----------------------------------------------------------------------------

\* The storage and the service flag keep their types.
NodeTypeOK ==
    /\ TypeOK
    /\ DOMAIN image \subseteq 0..(ACTIVE_APPLICATION_BYTES - 1)
    /\ \A i \in DOMAIN image : image[i] \in Bytes
    /\ firmware \in {Factory} \cup {m.version : m \in Manifests}
    /\ policy_enabled \in BOOLEAN

\* While chunks are accepted the buffer is exactly as long as the manifest
\* says, so copy_from_slice never indexes past it, and every byte above the
\* cumulative offset still reads as erased: nothing of an earlier or an
\* aborted transfer can end up in this image.
NoStaleBytes ==
    state = "Receiving" =>
        /\ DOMAIN image = 0..(manifest.image_size - 1)
        /\ \A i \in DOMAIN image : i >= next_offset => image[i] = ZeroByte

\* A staged or activating image is, byte for byte, the image its manifest
\* was made for, however its chunks were repeated, reordered or mixed with
\* those of other sessions.
StagedVerified ==
    state \in {"Staged", "Activating"} => image = manifest.digest

\* A byte that has been acknowledged keeps its value until the update ends:
\* a duplicate with other bytes is reported and never stored.
AcknowledgedBytesStable ==
    [][(state \in InProgress /\ state' \in InProgress) =>
          \A i \in DOMAIN image : i < next_offset => image'[i] = image[i]]_nodeVars

\* Data the node acknowledges without an error is in its buffer as it was
\* sent, whether it was written now or was taken for a duplicate.
AcknowledgedMeansStored ==
    [][state = "Receiving" => \A offset \in 0..U32_MAX, len \in 1..MaxLen :
          \A bytes \in Chunks(len) : FwData(session, offset, len, bytes, "None") =>
              \A j \in DOMAIN bytes : image'[offset + j] = bytes[j]]_nodeVars

\* Once the node has accepted an activation no request takes it back: no
\* abort, Begin or chunk gets it out of Activating or changes the version it
\* will run.  (The sequencer alone could still be failed by a result of
\* verification that nobody waits for; the node never delivers one.)
ActivatingIsFinal ==
    [][state = "Activating" => state' = "Activating" /\ firmware' = firmware]_nodeVars

\* The node implements the promise of AbstractUpdate.
Runnable == {m \in Manifests : m.target = Target /\ Fits(m)}

StagedImage ==
    IF state = "Staged" THEN {[manifest |-> manifest, image |-> image]} ELSE {}

Abstract == INSTANCE AbstractUpdate WITH
    staged <- StagedImage, running <- firmware

ImplementsAbstract == Abstract!Spec
=============================================================================
