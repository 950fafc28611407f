-------------------------- MODULE UpdateController --------------------------
(***************************************************************************)
(* The transport-independent update sequencer of pdcan-core                *)
(* (firmware/crates/pdcan-core/src/lib.rs, struct UpdateController).  The  *)
(* variables are the fields of the struct.  One action per method, whose   *)
(* last parameter r is the value the method returns, and one disjunct per  *)
(* way it returns.                                                         *)
(*                                                                         *)
(* Offsets count bytes.  The caller is unconstrained here: Next is every   *)
(* call with every argument.  UpdateNode composes the sequencer with the   *)
(* storage it sequences, FirmwareTransfer with the bus and the host.       *)
(***************************************************************************)
EXTENDS Integers

CONSTANTS
    Target,                    \* the ImageTarget the node was built for
    Impact,                    \* its UpdateImpact: "Live" or "Interrupt"
    Sessions,                  \* the session numbers in use; 0 is one of them
    Manifests,                 \* the manifests a Begin may carry
    NoManifest,                \* Option::None
    ACTIVE_APPLICATION_BYTES,  \* 110 * 1024 in the source
    U32_MAX,                   \* the largest offset that fits the wire
    MaxLen                     \* the largest chunk length a caller passes

ASSUME ImpactAssumption == Impact \in {"Live", "Interrupt"}

ASSUME SessionsAssumption == 0 \in Sessions

ASSUME SizesAssumption ==
    /\ U32_MAX \in Nat
    /\ ACTIVE_APPLICATION_BYTES \in 1..U32_MAX
    /\ MaxLen \in Nat

ASSUME ManifestsAssumption ==
    /\ NoManifest \notin Manifests
    /\ \A m \in Manifests : m.image_size \in 0..U32_MAX

VARIABLES state, error, session, manifest, next_offset

vars == <<state, error, session, manifest, next_offset>>

\* Trial, Confirmed and Rollback are numbered on the wire too, but nothing in
\* the repository sets them: the bootloader hand-over is a scaffold.
UpdateState == {"Idle", "Receiving", "Verifying", "Staged", "Activating", "Failed"}

UpdateError == {"None", "Busy", "WrongTarget", "Oversize", "Offset", "Digest",
                "NotStaged", "InterruptionNotAuthorized"}

ChunkDisposition == {"Write", "Duplicate"}

\* What a method returns: Ok(()), Ok(disposition) or Err(error).
Result == {"Ok"} \cup ChunkDisposition \cup (UpdateError \ {"None"})

Init ==
    /\ state = "Idle"
    /\ error = "None"
    /\ session = 0
    /\ manifest = NoManifest
    /\ next_offset = 0

\* The call is refused and only the sticky error code tells.
reject(e, r) ==
    /\ error' = e
    /\ r = e
    /\ UNCHANGED <<state, session, manifest, next_offset>>

\* The call ends the update; session, manifest and offset stay readable.
fail(e, r) ==
    /\ state' = "Failed"
    /\ error' = e
    /\ r = e
    /\ UNCHANGED <<session, manifest, next_offset>>

InSession(st, s) == state = st /\ session = s

-----------------------------------------------------------------------------

\* Mutant: a staged image no longer blocks a new Begin.
Startable_StagedToo == state \in {"Idle", "Failed", "Staged"}

Startable == state \in {"Idle", "Failed"}

Fits(m) == m.image_size \in 1..ACTIVE_APPLICATION_BYTES

begin(s, m, r) ==
    \/ /\ ~Startable
       /\ reject("Busy", r)
    \/ /\ Startable
       /\ m.target # Target
       /\ fail("WrongTarget", r)
    \/ /\ Startable
       /\ m.target = Target
       /\ ~Fits(m)
       /\ fail("Oversize", r)
    \/ /\ Startable
       /\ m.target = Target
       /\ Fits(m)
       /\ state' = "Receiving"
       /\ error' = "None"
       /\ session' = s
       /\ manifest' = m
       /\ next_offset' = 0
       /\ r = "Ok"

\* The end of a chunk in the u32 arithmetic of the method.
End(offset, len) == (offset + len) % (U32_MAX + 1)

\* Mutants: the start of the chunk is bounded, not its end; the end is
\* computed with a plain addition.
InImage_StartOnly(offset, len) ==
    /\ offset + len <= U32_MAX
    /\ len # 0
    /\ offset <= manifest.image_size

InImage_Wraps(offset, len) ==
    /\ len # 0
    /\ End(offset, len) <= manifest.image_size

\* The chunk lies inside the image.  The else arm of `let Some(manifest)' is
\* not modelled: SessionConsistent shows a receiving session has a manifest.
InImage(offset, len) ==
    /\ offset + len <= U32_MAX
    /\ len # 0
    /\ End(offset, len) <= manifest.image_size

\* Mutant: a chunk that was already taken is refused like a gap.
accept_chunk_NoDuplicates(s, offset, len, r) ==
    \/ /\ ~InSession("Receiving", s)
       /\ reject("Busy", r)
    \/ /\ InSession("Receiving", s)
       /\ ~InImage(offset, len) \/ offset # next_offset
       /\ reject("Offset", r)
    \/ /\ InSession("Receiving", s)
       /\ InImage(offset, len)
       /\ offset = next_offset
       /\ next_offset' = End(offset, len)
       /\ error' = "None"
       /\ r = "Write"
       /\ UNCHANGED <<state, session, manifest>>

accept_chunk(s, offset, len, r) ==
    \/ /\ ~InSession("Receiving", s)
       /\ reject("Busy", r)
    \/ /\ InSession("Receiving", s)
       /\ \/ ~InImage(offset, len)
          \/ offset # next_offset /\ End(offset, len) > next_offset
       /\ reject("Offset", r)
    \/ /\ InSession("Receiving", s)
       /\ InImage(offset, len)
       /\ offset = next_offset
       /\ next_offset' = End(offset, len)
       /\ error' = "None"
       /\ r = "Write"
       /\ UNCHANGED <<state, session, manifest>>
    \/ /\ InSession("Receiving", s)
       /\ InImage(offset, len)
       /\ offset # next_offset
       /\ End(offset, len) <= next_offset
       /\ error' = "None"
       /\ r = "Duplicate"
       /\ UNCHANGED <<state, session, manifest, next_offset>>

ReceivedAll == next_offset = manifest.image_size

\* A success leaves the sticky error alone.
begin_verification(s, r) ==
    \/ /\ ~InSession("Receiving", s)
       /\ reject("Busy", r)
    \/ /\ InSession("Receiving", s)
       /\ ~ReceivedAll
       /\ reject("Offset", r)
    \/ /\ InSession("Receiving", s)
       /\ ReceivedAll
       /\ state' = "Verifying"
       /\ r = "Ok"
       /\ UNCHANGED <<error, session, manifest, next_offset>>

\* The effect of a digest comparison on the update being verified.
verdict(valid, r) ==
    \/ /\ ~valid
       /\ fail("Digest", r)
    \/ /\ valid
       /\ state' = "Staged"
       /\ error' = "None"
       /\ r = "Ok"
       /\ UNCHANGED <<session, manifest, next_offset>>

\* A completion nobody waits for fails whatever update is under way: the
\* method takes no session.
verification_complete(valid, r) ==
    \/ /\ state # "Verifying"
       /\ fail("Busy", r)
    \/ /\ state = "Verifying"
       /\ verdict(valid, r)

MayInterrupt(allow_interruption) == Impact = "Interrupt" => allow_interruption

activate(s, allow_interruption, r) ==
    \/ /\ ~InSession("Staged", s)
       /\ reject("NotStaged", r)
    \/ /\ InSession("Staged", s)
       /\ ~MayInterrupt(allow_interruption)
       /\ reject("InterruptionNotAuthorized", r)
    \/ /\ InSession("Staged", s)
       /\ MayInterrupt(allow_interruption)
       /\ state' = "Activating"
       /\ error' = "None"
       /\ r = "Ok"
       /\ UNCHANGED <<session, manifest, next_offset>>

Abortable(s) == s = session /\ state # "Activating"

abort(s, r) ==
    \/ /\ ~Abortable(s)
       /\ reject("Busy", r)
    \/ /\ Abortable(s)
       /\ state' = "Idle"
       /\ error' = "None"
       /\ session' = 0
       /\ manifest' = NoManifest
       /\ next_offset' = 0
       /\ r = "Ok"

Call(r) ==
    \/ \E s \in Sessions, m \in Manifests : begin(s, m, r)
    \/ \E s \in Sessions, offset \in 0..U32_MAX, len \in 0..MaxLen :
           accept_chunk(s, offset, len, r)
    \/ \E s \in Sessions : begin_verification(s, r)
    \/ \E valid \in BOOLEAN : verification_complete(valid, r)
    \/ \E s \in Sessions, allow_interruption \in BOOLEAN :
           activate(s, allow_interruption, r)
    \/ \E s \in Sessions : abort(s, r)

Next == \E r \in Result : Call(r)

Spec == Init /\ [][Next]_vars

-----------------------------------------------------------------------------

\* Every field keeps its type under every sequence of calls.
TypeOK ==
    /\ state \in UpdateState
    /\ error \in UpdateError
    /\ session \in Sessions
    /\ manifest \in Manifests \cup {NoManifest}
    /\ next_offset \in 0..U32_MAX

\* The states in which an accepted Begin is still being served.
InProgress == {"Receiving", "Verifying", "Staged", "Activating"}

\* An update in progress always has the manifest of an image this node can
\* run, the cumulative offset never passes its length, and nothing short of
\* the full length is ever verified, staged or activated.  (It also makes the
\* InvalidManifest arms of accept_chunk and begin_verification unreachable.)
SessionConsistent ==
    state \in InProgress =>
        /\ manifest # NoManifest
        /\ manifest.target = Target
        /\ Fits(manifest)
        /\ next_offset <= manifest.image_size
        /\ state # "Receiving" => next_offset = manifest.image_size

\* While one update is in progress no call, accepted or refused, moves it to
\* another session or manifest, takes back an acknowledged byte, or returns
\* it to an earlier phase; leaving it takes an abort or a failure.
Phase(st) == CASE st = "Receiving"  -> 1
               [] st = "Verifying"  -> 2
               [] st = "Staged"     -> 3
               [] st = "Activating" -> 4

SessionAdvances ==
    [][(state \in InProgress /\ state' \in InProgress) =>
        /\ session' = session
        /\ manifest' = manifest
        /\ next_offset' >= next_offset
        /\ Phase(state') >= Phase(state)]_vars

\* A chunk the sequencer accepts, as new or as a duplicate, was received to its
\* last byte: no end that wrapped around passes for bytes it already has.
AcceptedIsReceived ==
    [][\A s \in Sessions, offset \in 0..U32_MAX, len \in 0..MaxLen, r \in ChunkDisposition :
          accept_chunk(s, offset, len, r) => offset + len <= next_offset']_vars
=============================================================================
