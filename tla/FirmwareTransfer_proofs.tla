----------------------- MODULE FirmwareTransfer_proofs -----------------------
(***************************************************************************)
(* Proofs about the firmware update, from the inside out: the sequencer,   *)
(* under any caller; a node's side of the update; and the transfer over    *)
(* the bus.  They hold for every partition size, chunk length, set of      *)
(* manifests, sessions and byte values, every number of pdcan processes,   *)
(* all retry and window counts, images and chunks of every size, and any   *)
(* loss and delay of frames.                                               *)
(*                                                                         *)
(* The argument about the transfer has three parts.  Every frame on the    *)
(* bus is one that an invocation sends (Shapes), so that the node only     *)
(* ever does what UpdateNode lets it do and its theorems hold here.  A     *)
(* frame that could start a session over is on the bus only while none of  *)
(* its data was accepted (Fresh), so that what a process knows of its      *)
(* offset stays true (NeverAhead).  And every reply under way is the trace *)
(* of what it reports (Truthful, Informed).                                 *)
(***************************************************************************)
EXTENDS FirmwareTransfer, SequenceTheorems, TLAPS

USE ImpactAssumption, SessionsAssumption, SizesAssumption, ManifestsAssumption

-----------------------------------------------------------------------------
\* The sequencer on its own: any order of calls.

\* The end of a chunk inside the image has not wrapped around.
LEMMA EndFits ==
    ASSUME NEW offset \in 0..U32_MAX, NEW len \in 0..MaxLen, InImage(offset, len)
    PROVE  /\ End(offset, len) = offset + len
           /\ offset + len <= U32_MAX /\ len # 0
           /\ offset + len <= manifest.image_size
<1>1. ASSUME NEW x \in 0..U32_MAX PROVE x % (U32_MAX + 1) = x
  BY <1>1
<1>2. offset + len \in 0..U32_MAX
  BY DEF InImage
<1>3. End(offset, len) = offset + len
  BY <1>1, <1>2 DEF End
<1> QED
  BY <1>2, <1>3 DEF InImage

\* Every field keeps its type under every sequence of calls: in particular
\* the cumulative offset always fits the u32 it travels in.
LEMMA TypeInductive == TypeOK /\ [Next]_vars => TypeOK'
<1> SUFFICES ASSUME TypeOK, [Next]_vars PROVE TypeOK'
  OBVIOUS
<1> USE DEF TypeOK, UpdateState, UpdateError, ChunkDisposition, Result, reject, fail
<1>1. ASSUME NEW r, NEW s \in Sessions, NEW m \in Manifests, begin(s, m, r) PROVE TypeOK'
  BY <1>1 DEF begin
<1>2. ASSUME NEW r, NEW s \in Sessions, NEW offset \in 0..U32_MAX, NEW len \in 0..MaxLen,
             accept_chunk(s, offset, len, r)
      PROVE TypeOK'
  BY <1>2, EndFits DEF accept_chunk
<1>3. ASSUME NEW r, NEW s \in Sessions, begin_verification(s, r) PROVE TypeOK'
  BY <1>3 DEF begin_verification, ReceivedAll
<1>4. ASSUME NEW r, NEW valid \in BOOLEAN, verification_complete(valid, r) PROVE TypeOK'
  BY <1>4 DEF verification_complete, verdict
<1>5. ASSUME NEW r, NEW s \in Sessions, NEW allow_interruption \in BOOLEAN,
             activate(s, allow_interruption, r)
      PROVE TypeOK'
  BY <1>5 DEF activate
<1>6. ASSUME NEW r, NEW s \in Sessions, abort(s, r) PROVE TypeOK'
  BY <1>6 DEF abort
<1>7. CASE UNCHANGED vars
  BY <1>7 DEF vars
<1> QED
  BY <1>1, <1>2, <1>3, <1>4, <1>5, <1>6, <1>7 DEF Next, Call

THEOREM TypeCorrect == Spec => []TypeOK
<1>1. Init => TypeOK
  BY DEF Init, TypeOK, UpdateState, UpdateError, Result
<1> QED
  BY <1>1, TypeInductive, PTL DEF Spec

-----------------------------------------------------------------------------

\* SessionConsistent is inductive relative to the types: every action either
\* leaves the update it was in or touches manifest and offset together.
LEMMA SessionInductive ==
    TypeOK /\ SessionConsistent /\ [Next]_vars => SessionConsistent'
<1> SUFFICES ASSUME TypeOK, SessionConsistent, [Next]_vars
             PROVE  SessionConsistent'
  OBVIOUS
<1> USE DEF TypeOK, SessionConsistent, InProgress, Fits, InSession, reject, fail
<1>1. ASSUME NEW r, NEW s \in Sessions, NEW m \in Manifests, begin(s, m, r)
      PROVE  SessionConsistent'
  <2>1. CASE state' = "Receiving" /\ manifest' = m /\ next_offset' = 0 /\ m.target = Target /\ Fits(m)
    BY <2>1
  <2>2. CASE UNCHANGED <<state, manifest, next_offset>> \/ state' = "Failed"
    BY <2>2
  <2> QED
    BY <1>1, <2>1, <2>2 DEF begin
<1>2. ASSUME NEW r, NEW s \in Sessions, NEW offset \in 0..U32_MAX, NEW len \in 0..MaxLen,
             accept_chunk(s, offset, len, r)
      PROVE SessionConsistent'
  BY <1>2, EndFits DEF accept_chunk
<1>3. ASSUME NEW r, NEW s \in Sessions, begin_verification(s, r) PROVE SessionConsistent'
  BY <1>3 DEF begin_verification, ReceivedAll
<1>4. ASSUME NEW r, NEW valid \in BOOLEAN, verification_complete(valid, r)
      PROVE SessionConsistent'
  BY <1>4 DEF verification_complete, verdict
<1>5. ASSUME NEW r, NEW s \in Sessions, NEW allow_interruption \in BOOLEAN,
             activate(s, allow_interruption, r)
      PROVE SessionConsistent'
  BY <1>5 DEF activate
<1>6. ASSUME NEW r, NEW s \in Sessions, abort(s, r) PROVE SessionConsistent'
  BY <1>6 DEF abort
<1>7. CASE UNCHANGED vars
  BY <1>7 DEF vars
<1> QED
  BY <1>1, <1>2, <1>3, <1>4, <1>5, <1>6, <1>7 DEF Next, Call

\* No image that is foreign, empty, oversized or incomplete is ever verified,
\* staged or activated, whatever the callers do.
THEOREM SessionConsistency == Spec => []SessionConsistent
<1>1. Init => SessionConsistent
  BY DEF Init, SessionConsistent, InProgress
<1> QED
  BY <1>1, TypeCorrect, SessionInductive, PTL DEF Spec

\* An update in progress is never re-targeted, rewound or restarted by a call
\* that neither aborts nor fails it.
THEOREM SessionsAdvance == Spec => SessionAdvances
<1>1. TypeOK /\ SessionConsistent /\ [Next]_vars
        => [(state \in InProgress /\ state' \in InProgress) =>
              /\ session' = session
              /\ manifest' = manifest
              /\ next_offset' >= next_offset
              /\ Phase(state') >= Phase(state)]_vars
  <2> SUFFICES ASSUME TypeOK, [Next]_vars,
                      state \in InProgress, state' \in InProgress
               PROVE  /\ session' = session
                      /\ manifest' = manifest
                      /\ next_offset' >= next_offset
                      /\ Phase(state') >= Phase(state)
    OBVIOUS
  <2> USE DEF TypeOK, InProgress, Phase, InSession, reject, fail
  <2>1. ASSUME NEW r, NEW s \in Sessions, NEW m \in Manifests, begin(s, m, r)
        PROVE  UNCHANGED <<state, session, manifest, next_offset>>
    BY <2>1 DEF begin, Startable
  <2>2. ASSUME NEW r, NEW s \in Sessions, NEW offset \in 0..U32_MAX, NEW len \in 0..MaxLen,
               accept_chunk(s, offset, len, r)
        PROVE  UNCHANGED <<state, session, manifest>> /\ next_offset' >= next_offset
    BY <2>2, EndFits DEF accept_chunk
  <2>3. ASSUME NEW r, NEW s \in Sessions, begin_verification(s, r)
        PROVE  /\ UNCHANGED <<session, manifest, next_offset>>
               /\ Phase(state') >= Phase(state)
    BY <2>3 DEF begin_verification
  <2>4. ASSUME NEW r, NEW valid \in BOOLEAN, verification_complete(valid, r)
        PROVE  /\ UNCHANGED <<session, manifest, next_offset>>
               /\ Phase(state') >= Phase(state)
    BY <2>4 DEF verification_complete, verdict
  <2>5. ASSUME NEW r, NEW s \in Sessions, NEW allow_interruption \in BOOLEAN,
               activate(s, allow_interruption, r)
        PROVE  /\ UNCHANGED <<session, manifest, next_offset>>
               /\ Phase(state') >= Phase(state)
    BY <2>5 DEF activate
  <2>6. ASSUME NEW r, NEW s \in Sessions, abort(s, r)
        PROVE  UNCHANGED <<state, session, manifest, next_offset>>
    BY <2>6 DEF abort
  <2>7. CASE UNCHANGED vars
    BY <2>7 DEF vars
  <2> QED
    BY <2>1, <2>2, <2>3, <2>4, <2>5, <2>6, <2>7 DEF Next, Call
<1> QED
  BY <1>1, TypeCorrect, SessionConsistency, PTL DEF Spec, SessionAdvances

\* What the sequencer takes for received was received: no wrapped end passes.
THEOREM AcceptedChunksReceived == Spec => AcceptedIsReceived
<1>1. ASSUME NEW s \in Sessions, NEW offset \in 0..U32_MAX, NEW len \in 0..MaxLen,
             NEW r \in ChunkDisposition, TypeOK, accept_chunk(s, offset, len, r)
      PROVE  offset + len <= next_offset'
  BY <1>1, EndFits DEF accept_chunk, reject, TypeOK, ChunkDisposition
<1>2. TypeOK /\ [Next]_vars
        => [\A s \in Sessions, offset \in 0..U32_MAX, len \in 0..MaxLen,
              r \in ChunkDisposition :
                accept_chunk(s, offset, len, r) => offset + len <= next_offset']_vars
  BY <1>1
<1> QED
  BY <1>2, TypeCorrect, PTL DEF Spec, AcceptedIsReceived

-----------------------------------------------------------------------------
\* The node, which calls it as requests arrive.

USE BytesAssumption

\* Everything a node step can do to the sequencer: one of its calls, the
\* verification Finish runs to its end, or nothing.
FinishStep ==
    /\ state = "Receiving"
    /\ ReceivedAll
    /\ \E r \in Result : verdict(DigestMatches, r)

LEMMA ControllerStep == [NodeNext]_nodeVars => [Next]_vars \/ FinishStep
<1> SUFFICES ASSUME [NodeNext]_nodeVars PROVE [Next]_vars \/ FinishStep
  OBVIOUS
<1>1. ASSUME NEW e, NEW s \in Sessions, NEW m \in Manifests, FwBegin(s, m, e)
      PROVE  Next
  BY <1>1 DEF FwBegin, Next, Call
<1>2. ASSUME NEW e, NEW s \in Sessions, NEW offset \in 0..U32_MAX,
             NEW len \in 1..MaxLen, NEW bytes, FwData(s, offset, len, bytes, e)
      PROVE  Next
  <2>1. len \in 0..MaxLen
    OBVIOUS
  <2> QED
    BY <1>2, <2>1 DEF FwData, Next, Call
<1>3. ASSUME NEW e, NEW s \in Sessions, FwFinish(s, e) PROVE Next \/ FinishStep
  BY <1>3 DEF FwFinish, Next, Call, FinishStep, InSession
<1>4. ASSUME NEW e, NEW s \in Sessions, NEW allow_interruption \in BOOLEAN,
             FwActivate(s, allow_interruption, e)
      PROVE  Next
  BY <1>4 DEF FwActivate, Next, Call
<1>5. ASSUME NEW e, NEW s \in Sessions, FwAbort(s, e) PROVE Next
  BY <1>5 DEF FwAbort, Next, Call
<1>6. ASSUME NEW enabled \in BOOLEAN, SetCarrierPolicy(enabled) PROVE UNCHANGED vars
  BY <1>6 DEF SetCarrierPolicy
<1>7. CASE UNCHANGED nodeVars
  BY <1>7 DEF nodeVars
<1> QED
  BY <1>1, <1>2, <1>3, <1>4, <1>5, <1>6, <1>7 DEF NodeNext, Request

LEMMA ControllerInductive ==
    TypeOK /\ SessionConsistent /\ [NodeNext]_nodeVars
        => TypeOK' /\ SessionConsistent'
<1>1. TypeOK /\ SessionConsistent /\ FinishStep => TypeOK' /\ SessionConsistent'
  BY DEF FinishStep, ReceivedAll, verdict, fail, TypeOK, SessionConsistent,
         UpdateState, UpdateError, InProgress, Fits
<1> QED
  BY <1>1, ControllerStep, TypeInductive, SessionInductive

-----------------------------------------------------------------------------

\* The invariant of the storage.  StagedVerified alone is not inductive only
\* because Staged and Activating must exclude writes; NoStaleBytes needs the
\* sequencer's offset to lie inside the image.
NodeInv == NodeTypeOK /\ SessionConsistent /\ NoStaleBytes /\ StagedVerified

LEMMA NodeInductive == NodeInv /\ [NodeNext]_nodeVars => NodeInv'
<1> SUFFICES ASSUME NodeInv, [NodeNext]_nodeVars PROVE NodeInv'
  OBVIOUS
<1> USE DEF NodeInv, NodeTypeOK, NoStaleBytes, StagedVerified
<1>0. TypeOK' /\ SessionConsistent'
  BY ControllerInductive
<1>1. ASSUME NEW e, NEW s \in Sessions, NEW m \in Manifests, FwBegin(s, m, e)
      PROVE  NodeInv'
  <2>1. PICK r \in Result :
            /\ begin(s, m, r)
            /\ image' = IF r = "Ok" THEN Erased(m) ELSE image
            /\ UNCHANGED <<firmware, policy_enabled>>
    BY <1>1 DEF FwBegin
  <2>2. CASE r = "Ok"
    <3>1. manifest' = m /\ next_offset' = 0 /\ state' = "Receiving" /\ Fits(m)
      BY <2>1, <2>2 DEF begin, reject, fail
    <3>2. image' = [i \in 0..(m.image_size - 1) |-> ZeroByte]
      BY <2>1, <2>2 DEF Erased
    <3>3. 0..(m.image_size - 1) \subseteq 0..(ACTIVE_APPLICATION_BYTES - 1)
      BY <3>1 DEF Fits
    <3> QED
      BY <1>0, <2>1, <3>1, <3>2, <3>3
  <2>3. CASE r # "Ok"
    <3>1. image' = image /\ manifest' = manifest /\ next_offset' = next_offset
            /\ (state' = state \/ state' = "Failed")
      BY <2>1, <2>3 DEF begin, reject, fail
    <3> QED
      BY <1>0, <2>1, <3>1
  <2> QED
    BY <2>2, <2>3
<1>2. ASSUME NEW e, NEW s \in Sessions, NEW offset \in 0..U32_MAX,
             NEW len \in 1..MaxLen, NEW bytes \in Chunks(len),
             FwData(s, offset, len, bytes, e)
      PROVE  NodeInv'
  <2>1. PICK r \in Result :
            /\ accept_chunk(s, offset, len, r)
            /\ image' = Stored(r, offset, bytes)
            /\ UNCHANGED <<firmware, policy_enabled>>
    BY <1>2 DEF FwData
  <2>2. state' = state /\ manifest' = manifest
    BY <2>1 DEF accept_chunk, reject
  <2>3. CASE r = "Write"
    <3>1. state = "Receiving" /\ next_offset' = offset + len /\ offset = next_offset
      BY <2>1, <2>3, EndFits DEF accept_chunk, reject, InSession
    <3>2. image' = [i \in DOMAIN image |->
                      IF Covers(offset, bytes, i) THEN bytes[i - offset] ELSE image[i]]
      BY <2>1, <2>3 DEF Stored, Overwritten
    <3>3. DOMAIN bytes = 0..(len - 1) /\ \A j \in 0..(len - 1) : bytes[j] \in Bytes
      BY DEF Chunks
    <3>4. \A i \in DOMAIN image : i \in Int
      BY <3>1
    <3>5. \A i \in DOMAIN image : image'[i] \in Bytes
      BY <3>2, <3>3 DEF Covers
    <3>6. \A i \in DOMAIN image : i >= next_offset' => image'[i] = ZeroByte
      BY <3>1, <3>2, <3>3, <3>4 DEF Covers, TypeOK
    <3> QED
      BY <1>0, <2>1, <2>2, <3>1, <3>2, <3>5, <3>6
  <2>4. CASE r # "Write"
    <3>1. image' = image /\ next_offset' = next_offset
      BY <2>1, <2>4 DEF accept_chunk, reject, Stored
    <3> QED
      BY <1>0, <2>1, <2>2, <3>1
  <2> QED
    BY <2>3, <2>4
<1>3. ASSUME NEW e, NEW s \in Sessions, FwFinish(s, e) PROVE NodeInv'
  <2>1. UNCHANGED storageVars
    BY <1>3 DEF FwFinish
  <2>2. CASE \E r \in Result \ {"Ok"} : begin_verification(s, r)
    <3>1. state' = state /\ manifest' = manifest /\ next_offset' = next_offset
      BY <2>2 DEF begin_verification, reject
    <3> QED
      BY <1>0, <2>1, <3>1 DEF storageVars
  <2>3. CASE \E r \in Result : verdict(DigestMatches, r)
    <3>1. /\ manifest' = manifest
          /\ \/ state' = "Failed"
             \/ state' = "Staged" /\ image = manifest.digest
      BY <2>3 DEF verdict, fail, DigestMatches
    <3> QED
      BY <1>0, <2>1, <3>1 DEF storageVars
  <2> QED
    BY <1>3, <2>2, <2>3 DEF FwFinish
<1>4. ASSUME NEW e, NEW s \in Sessions, NEW allow_interruption \in BOOLEAN,
             FwActivate(s, allow_interruption, e)
      PROVE  NodeInv'
  <2>1. PICK r \in Result :
            /\ activate(s, allow_interruption, r)
            /\ firmware' = Installed(r)
            /\ policy_enabled' = (policy_enabled /\ r # "Ok")
            /\ UNCHANGED image
    BY <1>4 DEF FwActivate
  <2>2. /\ manifest' = manifest /\ next_offset' = next_offset
        /\ state' = state \/ (state = "Staged" /\ state' = "Activating")
    BY <2>1 DEF activate, reject, InSession
  <2>3. firmware' \in {Factory} \cup {m.version : m \in Manifests}
    BY <2>1 DEF Installed, TypeOK
  <2>4. policy_enabled' \in BOOLEAN
    BY <2>1
  <2> QED
    BY <1>0, <2>1, <2>2, <2>3, <2>4
<1>5. ASSUME NEW e, NEW s \in Sessions, FwAbort(s, e) PROVE NodeInv'
  <2>1. PICK r \in Result :
            /\ abort(s, r)
            /\ image' = IF r = "Ok" THEN Empty ELSE image
            /\ UNCHANGED <<firmware, policy_enabled>>
    BY <1>5 DEF FwAbort
  <2>2. CASE r = "Ok"
    <3>1. state' = "Idle" /\ image' = [i \in {} |-> ZeroByte]
      BY <2>1, <2>2 DEF abort, reject, Empty
    <3>2. DOMAIN image' = {}
      BY <3>1
    <3> QED
      BY <1>0, <2>1, <3>1, <3>2
  <2>3. CASE r # "Ok"
    <3>1. state' = state /\ manifest' = manifest /\ next_offset' = next_offset
            /\ image' = image
      BY <2>1, <2>3 DEF abort, reject
    <3> QED
      BY <1>0, <2>1, <3>1
  <2> QED
    BY <2>2, <2>3
<1>6. ASSUME NEW enabled \in BOOLEAN, SetCarrierPolicy(enabled) PROVE NodeInv'
  BY <1>0, <1>6 DEF SetCarrierPolicy, vars
<1>7. CASE UNCHANGED nodeVars
  BY <1>0, <1>7 DEF nodeVars, storageVars, vars
<1> QED
  BY <1>1, <1>2, <1>3, <1>4, <1>5, <1>6, <1>7 DEF NodeNext, Request

LEMMA NodeInitial == NodeInit => NodeInv
<1> SUFFICES ASSUME NodeInit PROVE NodeInv
  OBVIOUS
<1>1. TypeOK /\ state \notin InProgress
  BY DEF NodeInit, Init, TypeOK, UpdateState, UpdateError, InProgress
<1>2. DOMAIN image = {}
  BY DEF NodeInit, Empty
<1> QED
  BY <1>1, <1>2 DEF NodeInit, NodeInv, NodeTypeOK, SessionConsistent,
     NoStaleBytes, StagedVerified, InProgress

LEMMA NodeInvariant == NodeSpec => []NodeInv
BY NodeInitial, NodeInductive, PTL DEF NodeSpec

-----------------------------------------------------------------------------

\* A staged or activating image is the image its manifest was made for.
THEOREM StagedImageVerified == NodeSpec => []StagedVerified
<1>1. NodeInv => StagedVerified
  BY DEF NodeInv
<1> QED
  BY <1>1, NodeInvariant, PTL

\* No byte of an earlier transfer survives into a new one, and no accepted
\* chunk reaches past the buffer.
THEOREM NoStaleBytesEver == NodeSpec => []NoStaleBytes
<1>1. NodeInv => NoStaleBytes
  BY DEF NodeInv
<1> QED
  BY <1>1, NodeInvariant, PTL

\* Acknowledged bytes keep their value until the update ends.
THEOREM AcknowledgedBytesAreStable == NodeSpec => AcknowledgedBytesStable
<1>1. NodeInv /\ [NodeNext]_nodeVars
        => [(state \in InProgress /\ state' \in InProgress) =>
              \A i \in DOMAIN image : i < next_offset => image'[i] = image[i]]_nodeVars
  <2> SUFFICES ASSUME NodeInv, [NodeNext]_nodeVars,
                      state \in InProgress, state' \in InProgress,
                      NEW i \in DOMAIN image, i < next_offset
               PROVE  image'[i] = image[i]
    OBVIOUS
  <2> USE DEF NodeInv, NodeTypeOK, TypeOK, InProgress
  <2>1. ASSUME NEW e, NEW s \in Sessions, NEW m \in Manifests, FwBegin(s, m, e)
        PROVE  image' = image
    BY <2>1 DEF FwBegin, begin, reject, fail, Startable
  <2>2. ASSUME NEW e, NEW s \in Sessions, NEW offset \in 0..U32_MAX,
               NEW len \in 1..MaxLen, NEW bytes \in Chunks(len),
               FwData(s, offset, len, bytes, e)
        PROVE  image'[i] = image[i]
    <3>1. PICK r \in Result :
              accept_chunk(s, offset, len, r) /\ image' = Stored(r, offset, bytes)
      BY <2>2 DEF FwData
    <3>2. CASE r = "Write"
      <4>1. offset = next_offset
        BY <3>1, <3>2 DEF accept_chunk, reject
      <4>2. DOMAIN bytes = 0..(len - 1) /\ i \in Int
        BY DEF Chunks
      <4>3. ~Covers(offset, bytes, i)
        BY <4>1, <4>2 DEF Covers
      <4>4. image' = [j \in DOMAIN image |->
                        IF Covers(offset, bytes, j) THEN bytes[j - offset] ELSE image[j]]
        BY <3>1, <3>2 DEF Stored, Overwritten
      <4> QED
        BY <4>3, <4>4
    <3> QED
      BY <3>1, <3>2 DEF Stored
  <2>3. ASSUME NEW e, NEW s \in Sessions, FwFinish(s, e) PROVE image' = image
    BY <2>3 DEF FwFinish, storageVars
  <2>4. ASSUME NEW e, NEW s \in Sessions, NEW allow_interruption \in BOOLEAN,
               FwActivate(s, allow_interruption, e)
        PROVE  image' = image
    BY <2>4 DEF FwActivate
  <2>5. ASSUME NEW e, NEW s \in Sessions, FwAbort(s, e) PROVE image' = image
    BY <2>5 DEF FwAbort, abort, reject
  <2>6. ASSUME NEW enabled \in BOOLEAN, SetCarrierPolicy(enabled) PROVE image' = image
    BY <2>6 DEF SetCarrierPolicy
  <2>7. CASE UNCHANGED nodeVars
    BY <2>7 DEF nodeVars, storageVars
  <2> QED
    BY <2>1, <2>2, <2>3, <2>4, <2>5, <2>6, <2>7 DEF NodeNext, Request
<1> QED
  BY <1>1, NodeInvariant, PTL DEF NodeSpec, AcknowledgedBytesStable

\* Whatever a chunk repeats or contradicts, data that is acknowledged without an
\* error is in the buffer as it was sent.
THEOREM AcknowledgedDataStored == NodeSpec => AcknowledgedMeansStored
<1>1. ASSUME NodeInv, NEW offset \in 0..U32_MAX, NEW len \in 1..MaxLen,
             NEW bytes \in Chunks(len), FwData(session, offset, len, bytes, "None"),
             NEW j \in DOMAIN bytes
      PROVE  image'[offset + j] = bytes[j]
  <2>1. PICK r \in Result :
           /\ accept_chunk(session, offset, len, r)
           /\ image' = Stored(r, offset, bytes)
           /\ r = "Duplicate" => SameBytes(offset, bytes)
           /\ ErrorOf(r) = "None"
    BY <1>1 DEF FwData
  <2>2. /\ r \in {"Write", "Duplicate"}
        /\ r = "Write" => InSession("Receiving", session) /\ InImage(offset, len)
    BY <2>1 DEF accept_chunk, reject, ErrorOf, UpdateError
  <2>3. DOMAIN bytes = 0..(len - 1) /\ len \in 0..MaxLen
    BY DEF Chunks
  <2>4. CASE r = "Duplicate"
    BY <2>1, <2>4 DEF Stored, SameBytes
  <2>5. CASE r = "Write"
    <3>1. state = "Receiving" /\ InImage(offset, len)
      BY <2>2, <2>5 DEF InSession
    <3>2. offset + len <= manifest.image_size
      BY <2>3, <3>1, EndFits
    <3>3. manifest.image_size \in Nat
      BY <1>1, <3>1 DEF NodeInv, SessionConsistent, InProgress, Fits
    <3>4. offset + j \in 0..(manifest.image_size - 1) /\ (offset + j) - offset = j
      BY <2>3, <3>2, <3>3
    <3>5. offset + j \in DOMAIN image /\ Covers(offset, bytes, offset + j)
      BY <1>1, <2>3, <3>1, <3>4 DEF NodeInv, NoStaleBytes, Covers
    <3>6. image' = [i \in DOMAIN image |->
                      IF Covers(offset, bytes, i) THEN bytes[i - offset] ELSE image[i]]
      BY <2>1, <2>5 DEF Stored, Overwritten
    <3> QED
      BY <3>4, <3>5, <3>6
  <2> QED
    BY <2>2, <2>4, <2>5
<1>2. NodeInv /\ [NodeNext]_nodeVars
        => [state = "Receiving" => \A offset \in 0..U32_MAX, len \in 1..MaxLen :
              \A bytes \in Chunks(len) : FwData(session, offset, len, bytes, "None") =>
                  \A j \in DOMAIN bytes : image'[offset + j] = bytes[j]]_nodeVars
  BY <1>1
<1> QED
  BY <1>2, NodeInvariant, PTL DEF NodeSpec, AcknowledgedMeansStored

\* An activation the node has accepted cannot be taken back by any request.
THEOREM ActivationIsFinal == NodeSpec => ActivatingIsFinal
<1>1. [NodeNext]_nodeVars
        => [state = "Activating" => state' = "Activating" /\ firmware' = firmware]_nodeVars
  <2> SUFFICES ASSUME [NodeNext]_nodeVars, state = "Activating"
               PROVE  state' = "Activating" /\ firmware' = firmware
    OBVIOUS
  <2> USE DEF reject
  <2>1. ASSUME NEW e, NEW s \in Sessions, NEW m \in Manifests, FwBegin(s, m, e)
        PROVE  state' = "Activating" /\ firmware' = firmware
    BY <2>1 DEF FwBegin, begin, Startable
  <2>2. ASSUME NEW e, NEW s \in Sessions, NEW offset \in 0..U32_MAX,
               NEW len \in 1..MaxLen, NEW bytes \in Chunks(len),
               FwData(s, offset, len, bytes, e)
        PROVE  state' = "Activating" /\ firmware' = firmware
    BY <2>2 DEF FwData, accept_chunk, InSession
  <2>3. ASSUME NEW e, NEW s \in Sessions, FwFinish(s, e)
        PROVE  state' = "Activating" /\ firmware' = firmware
    BY <2>3 DEF FwFinish, begin_verification, InSession, storageVars
  <2>4. ASSUME NEW e, NEW s \in Sessions, NEW allow_interruption \in BOOLEAN,
               FwActivate(s, allow_interruption, e)
        PROVE  state' = "Activating" /\ firmware' = firmware
    BY <2>4 DEF FwActivate, activate, InSession, Installed
  <2>5. ASSUME NEW e, NEW s \in Sessions, FwAbort(s, e)
        PROVE  state' = "Activating" /\ firmware' = firmware
    BY <2>5 DEF FwAbort, abort, Abortable
  <2>6. ASSUME NEW enabled \in BOOLEAN, SetCarrierPolicy(enabled)
        PROVE  state' = "Activating" /\ firmware' = firmware
    BY <2>6 DEF SetCarrierPolicy, vars
  <2>7. CASE UNCHANGED nodeVars
    BY <2>7 DEF nodeVars, vars, storageVars
  <2> QED
    BY <2>1, <2>2, <2>3, <2>4, <2>5, <2>6, <2>7 DEF NodeNext, Request
<1> QED
  BY <1>1, PTL DEF NodeSpec, ActivatingIsFinal

-----------------------------------------------------------------------------

\* Every node step stages, discards or activates a whole verified image in
\* the abstract specification, or changes nothing it can see.
LEMMA AbstractStep ==
    NodeInv /\ [NodeNext]_nodeVars => [Abstract!Next]_(Abstract!vars)
<1> SUFFICES ASSUME NodeInv, [NodeNext]_nodeVars
             PROVE  [Abstract!Next]_(Abstract!vars)
  OBVIOUS
<1> USE DEF NodeInv, InSession, reject, fail
<1>1. ASSUME state # "Staged", state' # "Staged", firmware' = firmware
      PROVE  UNCHANGED Abstract!vars
  BY <1>1 DEF Abstract!vars, StagedImage
<1>2. ASSUME state' = state, manifest' = manifest, image' = image, firmware' = firmware
      PROVE  UNCHANGED Abstract!vars
  BY <1>2 DEF Abstract!vars, StagedImage
<1>3. ASSUME NEW e, NEW s \in Sessions, NEW m \in Manifests, FwBegin(s, m, e)
      PROVE  UNCHANGED Abstract!vars
  <2>1. PICK r \in Result : begin(s, m, r) /\ (r # "Ok" => image' = image)
                               /\ firmware' = firmware
    BY <1>3 DEF FwBegin
  <2> QED
    BY <1>1, <1>2, <2>1 DEF begin, Startable
<1>4. ASSUME NEW e, NEW s \in Sessions, NEW offset \in 0..U32_MAX,
             NEW len \in 1..MaxLen, NEW bytes \in Chunks(len),
             FwData(s, offset, len, bytes, e)
      PROVE  UNCHANGED Abstract!vars
  <2>1. PICK r \in Result : /\ accept_chunk(s, offset, len, r)
                            /\ image' = Stored(r, offset, bytes)
                            /\ firmware' = firmware
    BY <1>4 DEF FwData
  <2> QED
    BY <1>1, <1>2, <2>1 DEF accept_chunk, Stored
<1>5. ASSUME NEW e, NEW s \in Sessions, FwFinish(s, e)
      PROVE  [Abstract!Next]_(Abstract!vars)
  <2>1. UNCHANGED storageVars
    BY <1>5 DEF FwFinish
  <2>2. CASE \E r \in Result \ {"Ok"} : begin_verification(s, r)
    BY <1>2, <2>1, <2>2 DEF begin_verification, storageVars
  <2>3. CASE state = "Receiving" /\ \E r \in Result : verdict(DigestMatches, r)
    <3>1. CASE state' = "Failed"
      BY <1>1, <2>1, <2>3, <3>1 DEF storageVars
    <3>2. CASE state' = "Staged"
      <4>1. manifest' = manifest /\ image = manifest.digest
        BY <2>3, <3>2 DEF verdict, DigestMatches
      <4>2. manifest \in Runnable
        BY <2>3 DEF NodeTypeOK, TypeOK, SessionConsistent, InProgress, Runnable
      <4>3. StagedImage = {}
        BY <2>3 DEF StagedImage
      <4>4. StagedImage' = {Abstract!Whole(manifest)}
        BY <2>1, <3>2, <4>1 DEF StagedImage, Abstract!Whole, storageVars
      <4> QED
        BY <2>1, <4>2, <4>3, <4>4 DEF Abstract!Next, Abstract!Stage, storageVars
    <3> QED
      BY <2>3, <3>1, <3>2 DEF verdict
  <2> QED
    BY <1>5, <2>2, <2>3 DEF FwFinish
<1>6. ASSUME NEW e, NEW s \in Sessions, NEW allow_interruption \in BOOLEAN,
             FwActivate(s, allow_interruption, e)
      PROVE  [Abstract!Next]_(Abstract!vars)
  <2>1. PICK r \in Result :
            /\ activate(s, allow_interruption, r)
            /\ firmware' = Installed(r)
            /\ UNCHANGED image
    BY <1>6 DEF FwActivate
  <2>2. CASE r = "Ok"
    <3>1. state = "Staged" /\ state' = "Activating"
      BY <2>1, <2>2 DEF activate
    <3>2. manifest \in Manifests
      BY <3>1 DEF NodeTypeOK, TypeOK, SessionConsistent, InProgress
    <3>3. firmware' = manifest.version
      BY <2>1, <2>2, <3>2 DEF Installed
    <3>4. StagedImage = {[manifest |-> manifest, image |-> image]} /\ StagedImage' = {}
      BY <3>1 DEF StagedImage
    <3> QED
      BY <3>3, <3>4 DEF Abstract!Next, Abstract!Activate
  <2>3. CASE r # "Ok"
    BY <1>2, <2>1, <2>3 DEF activate, Installed
  <2> QED
    BY <2>2, <2>3
<1>7. ASSUME NEW e, NEW s \in Sessions, FwAbort(s, e)
      PROVE  [Abstract!Next]_(Abstract!vars)
  <2>1. PICK r \in Result : /\ abort(s, r)
                            /\ image' = IF r = "Ok" THEN Empty ELSE image
                            /\ firmware' = firmware
    BY <1>7 DEF FwAbort
  <2>2. CASE r = "Ok" /\ StagedImage # {}
    <3>1. StagedImage' = {}
      BY <2>1, <2>2 DEF abort, StagedImage
    <3> QED
      BY <2>1, <2>2, <3>1 DEF Abstract!Next, Abstract!Discard
  <2>3. CASE r = "Ok" /\ StagedImage = {}
    <3>1. StagedImage' = {}
      BY <2>1, <2>3 DEF abort, StagedImage
    <3> QED
      BY <2>1, <2>3, <3>1 DEF Abstract!vars
  <2>4. CASE r # "Ok"
    BY <1>2, <2>1, <2>4 DEF abort
  <2> QED
    BY <2>2, <2>3, <2>4
<1>8. ASSUME NEW enabled \in BOOLEAN, SetCarrierPolicy(enabled)
      PROVE  UNCHANGED Abstract!vars
  BY <1>2, <1>8 DEF SetCarrierPolicy, vars
<1>9. CASE UNCHANGED nodeVars
  BY <1>2, <1>9 DEF nodeVars, storageVars, vars
<1> QED
  BY <1>3, <1>4, <1>5, <1>6, <1>7, <1>8, <1>9 DEF NodeNext, Request

\* The node implements AbstractUpdate: whatever frames arrive, the operator
\* sees whole verified images staged, discarded and activated, nothing else.
THEOREM Refinement == NodeSpec => ImplementsAbstract
<1>1. NodeInit => Abstract!Init
  BY DEF NodeInit, Init, Abstract!Init, StagedImage
<1> QED
  BY <1>1, AbstractStep, NodeInvariant, PTL
     DEF NodeSpec, ImplementsAbstract, Abstract!Spec

-----------------------------------------------------------------------------
\* The transfer.

\* The frames an invocation can send.
DataFrames(i) == {DataFrame(i, offset) : offset \in 0..(Bundle(i).image_size - 1)}

Frames(i) ==
    {f \in {BeginFrame(i)} : Stages(i)} \cup {FinishFrame(i), StatusFrame(i)}
        \cup DataFrames(i)
        \cup {ActivateFrame(i, s) : s \in Sessions}
        \cup {AbortFrame(i, s) : s \in Sessions}

Sendable == UNION {Frames(i) : i \in Invocations}

RequestIds == (Invocations \X {0, 1, 2, 3}) \cup {NoRequest}

AckBody ==
    [session : Sessions, next_offset : 0..U32_MAX, state : UpdateState, error : AckError]

StatusBody == [session : Sessions, state : UpdateState, impact : {Impact}]

Replies ==
    [op : {"Ack"}, id : RequestIds, body : AckBody]
        \cup [op : {"Status"}, id : RequestIds, body : StatusBody]

HostStates ==
    [pc : {"start", "sending"} \cup Waiting \cup Exits, attempt : Nat, offset : Nat,
     sent_until : Nat, cumulative : Nat, session : Sessions]

Shapes ==
    /\ setup \in Setups
    /\ bus \in Seq(Sendable)
    /\ socket \in [Invocations -> Seq(Replies)]
    /\ host \in [Invocations -> HostStates]

-----------------------------------------------------------------------------
\* Invocation i's Begin may still reach the node, once or again.
MayBegin(i) == host[i].pc \in {"start", "begin"} \/ BeginFrame(i) \in Range(bus)

\* The acknowledgements invocation i has yet to read that are about its session.
Acks(i) == {r \in Range(socket[i]) : r.op = "Ack" /\ r.body.session = i}

\* While a Begin may come nothing of its session was accepted, nor is anybody
\* under the impression that it was.
Fresh(i) ==
    MayBegin(i) =>
        /\ session = i => next_offset = 0
        /\ \A r \in Acks(i) : r.body.next_offset = 0
        /\ host[i].offset = 0 /\ host[i].cumulative = 0

\* No data of a session is on the bus before its last Begin.
DataLast(i) ==
    /\ host[i].pc \in {"start", "begin"} => Range(bus) \cap DataFrames(i) = {}
    /\ \A k \in 1..Len(bus), l \in 1..Len(bus) :
          k < l /\ bus[k] \in DataFrames(i) => bus[l] # BeginFrame(i)

\* What invocation i knows, or is about to read, of its offset is still true.
NeverAhead(i) ==
    session = i /\ state \in InProgress =>
        /\ host[i].offset <= next_offset /\ host[i].cumulative <= next_offset
        /\ \A r \in Acks(i) : r.body.next_offset <= next_offset

Ahead == \A i \in Invocations : Fresh(i) /\ DataLast(i) /\ NeverAhead(i)

-----------------------------------------------------------------------------
\* The node is in no session, or in that of an invocation that stages, with
\* its bundle ...
OwnManifest ==
    /\ session # 0 =>
          session \in Invocations /\ Stages(session) /\ manifest = Bundle(session)
    /\ state \in InProgress => session # 0

\* ... and only such an invocation's image was ever staged.
Whole(s) == <<s, Bundle(s)>> \in staged_log

OwnImages ==
    /\ \A s : Whole(s) => s \in Invocations /\ Stages(s)
    /\ state = "Staged" => Whole(session)

\* What a reply under way reports has happened.
Truthful(i) ==
    \A r \in Range(socket[i]) : r.op = "Ack" =>
        /\ r.body.session = i /\ r.body.state = "Staged" => Whole(i)
        /\ r.id = <<i, 2>> /\ r.body.error = "None" => r.body.session \in active_log
        /\ r.id = <<i, 3>> /\ r.body.error = "None" => host[i].session \in abort_log

\* A status under way names a staged image only if it was staged.
Informed(i) ==
    \A r \in Range(socket[i]) :
        r.op = "Status" /\ r.body.state = "Staged" => Whole(r.body.session)

\* An abort on its way names the session its sender waits to see discarded.
Aborting(i) ==
    /\ \A s \in Sessions : AbortFrame(i, s) \in Range(bus) =>
          host[i].pc \in {"abort"} \cup Exits /\ s = host[i].session
    /\ \A r \in Range(socket[i]) : r.id = <<i, 3>> => host[i].pc \in {"abort"} \cup Exits

\* The calls a process is in are those of its verb, and what its exit would
\* report, h being its state, has happened.
Course(i, h) ==
    /\ h.pc \in {"begin", "sending", "window", "finish"} => Stages(i)
    /\ h.pc = "status" => Verb(i) # "stage"
    /\ h.pc = "activate" => Activates(i) /\ Whole(h.session)
    /\ h.pc = "abort" => Verb(i) = "abort"
    /\ h.pc \in {"status", "activate", "ok"} /\ Stages(i) => Whole(i)
    /\ h.pc = "ok" /\ Activates(i) => h.session \in active_log /\ Whole(h.session)
    /\ h.pc = "ok" /\ Verb(i) = "abort" => h.session \in abort_log

Reports ==
    /\ OwnManifest /\ OwnImages
    /\ \A i \in Invocations :
          Truthful(i) /\ Informed(i) /\ Aborting(i) /\ Course(i, host[i])

TransferInv == Shapes /\ NodeInv /\ Ahead /\ Reports

-----------------------------------------------------------------------------
\* Queues.
LEMMA Appended ==
    ASSUME NEW S, NEW q \in Seq(S), NEW x \in S
    PROVE  /\ Append(q, x) \in Seq(S)
           /\ Range(Append(q, x)) = Range(q) \cup {x}
           /\ Len(Append(q, x)) = Len(q) + 1
           /\ \A k \in 1..Len(q) : Append(q, x)[k] = q[k]
           /\ Append(q, x)[Len(q) + 1] = x
<1>1. /\ Append(q, x) \in Seq(S) /\ Len(Append(q, x)) = Len(q) + 1
      /\ \A k \in 1..Len(q) : Append(q, x)[k] = q[k]
      /\ Append(q, x)[Len(q) + 1] = x
      /\ Len(q) \in Nat /\ DOMAIN q = 1..Len(q)
      /\ DOMAIN Append(q, x) = 1..(Len(q) + 1)
  BY AppendProperties, LenProperties
<1>2. 1..(Len(q) + 1) = 1..Len(q) \cup {Len(q) + 1}
  BY <1>1
<1> QED
  BY <1>1, <1>2 DEF Range

LEMMA Removed ==
    ASSUME NEW S, NEW q \in Seq(S), q # <<>>
    PROVE  /\ Tail(q) \in Seq(S) /\ Head(q) \in S
           /\ Head(q) \in Range(q) /\ Head(q) = q[1]
           /\ Range(Tail(q)) \subseteq Range(q)
           /\ Len(q) \in Nat \ {0} /\ Len(Tail(q)) = Len(q) - 1
           /\ \A k \in 1..(Len(q) - 1) : Tail(q)[k] = q[k + 1]
<1>1. /\ Tail(q) \in Seq(S) /\ Head(q) \in S
      /\ Head(q) = q[1] /\ Len(q) \in Nat /\ Len(Tail(q)) = Len(q) - 1
      /\ \A k \in 1..(Len(q) - 1) : Tail(q)[k] = q[k + 1]
      /\ DOMAIN q = 1..Len(q) /\ DOMAIN Tail(q) = 1..(Len(q) - 1)
      /\ Len(q) # 0
  BY HeadTailProperties, LenProperties, EmptySeq
<1> QED
  BY <1>1 DEF Range

-----------------------------------------------------------------------------
\* What a setup fixes stays fixed.
LEMMA SetupFixed ==
    ASSUME setup' = setup
    PROVE  /\ Invocations' = Invocations /\ Retries' = Retries
           /\ \A i : Bundle(i)' = Bundle(i) /\ Verb(i)' = Verb(i) /\ Command(i)' = Command(i)
           /\ \A i : Stages(i)' = Stages(i) /\ Activates(i)' = Activates(i)
           /\ \A i : BeginFrame(i)' = BeginFrame(i) /\ DataFrames(i)' = DataFrames(i)
           /\ \A i, s : AbortFrame(i, s)' = AbortFrame(i, s)
           /\ Sendable' = Sendable
           /\ Replies' = Replies
<1>1. /\ Invocations' = Invocations /\ Retries' = Retries
      /\ \A i : Bundle(i)' = Bundle(i) /\ Verb(i)' = Verb(i) /\ Command(i)' = Command(i)
  BY DEF Invocations, Retries, Bundle, Verb, Command
<1>2. \A i : Stages(i)' = Stages(i) /\ Activates(i)' = Activates(i)
  BY <1>1 DEF Stages, Activates
<1>3. \A i, o : DataFrame(i, o)' = DataFrame(i, o)
  BY <1>1 DEF DataFrame, ChunkLen
<1>4. \A i : DataFrames(i)' = DataFrames(i)
  BY <1>1, <1>3 DEF DataFrames
<1>5. \A i : /\ BeginFrame(i)' = BeginFrame(i) /\ FinishFrame(i)' = FinishFrame(i)
             /\ StatusFrame(i)' = StatusFrame(i)
             /\ \A s : ActivateFrame(i, s)' = ActivateFrame(i, s)
             /\ \A s : AbortFrame(i, s)' = AbortFrame(i, s)
  BY <1>1 DEF BeginFrame, FinishFrame, StatusFrame, ActivateFrame, AbortFrame
<1>6. Sendable' = Sendable
  BY <1>2, <1>1, <1>4, <1>5 DEF Sendable, Frames
<1>7. Replies' = Replies
  BY <1>1 DEF Replies, RequestIds, AckBody, StatusBody
<1> QED
  BY <1>2, <1>1, <1>4, <1>5, <1>6, <1>7

\* A setup is one of the assumed form.
LEMMA SetupTyped ==
    ASSUME setup \in Setups, NEW i \in Invocations
    PROVE  /\ i \in Sessions /\ i # 0
           /\ Retries \in Nat /\ FIRMWARE_WINDOW_FRAMES \in Nat \ {0}
           /\ Verb(i) \in {"stage", "activate", "update", "abort"}
           /\ Command(i).allow \in BOOLEAN
           /\ Bundle(i) \in Manifests /\ Bundle(i).image_size \in Nat
           /\ Bundle(i).image_size <= U32_MAX
           /\ Bundle(i).digest \in [0..(Bundle(i).image_size - 1) -> Bytes]
<1>1. /\ DOMAIN setup.commands \subseteq Sessions \ {0}
      /\ setup.retries \in Nat /\ setup.window \in Nat \ {0}
  BY HostAssumption
<1>2. /\ setup.commands[i].verb \in {"stage", "activate", "update", "abort"}
      /\ setup.commands[i].allow \in BOOLEAN
      /\ setup.commands[i].bundle \in Manifests
      /\ setup.commands[i].bundle.digest
            \in [0..(setup.commands[i].bundle.image_size - 1) -> Bytes]
  BY HostAssumption DEF Invocations
<1>3. U32_MAX \in Nat /\ setup.commands[i].bundle.image_size \in 0..U32_MAX
  BY <1>2, SizesAssumption, ManifestsAssumption
<1> QED
  BY <1>1, <1>2, <1>3
     DEF Invocations, Retries, FIRMWARE_WINDOW_FRAMES, Verb, Command, Bundle

\* A data frame is a chunk the codec lets through.
LEMMA ChunkTyped ==
    ASSUME setup \in Setups, NEW i \in Invocations,
           NEW offset \in 0..(Bundle(i).image_size - 1)
    PROVE  /\ offset \in 0..U32_MAX
           /\ ChunkLen(i, offset) \in 1..MaxLen
           /\ DataFrame(i, offset).bytes \in Chunks(ChunkLen(i, offset))
<1>1. /\ Bundle(i).image_size \in Nat /\ Bundle(i).image_size <= U32_MAX
      /\ Bundle(i).digest \in [0..(Bundle(i).image_size - 1) -> Bytes]
      /\ MaxLen \in Nat \ {0}
  BY SetupTyped, HostAssumption
<1>2. /\ ChunkLen(i, offset) \in 1..MaxLen
      /\ offset + ChunkLen(i, offset) <= Bundle(i).image_size
  BY <1>1 DEF ChunkLen
<1>3. \A j \in 0..(ChunkLen(i, offset) - 1) : Bundle(i).digest[offset + j] \in Bytes
  BY <1>1, <1>2
<1>4. DataFrame(i, offset).bytes
        = [j \in 0..(ChunkLen(i, offset) - 1) |-> Bundle(i).digest[offset + j]]
  BY DEF DataFrame
<1>5. offset \in 0..U32_MAX
  BY <1>1, SizesAssumption
<1>6. DataFrame(i, offset).bytes \in [0..(ChunkLen(i, offset) - 1) -> Bytes]
  BY <1>3, <1>4
<1> QED
  BY <1>2, <1>5, <1>6 DEF Chunks

\* What the node is asked by the frame it handles.
LEMMA Handled ==
    ASSUME setup \in Setups, NEW f \in Sendable, NEW e, Handle(f, e)
    PROVE  \/ \E i \in Invocations :
                    f = BeginFrame(i) /\ Stages(i) /\ FwBegin(i, Bundle(i), e)
           \/ \E i \in Invocations, offset \in 0..U32_MAX, len \in 1..MaxLen :
                 \E bytes \in Chunks(len) :
                    f \in DataFrames(i) /\ FwData(i, offset, len, bytes, e)
           \/ \E i \in Invocations : f = FinishFrame(i) /\ FwFinish(i, e)
           \/ \E i \in Invocations, s \in Sessions :
                    f = ActivateFrame(i, s) /\ FwActivate(s, Command(i).allow, e)
           \/ \E i \in Invocations, s \in Sessions :
                    f = AbortFrame(i, s) /\ FwAbort(s, e)
<1>1. PICK i \in Invocations : f \in Frames(i)
  BY DEF Sendable
<1>2. CASE f = BeginFrame(i) /\ Stages(i)
  <2>1. f.op = "Begin" /\ f.session = i /\ f.manifest = Bundle(i)
    BY <1>2 DEF BeginFrame
  <2> QED
    BY <1>2, <2>1 DEF Handle
<1>3. CASE f = FinishFrame(i)
  <2>1. f.op = "Finish" /\ f.session = i
    BY <1>3 DEF FinishFrame
  <2> QED
    BY <1>3, <2>1 DEF Handle
<1>4. CASE f = StatusFrame(i)
  <2>1. f.op = "Status"
    BY <1>4 DEF StatusFrame
  <2> QED
    BY <2>1 DEF Handle
<1>5. ASSUME NEW offset \in 0..(Bundle(i).image_size - 1), f = DataFrame(i, offset)
      PROVE  \E o \in 0..U32_MAX, len \in 1..MaxLen :
                \E bytes \in Chunks(len) :
                    f \in DataFrames(i) /\ FwData(i, o, len, bytes, e)
  <2>1. /\ f.op = "Data" /\ f.session = i /\ f.offset = offset
        /\ f.len = ChunkLen(i, offset)
    BY <1>5 DEF DataFrame
  <2>2. FwData(i, offset, ChunkLen(i, offset), f.bytes, e)
    BY <2>1 DEF Handle
  <2>3. f \in DataFrames(i)
    BY <1>5 DEF DataFrames
  <2> QED
    BY <1>5, <2>2, <2>3, ChunkTyped
<1>6. ASSUME NEW s \in Sessions, f = ActivateFrame(i, s)
      PROVE  FwActivate(s, Command(i).allow, e)
  <2>1. f.op = "Activate" /\ f.session = s /\ f.allow = Command(i).allow
    BY <1>6 DEF ActivateFrame
  <2> QED
    BY <2>1 DEF Handle
<1>7. ASSUME NEW s \in Sessions, f = AbortFrame(i, s)
      PROVE  FwAbort(s, e)
  <2>1. f.op = "Abort" /\ f.session = s
    BY <1>7 DEF AbortFrame
  <2> QED
    BY <2>1 DEF Handle
<1>8. \/ f = BeginFrame(i) /\ Stages(i)
      \/ f = FinishFrame(i) \/ f = StatusFrame(i)
      \/ \E offset \in 0..(Bundle(i).image_size - 1) : f = DataFrame(i, offset)
      \/ \E s \in Sessions : f = ActivateFrame(i, s)
      \/ \E s \in Sessions : f = AbortFrame(i, s)
  BY <1>1 DEF Frames, DataFrames
<1> QED
  BY <1>2, <1>3, <1>4, <1>5, <1>6, <1>7, <1>8

\* The node does only what UpdateNode lets it do.
LEMMA HandledByNode ==
    ASSUME setup \in Setups, NEW f \in Sendable, NEW e \in AckError, Handle(f, e)
    PROVE  NodeNext
<1>1. \A i \in Invocations : /\ i \in Sessions /\ Bundle(i) \in Manifests
                             /\ Command(i).allow \in BOOLEAN
  BY SetupTyped
<1>2. Request(e)
  BY <1>1, Handled DEF Request
<1> QED
  BY <1>2 DEF NodeNext

-----------------------------------------------------------------------------
\* What handling f may do to the node's session.
Begun(f) ==
    \E i \in Invocations :
        /\ f = BeginFrame(i) /\ Stages(i)
        /\ session' = i /\ manifest' = Bundle(i) /\ next_offset' = 0

Wrote(f) ==
    /\ session \in Invocations /\ f \in DataFrames(session)
    /\ UNCHANGED <<session, manifest, state>>
    /\ next_offset' >= next_offset

Discarded(f) ==
    /\ \E i \in Invocations : f = AbortFrame(i, session)
    /\ session' = 0 /\ next_offset' = 0 /\ state' = "Idle"

Kept ==
    /\ UNCHANGED <<session, manifest, next_offset>>
    /\ state' \in InProgress => state \in InProgress

LEMMA NodeEffect ==
    ASSUME setup \in Setups, NodeInv, NEW f \in Sendable, NEW e, Handle(f, e)
    PROVE  Begun(f) \/ Wrote(f) \/ Discarded(f) \/ Kept
<1> USE DEF reject, fail
<1>1. ASSUME NEW i \in Invocations, f = BeginFrame(i), Stages(i), FwBegin(i, Bundle(i), e)
      PROVE  Begun(f) \/ Kept
  BY <1>1 DEF FwBegin, begin, Begun, Kept, InProgress
<1>2. ASSUME NEW i \in Invocations, NEW offset \in 0..U32_MAX, NEW len \in 1..MaxLen,
             NEW bytes, f \in DataFrames(i), FwData(i, offset, len, bytes, e)
      PROVE  Wrote(f) \/ Kept
  <2>1. next_offset \in Nat /\ MaxLen \in Nat
    BY SizesAssumption DEF NodeInv, NodeTypeOK, TypeOK
  <2> QED
    BY <1>2, <2>1, EndFits DEF FwData, accept_chunk, InSession, Wrote, Kept
<1>3. ASSUME NEW i \in Invocations, FwFinish(i, e)
      PROVE  Kept
  BY <1>3 DEF FwFinish, begin_verification, verdict, InSession, Kept, InProgress
<1>4. ASSUME NEW s, NEW allow, FwActivate(s, allow, e)
      PROVE  Kept
  BY <1>4 DEF FwActivate, activate, InSession, Kept, InProgress
<1>5. ASSUME NEW i \in Invocations, NEW s, f = AbortFrame(i, s), FwAbort(s, e)
      PROVE  Discarded(f) \/ Kept
  BY <1>5 DEF FwAbort, abort, Abortable, Discarded, Kept
<1> QED
  BY <1>1, <1>2, <1>3, <1>4, <1>5, Handled

\* What the acknowledgement of f says.
LEMMA NodeAnswer ==
    ASSUME setup \in Setups, NEW f \in Sendable, NEW e, Handle(f, e)
    PROVE  /\ f.id \in RequestIds
           /\ \A i : f.id = <<i, 2>> /\ e = "None" =>
                 state' = "Activating"
           /\ \A i : f.id = <<i, 3>> =>
                 /\ f.op = "Abort"
                 /\ \E s \in Sessions :
                       /\ f = AbortFrame(i, s)
                       /\ e = "None" => s = session /\ state' = "Idle"
<1> USE DEF RequestIds
<1>1. ASSUME NEW i \in Invocations, f = BeginFrame(i)
      PROVE  f.id = <<i, 0>>
  BY <1>1 DEF BeginFrame
<1>2. ASSUME NEW i \in Invocations, f \in DataFrames(i)
      PROVE  f.id = NoRequest
  BY <1>2 DEF DataFrames, DataFrame
<1>3. ASSUME NEW i \in Invocations, f = FinishFrame(i)
      PROVE  f.id = <<i, 1>>
  BY <1>3 DEF FinishFrame
<1>4. ASSUME NEW i \in Invocations, NEW s \in Sessions, f = ActivateFrame(i, s),
             FwActivate(s, Command(i).allow, e)
      PROVE  f.id = <<i, 2>> /\ (e = "None" => state' = "Activating")
  <2>1. f.id = <<i, 2>>
    BY <1>4 DEF ActivateFrame
  <2>2. e = "None" => state' = "Activating"
    BY <1>4 DEF FwActivate, activate, reject, ErrorOf, UpdateError
  <2> QED
    BY <2>1, <2>2
<1>5. ASSUME NEW i \in Invocations, NEW s \in Sessions, f = AbortFrame(i, s),
             FwAbort(s, e)
      PROVE  /\ f.id = <<i, 3>> /\ f.op = "Abort"
             /\ e = "None" => s = session /\ state' = "Idle"
  <2>1. f.id = <<i, 3>> /\ f.op = "Abort"
    BY <1>5 DEF AbortFrame
  <2>2. e = "None" => s = session /\ state' = "Idle"
    BY <1>5 DEF FwAbort, abort, Abortable, reject, ErrorOf, UpdateError
  <2> QED
    BY <2>1, <2>2
<1>6. NoRequest = <<0, 0>>
  BY DEF NoRequest
<1> QED
  BY <1>1, <1>2, <1>3, <1>4, <1>5, <1>6, Handled

-----------------------------------------------------------------------------
\* What the node answers, and what it notes in the logs, when it handles the
\* head of the bus.
Answers(reply) ==
    /\ reply \in Replies
    /\ reply.op = "Ack" =>
          /\ reply.body.session = session'
          /\ reply.body.next_offset = next_offset'
          /\ reply.body.state = state'
          /\ \A i : reply.id = <<i, 2>> /\ reply.body.error = "None" =>
                state' = "Activating"
    /\ reply.op = "Status" => reply.body.session = session /\ reply.body.state = state
    /\ \A i : reply.id = <<i, 3>> =>
          /\ Head(bus).op = "Abort"
          /\ \E s \in Sessions :
                /\ Head(bus) = AbortFrame(i, s)
                /\ reply.op = "Ack" /\ reply.body.error = "None" =>
                      s = session /\ state' = "Idle"

LEMMA NodeAnswers ==
    ASSUME TransferInv, NodeReceives, setup' = setup
    PROVE  /\ NodeInv'
           /\ Begun(Head(bus)) \/ Wrote(Head(bus)) \/ Discarded(Head(bus)) \/ Kept
           /\ \E reply : Deliver(reply) /\ Answers(reply)
<1> USE DEF TransferInv, Shapes
<1> DEFINE f == Head(bus)
<1>1. f \in Sendable
  BY Removed DEF NodeReceives
<1>2. CASE f.op = "Status" /\ UNCHANGED nodeVars
              /\ Deliver([op |-> "Status", id |-> f.id, body |-> FirmwareStatus])
  <2>1. NodeInv'
    BY <1>2, NodeInductive
  <2>2. Kept
    BY <1>2 DEF Kept, nodeVars, vars
  <2>3. PICK i \in Invocations : f = StatusFrame(i)
    <3>1. PICK i \in Invocations : f \in Frames(i)
      BY <1>1 DEF Sendable
    <3>2. /\ BeginFrame(i).op = "Begin" /\ FinishFrame(i).op = "Finish"
          /\ \A o : DataFrame(i, o).op = "Data"
          /\ \A s : ActivateFrame(i, s).op = "Activate"
          /\ \A s : AbortFrame(i, s).op = "Abort"
      BY DEF BeginFrame, FinishFrame, DataFrame, ActivateFrame, AbortFrame
    <3>3. f = StatusFrame(i)
      BY <1>2, <3>1, <3>2 DEF Frames, DataFrames
    <3> QED
      BY <3>3
  <2>4. f.id = <<i, 0>>
    BY <2>3 DEF StatusFrame
  <2>5. FirmwareStatus \in StatusBody
    BY DEF NodeInv, NodeTypeOK, TypeOK, FirmwareStatus, StatusBody
  <2>6. PICK reply : reply = [op |-> "Status", id |-> f.id, body |-> FirmwareStatus]
    OBVIOUS
  <2>7. f.id \in RequestIds
    <3>1. <<i, 0>> \in Invocations \X {0, 1, 2, 3}
      OBVIOUS
    <3> QED
      BY <2>4, <3>1 DEF RequestIds
  <2>8. /\ reply \in Replies /\ reply.op = "Status" /\ reply.id = <<i, 0>>
        /\ reply.body.session = session /\ reply.body.state = state
    BY <2>4, <2>5, <2>6, <2>7 DEF Replies, FirmwareStatus
  <2>9. Answers(reply)
    BY <2>8 DEF Answers
  <2> QED
    BY <1>2, <2>1, <2>2, <2>6, <2>9
<1>3. ASSUME NEW e \in AckError, Handle(f, e),
             Deliver([op |-> "Ack", id |-> f.id, body |-> FirmwareAck(e)])
      PROVE  /\ NodeInv'
             /\ Begun(f) \/ Wrote(f) \/ Discarded(f) \/ Kept
             /\ \E reply : Deliver(reply) /\ Answers(reply)
  <2>1. NodeInv'
    BY <1>1, <1>3, HandledByNode, NodeInductive
  <2>2. Begun(f) \/ Wrote(f) \/ Discarded(f) \/ Kept
    BY <1>1, <1>3, NodeEffect
  <2>3. FirmwareAck(e) \in AckBody
    BY <1>3, <2>1 DEF NodeInv, NodeTypeOK, TypeOK, FirmwareAck, AckBody
  <2>4. PICK reply : reply = [op |-> "Ack", id |-> f.id, body |-> FirmwareAck(e)]
    OBVIOUS
  <2>5. /\ reply.op = "Ack" /\ reply.id = f.id
        /\ reply.body.session = session' /\ reply.body.next_offset = next_offset'
        /\ reply.body.state = state' /\ reply.body.error = e
    BY <2>4 DEF FirmwareAck
  <2>6. /\ f.id \in RequestIds
        /\ \A i : f.id = <<i, 2>> /\ e = "None" => state' = "Activating"
        /\ \A i : f.id = <<i, 3>> =>
              /\ f.op = "Abort"
              /\ \E s \in Sessions :
                    /\ f = AbortFrame(i, s)
                    /\ e = "None" => s = session /\ state' = "Idle"
    BY <1>1, <1>3, NodeAnswer
  <2>7. reply \in Replies
    BY <2>3, <2>4, <2>6 DEF Replies
  <2>8. Answers(reply)
    BY <2>5, <2>6, <2>7 DEF Answers
  <2> QED
    BY <1>3, <2>1, <2>2, <2>4, <2>8
<1> QED
  BY <1>2, <1>3 DEF NodeReceives

\* The logs only grow.
LEMMA LogsGrow ==
    ASSUME NodeReceives
    PROVE  /\ staged_log \subseteq staged_log' /\ active_log \subseteq active_log'
           /\ abort_log \subseteq abort_log'
           /\ state' = "Staged" => <<session', manifest'>> \in staged_log'
           /\ state' = "Activating" => session' \in active_log'
           /\ Head(bus).op = "Abort" /\ state' = "Idle" => session \in abort_log'
           /\ \A x \in staged_log' :
                 x \in staged_log \/ (state' = "Staged" /\ x = <<session', manifest'>>)
BY DEF NodeReceives

-----------------------------------------------------------------------------
\* Taking the head off the bus.
LEMMA BusShrinks ==
    ASSUME bus \in Seq(Sendable), bus # <<>>, bus' = Tail(bus),
           UNCHANGED <<setup, host>>, NEW i \in Invocations, DataLast(i)
    PROVE  /\ bus' \in Seq(Sendable)' /\ Range(bus)' \subseteq Range(bus)
           /\ MayBegin(i)' => MayBegin(i) /\ Head(bus) \notin DataFrames(i)
           /\ DataLast(i)'
<1>1. /\ bus' \in Seq(Sendable) /\ Range(bus') \subseteq Range(bus)
      /\ Head(bus) \in Range(bus) /\ Head(bus) = bus[1]
      /\ Len(bus) \in Nat \ {0} /\ Len(bus') = Len(bus) - 1
      /\ \A k \in 1..(Len(bus) - 1) : bus'[k] = bus[k + 1]
  BY Removed
<1>2. /\ Sendable' = Sendable
      /\ BeginFrame(i)' = BeginFrame(i) /\ DataFrames(i)' = DataFrames(i)
  BY SetupFixed
<1>3. MayBegin(i)' => MayBegin(i)
  BY <1>1, <1>2 DEF MayBegin
<1>4. ASSUME MayBegin(i)' PROVE Head(bus) \notin DataFrames(i)
  <2>1. CASE host[i].pc \in {"start", "begin"}
    BY <1>1, <2>1 DEF DataLast
  <2>2. CASE BeginFrame(i) \in Range(bus')
    <3>1. PICK k \in DOMAIN bus' : bus'[k] = BeginFrame(i)
      BY <2>2 DEF Range
    <3>2. k \in 1..(Len(bus) - 1)
      BY <1>1, <3>1, LenProperties
    <3>3. k + 1 \in 1..Len(bus) /\ 1 \in 1..Len(bus) /\ 1 < k + 1
      BY <1>1, <3>2
    <3>4. bus[k + 1] = BeginFrame(i)
      BY <1>1, <3>1, <3>2
    <3> QED
      BY <1>1, <3>3, <3>4 DEF DataLast
  <2> QED
    BY <1>2, <1>4, <2>1, <2>2 DEF MayBegin
<1>5. DataLast(i)'
  <2>1. host'[i].pc \in {"start", "begin"} => Range(bus') \cap DataFrames(i) = {}
    BY <1>1 DEF DataLast
  <2>2. ASSUME NEW k \in 1..Len(bus'), NEW l \in 1..Len(bus'), k < l,
               bus'[k] \in DataFrames(i)
        PROVE  bus'[l] # BeginFrame(i)
    <3>1. /\ k + 1 \in 1..Len(bus) /\ l + 1 \in 1..Len(bus) /\ k + 1 < l + 1
          /\ bus'[k] = bus[k + 1] /\ bus'[l] = bus[l + 1]
      BY <1>1, <2>2
    <3> QED
      BY <2>2, <3>1 DEF DataLast
  <2> QED
    BY <1>2, <2>1, <2>2 DEF DataLast
<1> QED
  BY <1>1, <1>2, <1>3, <1>4, <1>5

\* A reply reaches sockets and nothing else does.
LEMMA Delivered ==
    ASSUME socket \in [Invocations -> Seq(Replies)], NEW reply \in Replies,
           Deliver(reply)
    PROVE  /\ socket' \in [Invocations -> Seq(Replies)]
           /\ \A i \in Invocations : Range(socket'[i]) \subseteq Range(socket[i]) \cup {reply}
<1>1. ASSUME NEW i \in Invocations
      PROVE  /\ socket'[i] \in Seq(Replies)
             /\ Range(socket'[i]) \subseteq Range(socket[i]) \cup {reply}
  <2>1. socket'[i] = Append(socket[i], reply) \/ socket'[i] = socket[i]
    BY DEF Deliver
  <2>2. socket[i] \in Seq(Replies)
    OBVIOUS
  <2>3. /\ Append(socket[i], reply) \in Seq(Replies)
        /\ Range(Append(socket[i], reply)) = Range(socket[i]) \cup {reply}
    BY <2>2, Appended
  <2> QED
    BY <2>1, <2>2, <2>3
<1> QED
  BY <1>1 DEF Deliver

\* An acknowledgement carries an offset of the wire.
LEMMA AcksTyped ==
    ASSUME socket \in [Invocations -> Seq(Replies)], NEW i \in Invocations,
           NEW r \in Acks(i)
    PROVE  r.body \in AckBody /\ r.body.next_offset \in Nat
<1>1. r \in Replies
  <2>1. socket[i] \in Seq(Replies)
    OBVIOUS
  <2>2. PICK k \in DOMAIN socket[i] : r = socket[i][k]
    BY DEF Acks, Range
  <2> QED
    BY <2>1, <2>2, ElementOfSeq, LenProperties
<1>2. r.op = "Ack"
  BY DEF Acks
<1>3. r \in [op : {"Ack"}, id : RequestIds, body : AckBody]
  BY <1>1, <1>2 DEF Replies
<1>4. r.body \in AckBody
  BY <1>3
<1>5. r.body.next_offset \in 0..U32_MAX
  BY <1>4 DEF AckBody
<1> QED
  BY <1>4, <1>5, SizesAssumption

\* What the node does to the queues, the logs and its own session when it
\* handles a frame keeps the invariant.
LEMMA ReceivedAhead ==
    ASSUME TransferInv, NodeReceives, UNCHANGED <<setup, host>>, NEW i \in Invocations
    PROVE  Fresh(i)' /\ DataLast(i)' /\ NeverAhead(i)'
<1> USE DEF TransferInv
<1>1. /\ bus \in Seq(Sendable) /\ bus # <<>> /\ bus' = Tail(bus)
      /\ DataLast(i) /\ Fresh(i) /\ NeverAhead(i)
      /\ socket \in [Invocations -> Seq(Replies)]
  BY DEF NodeReceives, Shapes, Ahead
<1>2. /\ MayBegin(i)' => MayBegin(i) /\ Head(bus) \notin DataFrames(i)
      /\ DataLast(i)'
  BY <1>1, BusShrinks
<1>3. Begun(Head(bus)) \/ Wrote(Head(bus)) \/ Discarded(Head(bus)) \/ Kept
  BY NodeAnswers
<1>4. PICK reply : Deliver(reply) /\ Answers(reply)
  BY NodeAnswers
<1>5. Range(socket'[i]) \subseteq Range(socket[i]) \cup {reply}
  BY <1>1, <1>4, Delivered DEF Answers
<1>6. \A r \in Acks(i)' :
          r \in Acks(i) \/ (session' = i /\ r.body.next_offset = next_offset')
  BY <1>4, <1>5 DEF Acks, Answers
<1>7. i # 0
  BY SetupTyped DEF Shapes
<1>8. MayBegin(i)' /\ session' = i => next_offset' = 0
  <2>1. CASE Begun(Head(bus))
    BY <2>1 DEF Begun
  <2>2. CASE Wrote(Head(bus))
    BY <1>2, <2>2 DEF Wrote
  <2>3. CASE Discarded(Head(bus))
    BY <2>3 DEF Discarded
  <2>4. CASE Kept
    BY <1>1, <1>2, <2>4 DEF Kept, Fresh
  <2> QED
    BY <1>3, <2>1, <2>2, <2>3, <2>4
<1>9. Fresh(i)'
  BY <1>1, <1>2, <1>6, <1>8 DEF Fresh
<1>10. ASSUME session' = i, state' \in InProgress
       PROVE  /\ host[i].offset <= next_offset' /\ host[i].cumulative <= next_offset'
              /\ \A r \in Acks(i) : r.body.next_offset <= next_offset'
  <2>1. CASE Begun(Head(bus))
    <3>1. Head(bus) = BeginFrame(i) /\ next_offset' = 0
      <4>1. PICK j \in Invocations : /\ Head(bus) = BeginFrame(j)
                                     /\ session' = j /\ next_offset' = 0
        BY <2>1 DEF Begun
      <4> QED
        BY <1>10, <4>1
    <3>2. MayBegin(i)
      BY <1>1, <3>1, Removed DEF MayBegin
    <3> QED
      BY <1>1, <3>1, <3>2 DEF Fresh
  <2>2. CASE Wrote(Head(bus))
    <3>1. session = i /\ state \in InProgress /\ next_offset' >= next_offset
      BY <1>10, <2>2 DEF Wrote
    <3>2. /\ host[i].offset <= next_offset /\ host[i].cumulative <= next_offset
          /\ \A r \in Acks(i) : r.body.next_offset <= next_offset
      BY <1>1, <3>1 DEF NeverAhead
    <3>3. /\ host[i].offset \in Int /\ host[i].cumulative \in Int
          /\ next_offset \in Int /\ next_offset' \in Int
      <4>1. NodeInv'
        BY NodeAnswers
      <4>2. next_offset \in 0..U32_MAX /\ next_offset' \in 0..U32_MAX
        BY <4>1 DEF NodeInv, NodeTypeOK, TypeOK
      <4> QED
        BY <4>2, SizesAssumption DEF Shapes, HostStates
    <3>4. \A r \in Acks(i) : r.body.next_offset \in Int
      BY <1>1, AcksTyped DEF Shapes
    <3> QED
      BY <3>1, <3>2, <3>3, <3>4
  <2>3. CASE Discarded(Head(bus))
    BY <1>7, <1>10, <2>3 DEF Discarded
  <2>4. CASE Kept
    BY <1>1, <1>10, <2>4 DEF Kept, NeverAhead
  <2> QED
    BY <1>3, <2>1, <2>2, <2>3, <2>4
<1>11. next_offset' <= next_offset'
  <2>1. NodeInv'
    BY NodeAnswers
  <2>2. next_offset' \in 0..U32_MAX
    BY <2>1 DEF NodeInv, NodeTypeOK, TypeOK
  <2> QED
    BY <2>2, SizesAssumption
<1>12. NeverAhead(i)'
  BY <1>6, <1>10, <1>11 DEF NeverAhead
<1> QED
  BY <1>2, <1>9, <1>12

LEMMA ReceivedManifest ==
    ASSUME TransferInv, NodeReceives, setup' = setup
    PROVE  OwnManifest' /\ OwnImages'
<1>1. Begun(Head(bus)) \/ Wrote(Head(bus)) \/ Discarded(Head(bus)) \/ Kept
  BY NodeAnswers
<1>2. OwnManifest /\ OwnImages
  BY DEF TransferInv, Reports
<1>3. /\ Invocations' = Invocations
      /\ \A i : Bundle(i)' = Bundle(i) /\ Stages(i)' = Stages(i)
  BY SetupFixed
<1>4. \A i \in Invocations : i # 0
  BY SetupTyped DEF TransferInv, Shapes
<1>5. ASSUME Begun(Head(bus)) PROVE OwnManifest'
  <2>1. PICK i \in Invocations : Stages(i) /\ session' = i /\ manifest' = Bundle(i)
    BY <1>5 DEF Begun
  <2>2. Bundle(session') = Bundle(i) /\ Stages(session')
    BY <2>1
  <2> QED
    BY <1>3, <1>4, <2>1, <2>2 DEF OwnManifest
<1>6. ASSUME Wrote(Head(bus)) \/ Kept PROVE OwnManifest'
  <2>1. /\ session' = session /\ manifest' = manifest
        /\ state' \in InProgress => state \in InProgress
    BY <1>6 DEF Wrote, Kept
  <2> QED
    BY <1>2, <1>3, <2>1 DEF OwnManifest, InProgress
<1>7. ASSUME Discarded(Head(bus)) PROVE OwnManifest'
  <2>1. session' = 0 /\ state' = "Idle"
    BY <1>7 DEF Discarded
  <2> QED
    BY <2>1 DEF OwnManifest, InProgress
<1>8. OwnManifest'
  BY <1>1, <1>5, <1>6, <1>7
<1>9. state' = "Staged" =>
         /\ session' \in Invocations /\ Stages(session')
         /\ manifest' = Bundle(session')
  BY <1>3, <1>8 DEF OwnManifest, InProgress
<1>10. state' = "Staged" => Whole(session)'
  BY <1>3, <1>9, LogsGrow DEF Whole
<1>11. ASSUME NEW s, Whole(s)'
       PROVE  s \in Invocations /\ Stages(s)
  <2>1. <<s, Bundle(s)>> \in staged_log'
    BY <1>3, <1>11 DEF Whole
  <2>2. CASE <<s, Bundle(s)>> \in staged_log
    BY <1>2, <2>2 DEF OwnImages, Whole
  <2>3. CASE state' = "Staged" /\ <<s, Bundle(s)>> = <<session', manifest'>>
    BY <1>9, <2>3
  <2> QED
    BY <2>1, <2>2, <2>3, LogsGrow
<1>12. OwnImages'
  BY <1>3, <1>10, <1>11 DEF OwnImages
<1> QED
  BY <1>8, <1>12

LEMMA ReceivedReports ==
    ASSUME TransferInv, NodeReceives, UNCHANGED <<setup, host>>, NEW i \in Invocations
    PROVE  Truthful(i)' /\ Informed(i)' /\ Aborting(i)' /\ Course(i, host[i])'
<1>1. /\ bus \in Seq(Sendable) /\ bus # <<>> /\ bus' = Tail(bus)
      /\ socket \in [Invocations -> Seq(Replies)]
      /\ Truthful(i) /\ Informed(i) /\ Aborting(i) /\ Course(i, host[i])
      /\ OwnManifest /\ OwnImages
  BY DEF NodeReceives, TransferInv, Shapes, Reports
<1>2. Range(bus') \subseteq Range(bus) /\ Head(bus) \in Range(bus)
  BY <1>1, Removed
<1>3. PICK reply : Deliver(reply) /\ Answers(reply)
  BY NodeAnswers
<1>4. Range(socket'[i]) \subseteq Range(socket[i]) \cup {reply}
  BY <1>1, <1>3, Delivered DEF Answers
<1>5. /\ staged_log \subseteq staged_log' /\ active_log \subseteq active_log'
      /\ abort_log \subseteq abort_log'
      /\ state' = "Staged" => <<session', manifest'>> \in staged_log'
      /\ state' = "Activating" => session' \in active_log'
      /\ Head(bus).op = "Abort" /\ state' = "Idle" => session \in abort_log'
  BY LogsGrow
<1>6. /\ \A s : AbortFrame(i, s)' = AbortFrame(i, s) /\ Bundle(s)' = Bundle(s)
      /\ Verb(i)' = Verb(i) /\ Stages(i)' = Stages(i) /\ Activates(i)' = Activates(i)
  BY SetupFixed
<1>7. \A s : Whole(s) => Whole(s)'
  BY <1>5, <1>6 DEF Whole
<1>8. reply.id = <<i, 3>> =>
         /\ host[i].pc \in {"abort"} \cup Exits
         /\ reply.op = "Ack" /\ reply.body.error = "None" => host[i].session \in abort_log'
  <2> SUFFICES ASSUME reply.id = <<i, 3>>
               PROVE  /\ host[i].pc \in {"abort"} \cup Exits
                      /\ reply.op = "Ack" /\ reply.body.error = "None" =>
                            host[i].session \in abort_log'
    OBVIOUS
  <2>1. PICK s \in Sessions :
           /\ Head(bus).op = "Abort"
           /\ Head(bus) = AbortFrame(i, s)
           /\ reply.op = "Ack" /\ reply.body.error = "None" => s = session /\ state' = "Idle"
    BY <1>3 DEF Answers
  <2>2. host[i].pc \in {"abort"} \cup Exits /\ s = host[i].session
    BY <1>1, <1>2, <2>1 DEF Aborting
  <2> QED
    BY <1>5, <2>1, <2>2
<1>9. Aborting(i)'
  BY <1>1, <1>2, <1>4, <1>6, <1>8 DEF Aborting
<1>10. ASSUME reply.op = "Ack"
      PROVE  /\ reply.body.session = i /\ reply.body.state = "Staged" =>
                   Whole(i)'
             /\ reply.id = <<i, 2>> /\ reply.body.error = "None" =>
                   reply.body.session \in active_log'
  <2>1. session' # 0 => manifest' = Bundle(session')
    BY ReceivedManifest DEF OwnManifest, Bundle, Command
  <2>2. i # 0
    BY SetupTyped DEF TransferInv, Shapes
  <2> QED
    BY <1>3, <1>5, <1>6, <1>10, <2>1, <2>2 DEF Answers, Whole
<1>11. ASSUME NEW r \in Range(socket'[i]), r.op = "Ack"
       PROVE  /\ r.body.session = i /\ r.body.state = "Staged" =>
                   Whole(i)'
              /\ r.id = <<i, 2>> /\ r.body.error = "None" => r.body.session \in active_log'
              /\ r.id = <<i, 3>> /\ r.body.error = "None" => host[i].session \in abort_log'
  <2>1. CASE r \in Range(socket[i])
    BY <1>1, <1>5, <1>11, <1>7, <2>1 DEF Truthful
  <2>2. CASE r = reply
    BY <1>8, <1>10, <1>11, <2>2
  <2> QED
    BY <1>4, <2>1, <2>2
<1>12. Truthful(i)'
  BY <1>6, <1>11 DEF Truthful
<1>13. Course(i, host[i])'
  <2>1. host'[i] = host[i]
    OBVIOUS
  <2> QED
    BY <1>1, <1>5, <1>6, <1>7, <2>1 DEF Course
<1>14. ASSUME reply.op = "Status", reply.body.state = "Staged"
       PROVE  Whole(reply.body.session)
  BY <1>1, <1>3, <1>14 DEF Answers, OwnImages
<1>15. Informed(i)'
  <2>1. ASSUME NEW r \in Range(socket'[i]), r.op = "Status", r.body.state = "Staged"
        PROVE  Whole(r.body.session)'
    BY <1>1, <1>4, <1>14, <1>7, <2>1 DEF Informed
  <2> QED
    BY <2>1 DEF Informed
<1> QED
  BY <1>9, <1>12, <1>13, <1>15

LEMMA ReceivedShapes ==
    ASSUME TransferInv, NodeReceives, setup' = setup
    PROVE  Shapes'
<1>1. /\ setup \in Setups /\ bus \in Seq(Sendable) /\ bus # <<>> /\ bus' = Tail(bus)
      /\ socket \in [Invocations -> Seq(Replies)] /\ host \in [Invocations -> HostStates]
      /\ host' = host
  BY DEF NodeReceives, TransferInv, Shapes
<1>2. bus' \in Seq(Sendable)
  BY <1>1, Removed
<1>3. PICK reply : Deliver(reply) /\ Answers(reply)
  BY NodeAnswers
<1>4. socket' \in [Invocations -> Seq(Replies)]
  BY <1>1, <1>3, Delivered DEF Answers
<1>5. Sendable' = Sendable /\ Replies' = Replies /\ Invocations' = Invocations
  BY SetupFixed
<1> QED
  BY <1>1, <1>2, <1>4, <1>5 DEF Shapes, HostStates

LEMMA NodeReceivesInductive ==
    TransferInv /\ NodeReceives /\ UNCHANGED setup => TransferInv'
<1> SUFFICES ASSUME TransferInv, NodeReceives, setup' = setup PROVE TransferInv'
  OBVIOUS
<1>1. host' = host
  BY DEF NodeReceives
<1>2. Shapes' /\ NodeInv'
  BY ReceivedShapes, NodeAnswers
<1>3. Invocations' = Invocations
  BY SetupFixed
<1>4. Ahead'
  BY <1>1, <1>3, ReceivedAhead DEF Ahead
<1>5. Reports'
  BY <1>1, <1>3, ReceivedManifest, ReceivedReports DEF Reports
<1> QED
  BY <1>2, <1>4, <1>5 DEF TransferInv

-----------------------------------------------------------------------------
\* The offsets an invocation can learn from what it knows and what it reads.
Known(i) ==
    {host[i].offset, host[i].cumulative} \cup {r.body.next_offset : r \in Acks(i)}

Opening == {"start", "begin"}
Closing == {"abort"} \cup Exits

\* A step of invocation i leaves it in h with q in its socket ...
Move(i, h, q) ==
    /\ host' = [host EXCEPT ![i] = h]
    /\ socket' = [socket EXCEPT ![i] = q]
    /\ UNCHANGED <<setup, nodeVars, logVars>>
    /\ h \in HostStates
    /\ q \in Seq(Replies) /\ Range(q) \subseteq Range(socket[i])
    /\ {h.offset, h.cumulative} \subseteq Known(i)
    /\ h.pc \in Opening => host[i].pc \in Opening
    /\ host[i].pc \in Closing => h.pc \in Closing /\ h.session = host[i].session
    /\ Course(i, h)

\* ... and may send f.
Sends(i, h, f) ==
    /\ f \in Frames(i)
    /\ f = BeginFrame(i) => host[i].pc \in Opening
    /\ f \in DataFrames(i) => host[i].pc = "sending"
    /\ \A s \in Sessions : f = AbortFrame(i, s) => h.pc = "abort" /\ h.session = s

Moves(i, h, q) ==
    /\ Move(i, h, q)
    /\ bus' = bus \/ \E f : bus' = Append(bus, f) /\ Sends(i, h, f)

HostMove(i) == \E h, q : Moves(i, h, q)

\* A frame tells who sent it.
LEMMA FrameOwner ==
    ASSUME NEW i \in Invocations, NEW j \in Invocations, NEW f \in Frames(i)
    PROVE  /\ f = BeginFrame(j) => i = j
           /\ f \in DataFrames(j) => i = j /\ f # BeginFrame(j)
           /\ \A s : f = AbortFrame(j, s) => i = j
<1>1. /\ BeginFrame(j).op = "Begin" /\ BeginFrame(j).session = j
      /\ BeginFrame(i).op = "Begin" /\ BeginFrame(i).session = i
  BY DEF BeginFrame
<1>2. /\ \A o : DataFrame(j, o).op = "Data" /\ DataFrame(j, o).session = j
      /\ \A o : DataFrame(i, o).op = "Data" /\ DataFrame(i, o).session = i
  BY DEF DataFrame
<1>3. /\ \A s : AbortFrame(j, s).op = "Abort" /\ AbortFrame(j, s).id = <<j, 3>>
      /\ \A s : AbortFrame(i, s).op = "Abort" /\ AbortFrame(i, s).id = <<i, 3>>
  BY DEF AbortFrame
<1>4. /\ FinishFrame(i).op = "Finish" /\ StatusFrame(i).op = "Status"
      /\ \A s : ActivateFrame(i, s).op = "Activate"
  BY DEF FinishFrame, StatusFrame, ActivateFrame
<1>5. \/ f = BeginFrame(i) \/ f = FinishFrame(i) \/ f = StatusFrame(i)
      \/ \E o : f = DataFrame(i, o)
      \/ \E s \in Sessions : f = ActivateFrame(i, s)
      \/ \E s \in Sessions : f = AbortFrame(i, s)
  BY DEF Frames, DataFrames
<1>6. f = BeginFrame(j) => i = j
  BY <1>1, <1>2, <1>3, <1>4, <1>5
<1>7. f \in DataFrames(j) => i = j /\ f # BeginFrame(j)
  BY <1>1, <1>2, <1>3, <1>4, <1>5 DEF DataFrames
<1>8. \A s : f = AbortFrame(j, s) => i = j
  <2> SUFFICES ASSUME NEW s, f = AbortFrame(j, s) PROVE i = j
    OBVIOUS
  <2>1. f.op = "Abort" /\ f.id = <<j, 3>>
    BY <1>3
  <2>2. f.id = <<i, 3>>
    BY <1>1, <1>2, <1>3, <1>4, <1>5, <2>1
  <2> QED
    BY <2>1, <2>2
<1> QED
  BY <1>6, <1>7, <1>8

\* Only the step's own invocation moves.
LEMMA MoveEffect ==
    ASSUME Shapes, NEW i \in Invocations, NEW h, NEW q, Move(i, h, q),
           NEW j \in Invocations
    PROVE  /\ host'[j] = IF j = i THEN h ELSE host[j]
           /\ Range(socket'[j]) \subseteq Range(socket[j])
           /\ Acks(j)' \subseteq Acks(j)
           /\ {host'[j].offset, host'[j].cumulative} \subseteq Known(j)
           /\ host'[j].pc \in Opening => host[j].pc \in Opening
           /\ host[j].pc \in Closing =>
                 host'[j].pc \in Closing /\ host'[j].session = host[j].session
           /\ Course(j, host[j]) => Course(j, host'[j])
<1>1. host'[j] = IF j = i THEN h ELSE host[j]
  BY DEF Shapes, Move
<1>2. socket'[j] = IF j = i THEN q ELSE socket[j]
  BY DEF Shapes, Move
<1>3. Range(socket'[j]) \subseteq Range(socket[j])
  BY <1>2 DEF Move
<1>4. Acks(j)' \subseteq Acks(j)
  BY <1>3 DEF Acks
<1>5. {host[j].offset, host[j].cumulative} \subseteq Known(j)
  BY DEF Known
<1> QED
  BY <1>1, <1>3, <1>4, <1>5 DEF Move

LEMMA MoveBus ==
    ASSUME Shapes, NEW i \in Invocations, NEW h, NEW q, Moves(i, h, q)
    PROVE  /\ bus' \in Seq(Sendable)
           /\ \A j \in Invocations :
                 /\ BeginFrame(j) \in Range(bus') =>
                       BeginFrame(j) \in Range(bus) \/ host[j].pc \in Opening
                 /\ \A s \in Sessions : AbortFrame(j, s) \in Range(bus') =>
                       \/ AbortFrame(j, s) \in Range(bus)
                       \/ j = i /\ h.pc = "abort" /\ h.session = s
<1>1. bus \in Seq(Sendable)
  BY DEF Shapes
<1>2. CASE bus' = bus
  BY <1>1, <1>2
<1>3. ASSUME NEW f, bus' = Append(bus, f), Sends(i, h, f)
      PROVE  /\ bus' \in Seq(Sendable)
             /\ \A j \in Invocations :
                   /\ BeginFrame(j) \in Range(bus') =>
                         BeginFrame(j) \in Range(bus) \/ host[j].pc \in Opening
                   /\ \A s \in Sessions : AbortFrame(j, s) \in Range(bus') =>
                         \/ AbortFrame(j, s) \in Range(bus)
                         \/ j = i /\ h.pc = "abort" /\ h.session = s
  <2>1. f \in Frames(i) /\ f \in Sendable
    BY <1>3 DEF Sends, Sendable
  <2>2. bus' \in Seq(Sendable) /\ Range(bus') = Range(bus) \cup {f}
    BY <1>1, <1>3, <2>1, Appended
  <2> QED
    BY <1>3, <2>1, <2>2, FrameOwner DEF Sends
<1> QED
  BY <1>2, <1>3 DEF Moves

LEMMA MoveDataLast ==
    ASSUME Shapes, NEW i \in Invocations, NEW h, NEW q, Moves(i, h, q),
           NEW j \in Invocations, DataLast(j)
    PROVE  DataLast(j)'
<1>1. bus \in Seq(Sendable)
  BY DEF Shapes
<1>2. BeginFrame(j)' = BeginFrame(j) /\ DataFrames(j)' = DataFrames(j)
  BY SetupFixed DEF Moves, Move
<1>3. host'[j].pc \in Opening => host[j].pc \in Opening
  BY MoveEffect DEF Moves
<1>4. CASE bus' = bus
  BY <1>2, <1>3, <1>4 DEF DataLast, Opening
<1>5. ASSUME NEW f, bus' = Append(bus, f), Sends(i, h, f)
      PROVE  DataLast(j)'
  <2>1. f \in Frames(i) /\ f \in Sendable
    BY <1>5 DEF Sends, Sendable
  <2>2. /\ Range(bus') = Range(bus) \cup {f} /\ Len(bus') = Len(bus) + 1
        /\ \A k \in 1..Len(bus) : bus'[k] = bus[k]
        /\ bus'[Len(bus) + 1] = f
        /\ Len(bus) \in Nat
    BY <1>1, <1>5, <2>1, Appended, LenProperties
  <2>3. f \in DataFrames(j) => host[j].pc = "sending"
    BY <1>5, <2>1, FrameOwner DEF Sends
  <2>4. host'[j].pc \in {"start", "begin"} => Range(bus') \cap DataFrames(j) = {}
    BY <1>3, <2>2, <2>3 DEF DataLast, Opening
  <2>5. ASSUME NEW k \in 1..Len(bus'), NEW l \in 1..Len(bus'), k < l,
               bus'[k] \in DataFrames(j)
        PROVE  bus'[l] # BeginFrame(j)
    <3>1. k \in 1..Len(bus) /\ bus'[k] = bus[k]
      BY <2>2, <2>5
    <3>2. CASE l \in 1..Len(bus)
      BY <2>2, <2>5, <3>1, <3>2 DEF DataLast
    <3>3. CASE l = Len(bus) + 1
      <4>1. bus'[l] = f
        BY <2>2, <3>3
      <4>2. bus[k] \in Range(bus)
        BY <1>1, <3>1, LenProperties DEF Range
      <4>3. host[j].pc \notin Opening
        BY <2>5, <3>1, <4>2 DEF DataLast, Opening
      <4> QED
        BY <1>5, <2>1, <4>1, <4>3, FrameOwner DEF Sends
    <3> QED
      BY <2>2, <3>2, <3>3
  <2> QED
    BY <1>2, <2>4, <2>5 DEF DataLast
<1> QED
  BY <1>4, <1>5 DEF Moves

LEMMA MoveAhead ==
    ASSUME TransferInv, NEW i \in Invocations, NEW h, NEW q, Moves(i, h, q),
           NEW j \in Invocations
    PROVE  Fresh(j)' /\ DataLast(j)' /\ NeverAhead(j)'
<1>1. Shapes /\ Fresh(j) /\ DataLast(j) /\ NeverAhead(j)
  BY DEF TransferInv, Ahead
<1>2. /\ Acks(j)' \subseteq Acks(j)
      /\ {host'[j].offset, host'[j].cumulative} \subseteq Known(j)
      /\ host'[j].pc \in Opening => host[j].pc \in Opening
  BY <1>1, MoveEffect DEF Moves
<1>3. UNCHANGED <<session, state, next_offset>> /\ setup' = setup
  BY DEF Moves, Move, nodeVars, vars
<1>4. MayBegin(j)' => MayBegin(j)
  <2>1. BeginFrame(j) \in Range(bus') => BeginFrame(j) \in Range(bus) \/ host[j].pc \in Opening
    BY <1>1, MoveBus
  <2>2. BeginFrame(j)' = BeginFrame(j)
    BY <1>3, SetupFixed
  <2> QED
    BY <1>2, <2>1, <2>2 DEF MayBegin, Opening
<1>5. Fresh(j)'
  BY <1>1, <1>2, <1>3, <1>4 DEF Fresh, Known
<1>6. NeverAhead(j)'
  BY <1>1, <1>2, <1>3 DEF NeverAhead, Known
<1>7. DataLast(j)'
  BY <1>1, MoveDataLast
<1> QED
  BY <1>5, <1>6, <1>7

\* What the node's session and the logs say survives a step that leaves them.
LEMMA OwnKept ==
    ASSUME OwnManifest, OwnImages, Invocations' = Invocations,
           UNCHANGED <<session, manifest, state, staged_log>>,
           \A j : Stages(j)' = Stages(j) /\ Bundle(j)' = Bundle(j)
    PROVE  OwnManifest' /\ OwnImages'
<1>1. OwnManifest'
  BY DEF OwnManifest
<1>2. \A s : Whole(s)' = Whole(s)
  BY DEF Whole
<1>3. Whole(session)' = Whole(session)
  BY DEF Whole
<1> QED
  BY <1>1, <1>2, <1>3 DEF OwnImages

LEMMA MoveReports ==
    ASSUME TransferInv, NEW i \in Invocations, NEW h, NEW q, Moves(i, h, q),
           NEW j \in Invocations
    PROVE  Truthful(j)' /\ Informed(j)' /\ Aborting(j)' /\ Course(j, host[j])'
<1>1. Shapes /\ Truthful(j) /\ Informed(j) /\ Aborting(j) /\ Course(j, host[j])
  BY DEF TransferInv, Reports
<1>2. /\ host'[j] = IF j = i THEN h ELSE host[j]
      /\ Range(socket'[j]) \subseteq Range(socket[j])
      /\ host[j].pc \in Closing =>
            host'[j].pc \in Closing /\ host'[j].session = host[j].session
      /\ Course(j, host[j]) => Course(j, host'[j])
  BY <1>1, MoveEffect DEF Moves
<1>3. UNCHANGED <<staged_log, active_log, abort_log>> /\ setup' = setup
  BY DEF Moves, Move, logVars
<1>4. /\ \A s : AbortFrame(j, s)' = AbortFrame(j, s) /\ Whole(s)' = Whole(s)
      /\ Verb(j)' = Verb(j) /\ Stages(j)' = Stages(j) /\ Activates(j)' = Activates(j)
  BY <1>3, SetupFixed DEF Whole
<1>5. \A s \in Sessions : AbortFrame(j, s) \in Range(bus') =>
         \/ AbortFrame(j, s) \in Range(bus)
         \/ j = i /\ h.pc = "abort" /\ h.session = s
  BY <1>1, MoveBus
<1>6. Aborting(j)'
  <2>1. ASSUME NEW s \in Sessions, AbortFrame(j, s) \in Range(bus')
        PROVE  host'[j].pc \in Closing /\ s = host'[j].session
    <3>1. CASE AbortFrame(j, s) \in Range(bus)
      BY <1>1, <1>2, <3>1 DEF Aborting, Closing
    <3>2. CASE j = i /\ h.pc = "abort" /\ h.session = s
      BY <1>2, <3>2 DEF Closing
    <3> QED
      BY <1>5, <2>1, <3>1, <3>2
  <2>2. \A r \in Range(socket'[j]) : r.id = <<j, 3>> => host'[j].pc \in Closing
    BY <1>1, <1>2 DEF Aborting, Closing
  <2> QED
    BY <1>4, <2>1, <2>2 DEF Aborting, Closing
<1>7. Truthful(j)'
  <2>1. ASSUME NEW r \in Range(socket[j]), r.op = "Ack", r.id = <<j, 3>>,
               r.body.error = "None"
        PROVE  host'[j].session \in abort_log
    BY <1>1, <1>2, <2>1 DEF Truthful, Aborting, Closing
  <2> QED
    BY <1>1, <1>2, <1>3, <1>4, <2>1 DEF Truthful
<1>8. Course(j, host[j])'
  BY <1>1, <1>2, <1>3, <1>4 DEF Course
<1>9. Informed(j)'
  BY <1>1, <1>2, <1>4 DEF Informed
<1> QED
  BY <1>6, <1>7, <1>8, <1>9

LEMMA MoveInductive ==
    ASSUME TransferInv, NEW i \in Invocations, HostMove(i)
    PROVE  TransferInv'
<1>1. PICK h, q : Moves(i, h, q)
  BY DEF HostMove
<1>2. Shapes /\ NodeInv /\ OwnManifest /\ OwnImages
  BY DEF TransferInv, Reports
<1>3. UNCHANGED <<setup, nodeVars, logVars>>
  BY <1>1 DEF Moves, Move
<1>4. /\ Invocations' = Invocations /\ Sendable' = Sendable /\ Replies' = Replies
      /\ UNCHANGED <<session, manifest, state, staged_log>>
      /\ \A j : Stages(j)' = Stages(j) /\ Bundle(j)' = Bundle(j)
  BY <1>3, SetupFixed DEF nodeVars, vars, logVars
<1>5. NodeInv'
  BY <1>2, <1>3, NodeInductive
<1>6. bus' \in Seq(Sendable)
  BY <1>1, <1>2, MoveBus
<1>7. /\ socket' \in [Invocations -> Seq(Replies)]
      /\ host' \in [Invocations -> HostStates]
  BY <1>1, <1>2 DEF Moves, Move, Shapes
<1>8. Shapes'
  BY <1>2, <1>3, <1>4, <1>6, <1>7 DEF Shapes, HostStates
<1>9. OwnManifest' /\ OwnImages'
  BY <1>2, <1>4, OwnKept
<1>10. Ahead'
  BY <1>1, <1>4, MoveAhead DEF Ahead
<1>11. Reports'
  BY <1>1, <1>4, <1>9, MoveReports DEF Reports
<1> QED
  BY <1>5, <1>8, <1>10, <1>11 DEF TransferInv

-----------------------------------------------------------------------------
\* A frame that is lost on its way to the node.
LEMMA LoseRequestInductive ==
    TransferInv /\ LoseRequest /\ UNCHANGED setup => TransferInv'
<1> SUFFICES ASSUME TransferInv, LoseRequest, setup' = setup PROVE TransferInv'
  OBVIOUS
<1>1. /\ bus \in Seq(Sendable) /\ bus # <<>> /\ bus' = Tail(bus)
      /\ UNCHANGED <<setup, nodeVars, socket, host, logVars>>
  BY DEF LoseRequest, TransferInv, Shapes
<1>2. UNCHANGED <<session, state, manifest, next_offset, staged_log, active_log, abort_log>>
  BY <1>1 DEF nodeVars, vars, logVars
<1>3. /\ Invocations' = Invocations /\ Sendable' = Sendable /\ Replies' = Replies
      /\ \A j : Stages(j)' = Stages(j) /\ Bundle(j)' = Bundle(j)
  BY SetupFixed
<1>4. bus' \in Seq(Sendable) /\ Range(bus') \subseteq Range(bus)
  BY <1>1, Removed
<1>5. Shapes'
  BY <1>1, <1>3, <1>4 DEF TransferInv, Shapes, HostStates
<1>6. NodeInv'
  BY <1>1, NodeInductive DEF TransferInv
<1>7. ASSUME NEW i \in Invocations
      PROVE  Fresh(i)' /\ DataLast(i)' /\ NeverAhead(i)'
  <2>1. Fresh(i) /\ DataLast(i) /\ NeverAhead(i)
    BY DEF TransferInv, Ahead
  <2>2. (MayBegin(i)' => MayBegin(i)) /\ DataLast(i)'
    BY <1>1, <2>1, BusShrinks
  <2>3. Acks(i)' = Acks(i)
    BY <1>1 DEF Acks
  <2> QED
    BY <1>1, <1>2, <2>1, <2>2, <2>3 DEF Fresh, NeverAhead
<1>8. ASSUME NEW i \in Invocations
      PROVE  Truthful(i)' /\ Informed(i)' /\ Aborting(i)' /\ Course(i, host[i])'
  <2>1. Truthful(i) /\ Informed(i) /\ Aborting(i) /\ Course(i, host[i])
    BY DEF TransferInv, Reports
  <2>2. /\ \A s : AbortFrame(i, s)' = AbortFrame(i, s) /\ Whole(s)' = Whole(s)
        /\ Verb(i)' = Verb(i) /\ Stages(i)' = Stages(i) /\ Activates(i)' = Activates(i)
    BY <1>2, SetupFixed DEF Whole
  <2>3. Truthful(i)' /\ Informed(i)'
    BY <1>1, <1>2, <2>1, <2>2 DEF Truthful, Informed
  <2>4. Aborting(i)'
    BY <1>1, <1>4, <2>1, <2>2 DEF Aborting
  <2>5. Course(i, host[i])'
    BY <1>1, <1>2, <2>1, <2>2 DEF Course
  <2> QED
    BY <2>3, <2>4, <2>5
<1>9. OwnManifest' /\ OwnImages'
  BY <1>2, <1>3, OwnKept DEF TransferInv, Reports
<1> QED
  BY <1>3, <1>5, <1>6, <1>7, <1>8, <1>9 DEF TransferInv, Ahead, Reports

-----------------------------------------------------------------------------
\* What an invocation may send in which call.
LEMMA MaySend ==
    ASSUME NEW i \in Invocations, NEW h
    PROVE  /\ host[i].pc \in Opening /\ Stages(i) => Sends(i, h, BeginFrame(i))
           /\ Sends(i, h, FinishFrame(i)) /\ Sends(i, h, StatusFrame(i))
           /\ \A s \in Sessions : Sends(i, h, ActivateFrame(i, s))
           /\ \A s \in Sessions :
                 h.pc = "abort" /\ h.session = s => Sends(i, h, AbortFrame(i, s))
           /\ \A offset \in 0..(Bundle(i).image_size - 1) :
                 host[i].pc = "sending" => Sends(i, h, DataFrame(i, offset))
<1>1. /\ BeginFrame(i).op = "Begin" /\ FinishFrame(i).op = "Finish"
      /\ StatusFrame(i).op = "Status"
      /\ \A o : DataFrame(i, o).op = "Data"
      /\ \A s : ActivateFrame(i, s).op = "Activate"
      /\ \A s : AbortFrame(i, s).op = "Abort" /\ AbortFrame(i, s).session = s
  BY DEF BeginFrame, FinishFrame, StatusFrame, DataFrame, ActivateFrame, AbortFrame
<1>2. host[i].pc \in Opening /\ Stages(i) => Sends(i, h, BeginFrame(i))
  BY <1>1 DEF Sends, Frames, DataFrames
<1>3. Sends(i, h, FinishFrame(i)) /\ Sends(i, h, StatusFrame(i))
  BY <1>1 DEF Sends, Frames, DataFrames
<1>4. \A s \in Sessions : Sends(i, h, ActivateFrame(i, s))
  BY <1>1 DEF Sends, Frames, DataFrames
<1>5. \A s \in Sessions :
         h.pc = "abort" /\ h.session = s => Sends(i, h, AbortFrame(i, s))
  <2> SUFFICES ASSUME NEW s \in Sessions, h.pc = "abort", h.session = s
               PROVE  Sends(i, h, AbortFrame(i, s))
    OBVIOUS
  <2>1. AbortFrame(i, s) \in Frames(i)
    BY DEF Frames
  <2>2. AbortFrame(i, s) # BeginFrame(i) /\ AbortFrame(i, s) \notin DataFrames(i)
    BY <1>1 DEF DataFrames
  <2>3. \A t \in Sessions : AbortFrame(i, s) = AbortFrame(i, t) => t = s
    BY <1>1
  <2> QED
    BY <2>1, <2>2, <2>3 DEF Sends
<1>6. \A offset \in 0..(Bundle(i).image_size - 1) :
         host[i].pc = "sending" => Sends(i, h, DataFrame(i, offset))
  BY <1>1 DEF Sends, Frames, DataFrames
<1> QED
  BY <1>2, <1>3, <1>4, <1>5, <1>6

\* The socket after reading nothing, one reply, or after opening another.
LEMMA Reads ==
    ASSUME Shapes, NEW i \in Invocations
    PROVE  /\ socket[i] \in Seq(Replies) /\ Range(socket[i]) \subseteq Range(socket[i])
           /\ socket' = socket => socket' = [socket EXCEPT ![i] = socket[i]]
           /\ <<>> \in Seq(Replies) /\ Range(<<>>) \subseteq Range(socket[i])
           /\ Reopen(i) => socket' = [socket EXCEPT ![i] = <<>>]
           /\ socket[i] # <<>> =>
                 /\ Tail(socket[i]) \in Seq(Replies)
                 /\ Range(Tail(socket[i])) \subseteq Range(socket[i])
                 /\ Head(socket[i]) \in Range(socket[i]) /\ Head(socket[i]) \in Replies
                 /\ Take(i) => socket' = [socket EXCEPT ![i] = Tail(socket[i])]
<1>1. socket \in [Invocations -> Seq(Replies)] /\ socket[i] \in Seq(Replies)
  BY DEF Shapes
<1>2. socket' = socket => socket' = [socket EXCEPT ![i] = socket[i]]
  BY <1>1
<1>3. <<>> \in Seq(Replies) /\ Range(<<>>) \subseteq Range(socket[i])
  BY EmptySeq DEF Range
<1>4. socket[i] # <<>> =>
         /\ Tail(socket[i]) \in Seq(Replies)
         /\ Range(Tail(socket[i])) \subseteq Range(socket[i])
         /\ Head(socket[i]) \in Range(socket[i]) /\ Head(socket[i]) \in Replies
  BY <1>1, Removed
<1> QED
  BY <1>1, <1>2, <1>3, <1>4 DEF Take, Reopen

\* An invocation's own state, and the ways its program counter moves.
LEMMA Own ==
    ASSUME Shapes, NEW i \in Invocations
    PROVE  /\ host[i] \in HostStates
           /\ {host[i].offset, host[i].cumulative} \subseteq Known(i)
           /\ \A x \in Known(i) : x \in Nat
<1>1. host[i] \in HostStates
  BY DEF Shapes
<1>2. \A r \in Acks(i) : r.body.next_offset \in Nat
  BY AcksTyped DEF Shapes
<1> QED
  BY <1>1, <1>2 DEF Known, HostStates

LEMMA StartMoves ==
    ASSUME TransferInv, setup' = setup, NEW i \in Invocations, Start(i)
    PROVE  HostMove(i)
<1> USE DEF TransferInv
<1>1. /\ host[i].pc = "start" /\ UNCHANGED <<setup, nodeVars, logVars>> /\ socket' = socket
      /\ Shapes /\ host[i] \in HostStates
  BY Own DEF Start
<1>2. socket[i] \in Seq(Replies) /\ Range(socket[i]) \subseteq Range(socket[i])
      /\ socket' = [socket EXCEPT ![i] = socket[i]]
  BY <1>1, Reads
<1>3. Verb(i) \in {"stage", "activate", "update", "abort"}
  BY SetupTyped DEF Shapes
<1>4. ASSUME NEW p \in {"begin", "status"},
             p = "begin" => Stages(i),
             p = "status" => ~Stages(i),
             host' = [host EXCEPT ![i] = Enter(i, p)]
      PROVE  Move(i, Enter(i, p), socket[i])
  <2> DEFINE h == Enter(i, p)
  <2>1. h \in HostStates
    BY <1>1, <1>4 DEF Enter, HostStates, Waiting
  <2>2. h.pc = p /\ h.offset = host[i].offset /\ h.cumulative = host[i].cumulative
    BY <1>1 DEF Enter, HostStates
  <2>3. {h.offset, h.cumulative} \subseteq Known(i)
    BY <2>2 DEF Known
  <2>4. Course(i, h)
    BY <1>4, <2>2 DEF Course, Stages
  <2> QED
    BY <1>1, <1>2, <1>4, <2>1, <2>2, <2>3, <2>4 DEF Move, Opening, Closing, Exits
<1>5. CASE Stages(i) /\ Send(i, BeginFrame(i), Enter(i, "begin"))
  <2>1. Move(i, Enter(i, "begin"), socket[i])
    BY <1>4, <1>5 DEF Send
  <2>2. Sends(i, Enter(i, "begin"), BeginFrame(i))
    BY <1>1, <1>5, MaySend DEF Opening
  <2> QED
    BY <1>5, <2>1, <2>2 DEF Send, HostMove, Moves
<1>6. CASE ~Stages(i) /\ Send(i, StatusFrame(i), Enter(i, "status"))
  <2>1. Move(i, Enter(i, "status"), socket[i])
    BY <1>4, <1>6 DEF Send
  <2>2. Sends(i, Enter(i, "status"), StatusFrame(i))
    BY MaySend
  <2> QED
    BY <1>6, <2>1, <2>2 DEF Send, HostMove, Moves
<1> QED
  BY <1>5, <1>6 DEF Start

LEMMA SendChunkMoves ==
    ASSUME TransferInv, setup' = setup, NEW i \in Invocations, SendChunk(i)
    PROVE  HostMove(i)
<1> DEFINE o == host[i].sent_until
           h == [host[i] EXCEPT !.sent_until = @ + ChunkLen(i, @)]
<1>1. /\ host[i].pc = "sending" /\ UNCHANGED <<setup, nodeVars, logVars>> /\ socket' = socket
      /\ Shapes /\ host[i] \in HostStates /\ Course(i, host[i])
  BY Own DEF SendChunk, TransferInv, Reports
<1>2. /\ socket[i] \in Seq(Replies) /\ Range(socket[i]) \subseteq Range(socket[i])
      /\ socket' = [socket EXCEPT ![i] = socket[i]]
  BY <1>1, Reads
<1>3. Bundle(i).image_size \in Nat
  BY <1>1, SetupTyped DEF Shapes
<1>4. o \in 0..(Bundle(i).image_size - 1)
  BY <1>1, <1>3 DEF SendChunk, WindowSent, HostStates
<1>5. ChunkLen(i, o) \in 1..MaxLen
  BY <1>1, <1>4, ChunkTyped DEF Shapes
<1>6. o + ChunkLen(i, o) \in Nat
  BY <1>4, <1>5, SizesAssumption
<1>7. h \in HostStates
  BY <1>1, <1>6 DEF HostStates
<1>8. /\ h.pc = host[i].pc /\ h.offset = host[i].offset
      /\ h.cumulative = host[i].cumulative /\ h.session = host[i].session
  BY <1>1 DEF HostStates
<1>9. Move(i, h, socket[i])
  <2>1. host' = [host EXCEPT ![i] = h]
    BY DEF SendChunk, Send
  <2>2. {h.offset, h.cumulative} \subseteq Known(i)
    BY <1>8 DEF Known
  <2>3. Course(i, h)
    BY <1>1, <1>8 DEF Course
  <2> QED
    BY <1>1, <1>2, <1>7, <1>8, <2>1, <2>2, <2>3 DEF Move
<1>10. Sends(i, h, DataFrame(i, o))
  BY <1>1, <1>4, MaySend
<1>11. bus' = Append(bus, DataFrame(i, o))
  BY DEF SendChunk, Send
<1> QED
  BY <1>9, <1>10, <1>11 DEF HostMove, Moves

LEMMA AwaitWindowMoves ==
    ASSUME TransferInv, setup' = setup, NEW i \in Invocations, AwaitWindow(i)
    PROVE  HostMove(i)
<1> DEFINE h == [host[i] EXCEPT !.pc = "window", !.cumulative = host[i].offset]
<1>1. /\ host[i].pc = "sending" /\ UNCHANGED <<setup, nodeVars, logVars>> /\ socket' = socket
      /\ bus' = bus /\ Shapes /\ host[i] \in HostStates /\ Course(i, host[i])
  BY Own DEF AwaitWindow, TransferInv, Reports, busVars
<1>2. /\ socket[i] \in Seq(Replies) /\ Range(socket[i]) \subseteq Range(socket[i])
      /\ socket' = [socket EXCEPT ![i] = socket[i]]
  BY <1>1, Reads
<1>3. h \in HostStates
  BY <1>1 DEF HostStates, Waiting
<1>4. /\ h.pc = "window" /\ h.offset = host[i].offset
      /\ h.cumulative = host[i].offset /\ h.session = host[i].session
  BY <1>1 DEF HostStates
<1>5. host' = [host EXCEPT ![i] = h]
  BY <1>1 DEF AwaitWindow, Shapes
<1>6. {h.offset, h.cumulative} \subseteq Known(i)
  BY <1>4 DEF Known
<1>7. Course(i, h)
  BY <1>1, <1>4 DEF Course
<1>8. Move(i, h, socket[i])
  BY <1>1, <1>2, <1>3, <1>4, <1>5, <1>6, <1>7 DEF Move, Opening, Closing, Exits
<1> QED
  BY <1>1, <1>8 DEF HostMove, Moves

LEMMA SkipMoves ==
    ASSUME TransferInv, setup' = setup, NEW i \in Invocations,
           Skip(i) \/ LoseReply(i)
    PROVE  HostMove(i)
<1>1. /\ UNCHANGED <<setup, nodeVars, logVars>> /\ socket[i] # <<>> /\ Take(i)
      /\ bus' = bus /\ host' = host
      /\ Shapes /\ host[i] \in HostStates /\ Course(i, host[i])
  BY Own DEF Skip, LoseReply, TransferInv, Reports
<1>2. /\ Tail(socket[i]) \in Seq(Replies) /\ Range(Tail(socket[i])) \subseteq Range(socket[i])
      /\ socket' = [socket EXCEPT ![i] = Tail(socket[i])]
  BY <1>1, Reads
<1>3. host' = [host EXCEPT ![i] = host[i]]
  BY <1>1 DEF Shapes
<1>4. {host[i].offset, host[i].cumulative} \subseteq Known(i)
  BY DEF Known
<1>5. Move(i, host[i], Tail(socket[i]))
  BY <1>1, <1>2, <1>3, <1>4 DEF Move
<1> QED
  BY <1>1, <1>5 DEF HostMove, Moves

\* The moves the calls share, q being what they leave in the socket.
Rest(i, q) ==
    /\ UNCHANGED <<setup, nodeVars, logVars>>
    /\ socket' = [socket EXCEPT ![i] = q]
    /\ q \in Seq(Replies) /\ Range(q) \subseteq Range(socket[i])

LEMMA ContinueMoves ==
    ASSUME TransferInv, NEW i \in Invocations, NEW offset \in Known(i), NEW q,
           host[i].pc \in {"begin", "window"}, Continue(i, offset), Rest(i, q)
    PROVE  HostMove(i)
<1>1. /\ Shapes /\ host[i] \in HostStates /\ Course(i, host[i]) /\ offset \in Nat
      /\ host[i].cumulative \in Known(i)
  BY Own DEF TransferInv, Reports
<1>2. Stages(i)
  BY <1>1 DEF Course
<1>3. CASE /\ host' = [host EXCEPT ![i] = [Enter(i, "sending") EXCEPT
                                              !.offset = offset, !.sent_until = offset]]
           /\ bus' = bus
  <2> DEFINE h == [Enter(i, "sending") EXCEPT !.offset = offset, !.sent_until = offset]
  <2>1. /\ h \in HostStates /\ h.pc = "sending" /\ h.offset = offset
        /\ h.cumulative = host[i].cumulative
    BY <1>1 DEF Enter, HostStates, Waiting
  <2>2. {h.offset, h.cumulative} \subseteq Known(i)
    BY <1>1, <2>1
  <2>3. Course(i, h)
    BY <1>2, <2>1 DEF Course
  <2>4. Move(i, h, q)
    BY <1>3, <2>1, <2>2, <2>3 DEF Move, Rest, Opening, Closing, Exits
  <2> QED
    BY <1>3, <2>4 DEF HostMove, Moves
<1>4. CASE Send(i, FinishFrame(i), [Enter(i, "finish") EXCEPT !.offset = offset])
  <2> DEFINE h == [Enter(i, "finish") EXCEPT !.offset = offset]
  <2>1. /\ h \in HostStates /\ h.pc = "finish" /\ h.offset = offset
        /\ h.cumulative = host[i].cumulative
    BY <1>1 DEF Enter, HostStates, Waiting
  <2>2. {h.offset, h.cumulative} \subseteq Known(i)
    BY <1>1, <2>1
  <2>3. Course(i, h)
    BY <1>2, <2>1 DEF Course
  <2>4. Move(i, h, q)
    BY <1>4, <2>1, <2>2, <2>3 DEF Send, Move, Rest, Opening, Closing, Exits
  <2>5. Sends(i, h, FinishFrame(i))
    BY MaySend
  <2> QED
    BY <1>4, <2>4, <2>5 DEF Send, HostMove, Moves
<1> QED
  BY <1>3, <1>4 DEF Continue

LEMMA ExitMoves ==
    ASSUME TransferInv, NEW i \in Invocations, NEW outcome \in Exits, NEW q,
           Exit(i, outcome), Rest(i, q),
           outcome = "ok" =>
              /\ Stages(i) => Whole(i)
              /\ Activates(i) => host[i].session \in active_log /\ Whole(host[i].session)
              /\ Verb(i) = "abort" => host[i].session \in abort_log
    PROVE  HostMove(i)
<1> DEFINE h == [host[i] EXCEPT !.pc = outcome]
<1>1. Shapes /\ host[i] \in HostStates
  BY Own DEF TransferInv
<1>2. host' = [host EXCEPT ![i] = h] /\ bus' = bus
  BY <1>1 DEF Exit, Shapes
<1>3. /\ h \in HostStates /\ h.pc = outcome /\ h.offset = host[i].offset
      /\ h.cumulative = host[i].cumulative /\ h.session = host[i].session
  BY <1>1 DEF HostStates
<1>4. {h.offset, h.cumulative} \subseteq Known(i)
  BY <1>3 DEF Known
<1>5. Course(i, h)
  BY <1>3 DEF Course, Exits
<1>6. Move(i, h, q)
  BY <1>2, <1>3, <1>4, <1>5 DEF Move, Rest, Opening, Closing, Exits
<1> QED
  BY <1>2, <1>6 DEF HostMove, Moves

LEMMA EndWindowMoves ==
    ASSUME TransferInv, NEW i \in Invocations, NEW cumulative \in Known(i), NEW q,
           host[i].pc = "window", EndWindow(i, cumulative), Rest(i, q)
    PROVE  HostMove(i)
<1>1. Shapes /\ host[i] \in HostStates /\ Course(i, host[i])
  BY Own DEF TransferInv, Reports
<1>2. CASE Continue(i, cumulative)
  BY <1>2, ContinueMoves
<1>3. CASE /\ host' = [host EXCEPT ![i].pc = "sending", ![i].attempt = @ + 1,
                                   ![i].sent_until = host[i].offset]
           /\ bus' = bus
  <2> DEFINE h == [host[i] EXCEPT !.pc = "sending", !.attempt = @ + 1,
                                  !.sent_until = host[i].offset]
  <2>1. host' = [host EXCEPT ![i] = h]
    BY <1>1, <1>3 DEF Shapes
  <2>2. /\ h \in HostStates /\ h.pc = "sending" /\ h.offset = host[i].offset
        /\ h.cumulative = host[i].cumulative
    <3>1. host[i].attempt + 1 \in Nat /\ host[i].offset \in Nat
      BY <1>1 DEF HostStates
    <3>2. h \in HostStates
      BY <1>1, <3>1 DEF HostStates
    <3> QED
      BY <1>1, <3>2 DEF HostStates
  <2>3. {h.offset, h.cumulative} \subseteq Known(i)
    BY <2>2 DEF Known
  <2>4. Course(i, h)
    BY <1>1, <2>2 DEF Course
  <2>5. Move(i, h, q)
    BY <2>1, <2>2, <2>3, <2>4 DEF Move, Rest, Opening, Closing, Exits
  <2> QED
    BY <1>3, <2>5 DEF HostMove, Moves
<1>4. CASE Exit(i, "Timeout")
  BY <1>4, ExitMoves DEF Exits
<1> QED
  BY <1>2, <1>3, <1>4 DEF EndWindow

LEMMA TimeoutMoves ==
    ASSUME TransferInv, setup' = setup, NEW i \in Invocations, Timeout(i)
    PROVE  HostMove(i)
<1>1. /\ host[i].pc \in Waiting
      /\ UNCHANGED <<setup, nodeVars, logVars>> /\ socket' = socket
      /\ Shapes /\ host[i] \in HostStates /\ Course(i, host[i])
      /\ host[i].cumulative \in Known(i)
  BY Own DEF Timeout, TransferInv, Reports
<1>2. Rest(i, socket[i])
  BY <1>1, Reads DEF Rest
<1>3. CASE host[i].pc = "window" /\ EndWindow(i, host[i].cumulative)
  BY <1>1, <1>2, <1>3, EndWindowMoves
<1>4. CASE /\ host[i].pc # "window"
           /\ Send(i, Pending(i), [host[i] EXCEPT !.attempt = @ + 1])
  <2> DEFINE h == [host[i] EXCEPT !.attempt = @ + 1]
  <2>1. /\ h \in HostStates /\ h.pc = host[i].pc /\ h.offset = host[i].offset
        /\ h.cumulative = host[i].cumulative /\ h.session = host[i].session
    BY <1>1 DEF HostStates
  <2>2. {h.offset, h.cumulative} \subseteq Known(i)
    BY <2>1 DEF Known
  <2>3. Course(i, h)
    BY <1>1, <2>1 DEF Course
  <2>4. Move(i, h, socket[i])
    BY <1>2, <1>4, <2>1, <2>2, <2>3 DEF Send, Move, Rest
  <2>5. host[i].session \in Sessions
    BY <1>1 DEF HostStates
  <2>6. Sends(i, h, Pending(i))
    <3>1. CASE host[i].pc = "begin"
      <4>1. Pending(i) = BeginFrame(i)
        BY <3>1 DEF Pending
      <4>2. Stages(i)
        BY <1>1, <3>1 DEF Course
      <4> QED
        BY <3>1, <4>1, <4>2, MaySend DEF Opening
    <3>2. CASE host[i].pc = "finish"
      <4>1. Pending(i) = FinishFrame(i)
        BY <3>2 DEF Pending
      <4> QED
        BY <4>1, MaySend
    <3>3. CASE host[i].pc = "status"
      <4>1. Pending(i) = StatusFrame(i)
        BY <3>3 DEF Pending
      <4> QED
        BY <4>1, MaySend
    <3>4. CASE host[i].pc = "activate"
      <4>1. Pending(i) = ActivateFrame(i, host[i].session)
        BY <3>4 DEF Pending
      <4> QED
        BY <2>5, <4>1, MaySend
    <3>5. CASE host[i].pc = "abort"
      <4>1. Pending(i) = AbortFrame(i, host[i].session)
        BY <3>5 DEF Pending
      <4> QED
        BY <2>1, <2>5, <3>5, <4>1, MaySend
    <3> QED
      BY <1>1, <1>4, <3>1, <3>2, <3>3, <3>4, <3>5 DEF Waiting
  <2> QED
    BY <1>4, <2>4, <2>6 DEF Send, HostMove, Moves
<1>5. CASE Exit(i, "Timeout")
  BY <1>2, <1>5, ExitMoves DEF Exits
<1> QED
  BY <1>3, <1>4, <1>5 DEF Timeout

\* The reply an invocation takes is one the invariant speaks of.
LEMMA Taken ==
    ASSUME TransferInv, NEW i \in Invocations, socket[i] # <<>>,
           host[i].pc # "status", Matches(i, Head(socket[i]))
    PROVE  LET f == Head(socket[i])
               ack == f.body
           IN  /\ f.op = "Ack" /\ f \in Range(socket[i]) /\ ack \in AckBody
               /\ host[i].pc \in {"begin", "window"} => ack.next_offset \in Known(i)
<1> DEFINE f == Head(socket[i])
<1>1. f \in Range(socket[i]) /\ f \in Replies
  BY Reads DEF TransferInv
<1>2. f.op = "Ack"
  BY DEF Matches
<1>3. f.body \in AckBody
  BY <1>1, <1>2 DEF Replies
<1>4. host[i].pc \in {"begin", "window"} => f.body.session = i
  BY DEF Matches
<1>5. host[i].pc \in {"begin", "window"} => f.body.next_offset \in Known(i)
  BY <1>1, <1>2, <1>4 DEF Acks, Known
<1> QED
  BY <1>1, <1>2, <1>3, <1>5

LEMMA ReceiveAckMoves ==
    ASSUME TransferInv, UNCHANGED <<setup, nodeVars, logVars>>, NEW i \in Invocations,
           socket[i] # <<>>, host[i].pc \in Waiting, host[i].pc # "status",
           Matches(i, Head(socket[i])), ReceiveAck(i, Head(socket[i]).body)
    PROVE  HostMove(i)
<1> DEFINE f == Head(socket[i])
           ack == f.body
<1>1. /\ f.op = "Ack" /\ f \in Range(socket[i]) /\ ack \in AckBody
      /\ host[i].pc \in {"begin", "window"} => ack.next_offset \in Known(i)
  BY Taken
<1>2. /\ Shapes /\ host[i] \in HostStates /\ Course(i, host[i]) /\ Truthful(i)
      /\ {host[i].offset, host[i].cumulative} \subseteq Known(i)
  BY Own DEF TransferInv, Reports
<1>3. Take(i) => Rest(i, Tail(socket[i]))
  BY <1>2, Reads DEF Rest
<1>4. CASE Fails(i, ack) /\ Exit(i, "NodeRejected") /\ Take(i)
  BY <1>3, <1>4, ExitMoves DEF Exits
<1>5. ASSUME ~Fails(i, ack), Take(i),
             \/ host[i].pc = "begin" /\ Continue(i, ack.next_offset)
             \/ host[i].pc = "window" /\ EndWindow(i, ack.next_offset)
      PROVE  HostMove(i)
  BY <1>1, <1>3, <1>5, ContinueMoves, EndWindowMoves
<1>6. CASE /\ host[i].pc = "window" /\ Take(i)
           /\ host' = [host EXCEPT ![i].cumulative = ack.next_offset]
           /\ bus' = bus
  <2> DEFINE h == [host[i] EXCEPT !.cumulative = ack.next_offset]
  <2>1. ack.next_offset \in Nat
    BY <1>1, SizesAssumption DEF AckBody
  <2>2. host' = [host EXCEPT ![i] = h]
    BY <1>2, <1>6 DEF Shapes
  <2>3. /\ h \in HostStates /\ h.pc = "window" /\ h.offset = host[i].offset
        /\ h.cumulative = ack.next_offset
    BY <1>2, <1>6, <2>1 DEF HostStates
  <2>4. {h.offset, h.cumulative} \subseteq Known(i)
    BY <1>1, <1>2, <1>6, <2>3
  <2>5. Course(i, h)
    BY <1>2, <1>6, <2>3 DEF Course
  <2>6. Move(i, h, Tail(socket[i]))
    BY <1>3, <1>6, <2>2, <2>3, <2>4, <2>5 DEF Move, Rest, Opening, Closing, Exits
  <2> QED
    BY <1>6, <2>6 DEF HostMove, Moves
<1>7. CASE /\ ~Fails(i, ack) /\ host[i].pc = "finish" /\ Verb(i) = "stage"
           /\ Exit(i, "ok") /\ Take(i)
  <2>1. ack.session = i /\ ack.state = "Staged"
    BY <1>7 DEF Matches, Fails
  <2>2. Whole(i) /\ ~Activates(i) /\ Verb(i) # "abort"
    BY <1>1, <1>2, <1>7, <2>1 DEF Truthful, Activates
  <2> QED
    BY <1>3, <1>7, <2>2, ExitMoves DEF Exits
<1>8. CASE /\ ~Fails(i, ack) /\ host[i].pc = "activate" /\ Exit(i, "ok") /\ Take(i)
  <2>1. f.id = <<i, 2>> /\ ack.session = host[i].session /\ ack.error = "None"
    BY <1>8 DEF Matches, Fails, Refused
  <2>2. host[i].session \in active_log
    BY <1>1, <1>2, <2>1 DEF Truthful
  <2>3. /\ Activates(i) /\ Verb(i) # "abort" /\ Whole(host[i].session)
        /\ Stages(i) => Whole(i)
    BY <1>2, <1>8 DEF Course, Activates
  <2> QED
    BY <1>3, <1>8, <2>2, <2>3, ExitMoves DEF Exits
<1>9. CASE /\ ~Fails(i, ack) /\ host[i].pc = "abort" /\ Exit(i, "ok") /\ Take(i)
  <2>1. f.id = <<i, 3>> /\ ack.error = "None"
    BY <1>9 DEF Matches, Fails, Refused
  <2>2. host[i].session \in abort_log
    BY <1>1, <1>2, <2>1 DEF Truthful
  <2>3. Verb(i) = "abort" /\ ~Stages(i) /\ ~Activates(i)
    BY <1>2, <1>9 DEF Course, Stages, Activates
  <2> QED
    BY <1>3, <1>9, <2>2, <2>3, ExitMoves DEF Exits
<1>10. CASE /\ ~Fails(i, ack) /\ host[i].pc = "finish" /\ Verb(i) = "update"
            /\ Send(i, StatusFrame(i), Enter(i, "status")) /\ Reopen(i)
  <2> DEFINE h == Enter(i, "status")
  <2>1. ack.session = i /\ ack.state = "Staged"
    BY <1>10 DEF Matches, Fails
  <2>2. Whole(i)
    BY <1>1, <1>2, <2>1 DEF Truthful
  <2>3. /\ h \in HostStates /\ h.pc = "status" /\ h.offset = host[i].offset
        /\ h.cumulative = host[i].cumulative
    BY <1>2 DEF Enter, HostStates, Waiting
  <2>4. {h.offset, h.cumulative} \subseteq Known(i)
    BY <1>2, <2>3
  <2>5. Course(i, h)
    BY <1>10, <2>2, <2>3 DEF Course
  <2>6. Rest(i, <<>>)
    BY <1>2, <1>10, Reads DEF Rest
  <2>7. Move(i, h, <<>>)
    BY <1>10, <2>3, <2>4, <2>5, <2>6 DEF Send, Move, Rest, Opening, Closing, Exits
  <2>8. Sends(i, h, StatusFrame(i))
    BY MaySend
  <2> QED
    BY <1>10, <2>7, <2>8 DEF Send, HostMove, Moves
<1> QED
  BY <1>4, <1>5, <1>6, <1>7, <1>8, <1>9, <1>10 DEF ReceiveAck

LEMMA ReceiveStatusMoves ==
    ASSUME TransferInv, UNCHANGED <<setup, nodeVars, logVars>>, NEW i \in Invocations,
           socket[i] # <<>>, host[i].pc = "status",
           Matches(i, Head(socket[i])), ReceiveStatus(i, Head(socket[i]).body)
    PROVE  HostMove(i)
<1> DEFINE f == Head(socket[i])
           status == f.body
<1>1. /\ Shapes /\ host[i] \in HostStates /\ Course(i, host[i]) /\ Informed(i)
      /\ {host[i].offset, host[i].cumulative} \subseteq Known(i)
  BY Own DEF TransferInv, Reports
<1>2. status.session \in Sessions /\ (status.state = "Staged" => Whole(status.session))
  <2>1. f \in Replies
    BY <1>1, Reads
  <2>2. f.op = "Status"
    BY DEF Matches
  <2>3. status \in StatusBody
    BY <2>1, <2>2 DEF Replies
  <2>4. f \in Range(socket[i])
    BY <1>1, Reads
  <2> QED
    BY <1>1, <2>2, <2>3, <2>4 DEF StatusBody, Informed
<1>3. Take(i) => Rest(i, Tail(socket[i]))
  BY <1>1, Reads DEF Rest
<1>4. Reopen(i) => Rest(i, <<>>)
  BY <1>1, Reads DEF Rest
<1>5. ASSUME Take(i), NEW outcome \in {"NodeRejected", "InterruptionRequired"},
             Exit(i, outcome)
      PROVE  HostMove(i)
  BY <1>3, <1>5, ExitMoves DEF Exits
<1>6. ASSUME NEW p \in {"activate", "abort"}, Reopen(i),
             host' = [host EXCEPT ![i] = [Enter(i, p) EXCEPT !.session = status.session]],
             p = "abort" <=> Verb(i) = "abort",
             p = "activate" => status.state = "Staged"
      PROVE  /\ Move(i, [Enter(i, p) EXCEPT !.session = status.session], <<>>)
             /\ [Enter(i, p) EXCEPT !.session = status.session].pc = p
             /\ [Enter(i, p) EXCEPT !.session = status.session].session = status.session
  <2> DEFINE h == [Enter(i, p) EXCEPT !.session = status.session]
  <2>1. /\ h \in HostStates /\ h.pc = p /\ h.offset = host[i].offset
        /\ h.cumulative = host[i].cumulative /\ h.session = status.session
    BY <1>1, <1>2 DEF Enter, HostStates, Waiting
  <2>2. {h.offset, h.cumulative} \subseteq Known(i)
    BY <1>1, <2>1
  <2>3. Verb(i) \in {"stage", "activate", "update", "abort"}
    BY <1>1, SetupTyped DEF Shapes
  <2>4. Verb(i) # "stage" /\ (p = "activate" => Activates(i) /\ Whole(h.session))
    BY <1>1, <1>2, <1>6, <2>1, <2>3 DEF Course, Activates
  <2>5. Course(i, h)
    BY <1>1, <1>6, <2>1, <2>4 DEF Course, Stages
  <2>6. Move(i, h, <<>>)
    BY <1>4, <1>6, <2>1, <2>2, <2>5 DEF Move, Rest, Opening, Closing, Exits
  <2> QED
    BY <2>1, <2>6
<1>7. CASE /\ Verb(i) # "abort" /\ status.state = "Staged" /\ Reopen(i)
           /\ Send(i, ActivateFrame(i, status.session),
                   [Enter(i, "activate") EXCEPT !.session = status.session])
  <2>1. Move(i, [Enter(i, "activate") EXCEPT !.session = status.session], <<>>)
    BY <1>6, <1>7 DEF Send
  <2>2. Sends(i, [Enter(i, "activate") EXCEPT !.session = status.session],
              ActivateFrame(i, status.session))
    BY <1>2, MaySend
  <2> QED
    BY <1>7, <2>1, <2>2 DEF Send, HostMove, Moves
<1>8. CASE /\ Verb(i) = "abort" /\ Reopen(i)
           /\ Send(i, AbortFrame(i, status.session),
                   [Enter(i, "abort") EXCEPT !.session = status.session])
  <2> DEFINE h == [Enter(i, "abort") EXCEPT !.session = status.session]
  <2>1. Move(i, h, <<>>) /\ h.pc = "abort" /\ h.session = status.session
    BY <1>6, <1>8 DEF Send
  <2>2. Sends(i, h, AbortFrame(i, status.session))
    BY <1>2, <2>1, MaySend
  <2> QED
    BY <1>8, <2>1, <2>2 DEF Send, HostMove, Moves
<1> QED
  BY <1>5, <1>7, <1>8 DEF ReceiveStatus

LEMMA ReceiveMoves ==
    ASSUME TransferInv, setup' = setup, NEW i \in Invocations, Receive(i)
    PROVE  HostMove(i)
BY ReceiveAckMoves, ReceiveStatusMoves DEF Receive

LEMMA IoErrorMoves ==
    ASSUME TransferInv, setup' = setup, NEW i \in Invocations, IoError(i)
    PROVE  HostMove(i)
<1>1. /\ Exit(i, "Transport") /\ socket' = socket
      /\ UNCHANGED <<setup, nodeVars, logVars>> /\ Shapes
  BY DEF IoError, TransferInv
<1>2. Rest(i, socket[i])
  BY <1>1, Reads DEF Rest
<1> QED
  BY <1>1, <1>2, ExitMoves DEF Exits

-----------------------------------------------------------------------------
LEMMA TransferInductive == TransferInv /\ [TransferNext]_allVars => TransferInv'
<1> SUFFICES ASSUME TransferInv, [TransferNext]_allVars PROVE TransferInv'
  OBVIOUS
<1>1. CASE NodeReceives /\ setup' = setup
  BY <1>1, NodeReceivesInductive
<1>2. ASSUME NEW i \in Invocations, HostStep(i) \/ IoError(i) \/ LoseReply(i), setup' = setup
      PROVE  TransferInv'
  <2>1. HostMove(i)
    BY <1>2, StartMoves, SendChunkMoves, AwaitWindowMoves, TimeoutMoves, SkipMoves,
       ReceiveMoves, IoErrorMoves DEF HostStep
  <2> QED
    BY <2>1, MoveInductive
<1>3. CASE LoseRequest /\ setup' = setup
  BY <1>3, LoseRequestInductive
<1>4. CASE UNCHANGED allVars
  <2>1. /\ UNCHANGED <<setup, bus, socket, host, staged_log, active_log, abort_log>>
        /\ UNCHANGED <<session, state, manifest, next_offset>>
        /\ UNCHANGED nodeVars
    BY <1>4 DEF allVars, busVars, logVars, nodeVars, vars
  <2>2. NodeInv'
    BY <2>1, NodeInductive DEF TransferInv
  <2>3. /\ Invocations' = Invocations /\ Sendable' = Sendable /\ Replies' = Replies
        /\ \A j : Stages(j)' = Stages(j) /\ Bundle(j)' = Bundle(j)
    BY <2>1, SetupFixed
  <2>4. Shapes'
    BY <2>1, <2>3 DEF TransferInv, Shapes, HostStates
  <2>5. ASSUME NEW i \in Invocations
        PROVE  /\ Fresh(i)' /\ DataLast(i)' /\ NeverAhead(i)'
               /\ Truthful(i)' /\ Informed(i)' /\ Aborting(i)' /\ Course(i, host[i])'
    <3>1. /\ Fresh(i) /\ DataLast(i) /\ NeverAhead(i)
          /\ Truthful(i) /\ Informed(i) /\ Aborting(i) /\ Course(i, host[i])
      BY DEF TransferInv, Ahead, Reports
    <3>2. /\ Verb(i)' = Verb(i) /\ Stages(i)' = Stages(i) /\ Activates(i)' = Activates(i)
          /\ BeginFrame(i)' = BeginFrame(i) /\ DataFrames(i)' = DataFrames(i)
          /\ \A s : AbortFrame(i, s)' = AbortFrame(i, s) /\ Whole(s)' = Whole(s)
      BY <2>1, SetupFixed DEF Whole
    <3>3. Acks(i)' = Acks(i)
      BY <2>1 DEF Acks
    <3>4. Fresh(i)' /\ DataLast(i)' /\ NeverAhead(i)'
      BY <2>1, <3>1, <3>2, <3>3 DEF Fresh, MayBegin, DataLast, NeverAhead
    <3>5. Truthful(i)' /\ Informed(i)' /\ Aborting(i)'
      BY <2>1, <3>1, <3>2 DEF Truthful, Informed, Aborting
    <3>6. Course(i, host[i])'
      BY <2>1, <3>1, <3>2 DEF Course
    <3> QED
      BY <3>4, <3>5, <3>6
  <2>6. OwnManifest' /\ OwnImages'
    BY <2>1, <2>3, OwnKept DEF TransferInv, Reports
  <2> QED
    BY <2>2, <2>3, <2>4, <2>5, <2>6 DEF TransferInv, Ahead, Reports
<1> QED
  BY <1>1, <1>2, <1>3, <1>4 DEF TransferNext

LEMMA TransferInitial == TransferInit => TransferInv
<1> SUFFICES ASSUME TransferInit PROVE TransferInv
  OBVIOUS
<1>1. NodeInv
  BY NodeInitial DEF TransferInit
<1>2. /\ setup \in Setups /\ bus = <<>> /\ bus \in Seq(Sendable) /\ Range(bus) = {}
      /\ Len(bus) = 0
  BY EmptySeq DEF TransferInit, Range
<1>3. ASSUME NEW i \in Invocations
      PROVE  /\ socket[i] = <<>> /\ socket[i] \in Seq(Replies) /\ Range(socket[i]) = {}
             /\ host[i].pc = "start" /\ host[i].offset = 0 /\ host[i].cumulative = 0
             /\ host[i] \in HostStates
  BY EmptySeq, SessionsAssumption DEF TransferInit, Range, HostStates
<1>4. Shapes
  BY <1>2, <1>3 DEF TransferInit, Shapes
<1>5. /\ session = 0 /\ state = "Idle" /\ staged_log = {}
  BY DEF TransferInit, NodeInit, Init
<1>6. ASSUME NEW i \in Invocations
      PROVE  /\ Fresh(i) /\ DataLast(i) /\ NeverAhead(i)
             /\ Truthful(i) /\ Informed(i) /\ Aborting(i) /\ Course(i, host[i])
  <2>1. i # 0
    BY <1>2, SetupTyped
  <2>2. Acks(i) = {}
    BY <1>3 DEF Acks
  <2>3. Fresh(i) /\ NeverAhead(i)
    BY <1>3, <1>5, <2>1, <2>2 DEF Fresh, NeverAhead
  <2>4. DataLast(i)
    BY <1>2 DEF DataLast
  <2>5. Truthful(i) /\ Informed(i) /\ Aborting(i)
    BY <1>2, <1>3 DEF Truthful, Informed, Aborting
  <2>6. Course(i, host[i])
    BY <1>3 DEF Course
  <2> QED
    BY <2>3, <2>4, <2>5, <2>6
<1>7. OwnManifest /\ OwnImages
  BY <1>5 DEF OwnManifest, OwnImages, Whole, InProgress
<1> QED
  BY <1>1, <1>4, <1>6, <1>7 DEF TransferInv, Ahead, Reports

LEMMA TransferInvariant == TransferSpec => []TransferInv
<1> QED
  BY TransferInitial, TransferInductive, PTL DEF TransferSpec

-----------------------------------------------------------------------------

\* The host never counts a byte as delivered that the node serving its session
\* has not stored, however many processes there are and whatever is lost,
\* delayed or sent again.
THEOREM HostIsNeverAhead == TransferSpec => []HostNeverAhead
<1>1. TransferInv => HostNeverAhead
  BY DEF TransferInv, Ahead, NeverAhead, HostNeverAhead
<1> QED
  BY <1>1, TransferInvariant, PTL

\* A process that exits with success did what it says, and what it activated
\* was staged whole: by itself, unless another process stages.
THEOREM SuccessIsReal == TransferSpec => []ReportsAreTrue
<1>1. TransferInv => ReportsAreTrue
  <2> SUFFICES ASSUME TransferInv, NEW i \in Invocations, host[i].pc = "ok"
               PROVE  LET s == host[i].session IN
                      /\ Stages(i) => <<i, Bundle(i)>> \in staged_log
                      /\ Activates(i) => s \in active_log /\ <<s, Bundle(s)>> \in staged_log
                      /\ Verb(i) = "update" /\ (\A j \in Invocations \ {i} : ~Stages(j)) =>
                            s = i
                      /\ Verb(i) = "abort" => s \in abort_log
    BY DEF ReportsAreTrue
  <2>1. Course(i, host[i]) /\ OwnImages
    BY DEF TransferInv, Reports
  <2>2. Activates(i) => Whole(host[i].session)
    BY <2>1 DEF Course
  <2>3. Activates(i) => host[i].session \in Invocations /\ Stages(host[i].session)
    BY <2>1, <2>2 DEF OwnImages
  <2>4. Verb(i) = "update" => Activates(i)
    BY DEF Activates
  <2> QED
    BY <2>1, <2>2, <2>3, <2>4 DEF Course, Whole
<1> QED
  BY <1>1, TransferInvariant, PTL

\* Whatever the processes and the bus do, the node only takes the steps of
\* UpdateNode: each of its theorems holds of the composed system ...
THEOREM NodeUnderTransfer == TransferSpec => NodeSpec
<1>1. TransferInit => NodeInit
  BY DEF TransferInit
<1>2. TransferInv /\ [TransferNext]_allVars => [NodeNext]_nodeVars
  <2> SUFFICES ASSUME TransferInv, [TransferNext]_allVars
               PROVE  NodeNext \/ UNCHANGED nodeVars
    OBVIOUS
  <2>1. CASE NodeReceives
    <3>1. setup \in Setups /\ Head(bus) \in Sendable
      BY <2>1, Removed DEF NodeReceives, TransferInv, Shapes
    <3> QED
      BY <2>1, <3>1, HandledByNode DEF NodeReceives
  <2>2. ASSUME NEW i \in Invocations, HostStep(i) \/ IoError(i) \/ LoseReply(i)
        PROVE  UNCHANGED nodeVars
    BY <2>2 DEF HostStep, IoError, LoseReply, Start, SendChunk, AwaitWindow, Timeout, Skip, Receive
  <2>3. CASE LoseRequest
    BY <2>3 DEF LoseRequest
  <2>4. CASE UNCHANGED allVars
    BY <2>4 DEF allVars
  <2> QED
    BY <2>1, <2>2, <2>3, <2>4 DEF TransferNext
<1> QED
  BY <1>1, <1>2, TransferInvariant, PTL DEF TransferSpec, NodeSpec

\* ... and with them the promise of AbstractUpdate: what the node runs is a
\* bundle that was staged whole and activated.
THEOREM TransferRefinement == TransferSpec => ImplementsAbstract
BY NodeUnderTransfer, Refinement, PTL
=============================================================================
