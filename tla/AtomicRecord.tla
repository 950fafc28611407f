---------------------------- MODULE AtomicRecord ----------------------------
(***************************************************************************)
(* What a persisted configuration record promises: a write takes effect at *)
(* once or, if the power fails, perhaps not at all.  The record is never   *)
(* anything but the last value written or the one being written.           *)
(***************************************************************************)
CONSTANTS Values, None

VARIABLES
    record,         \* what a boot reads
    writing,        \* the value being written
    acknowledged    \* the last value whose write returned

Init == record = None /\ writing = None /\ acknowledged = None

Begin(v) == writing = None /\ writing' = v /\ UNCHANGED <<record, acknowledged>>

TakeEffect == writing # None /\ record' = writing /\ UNCHANGED <<writing, acknowledged>>

\* A write returns when it has taken effect.
Return ==
    /\ writing # None
    /\ record = writing
    /\ acknowledged' = writing
    /\ writing' = None
    /\ UNCHANGED record

\* The interrupted write may have taken effect.
PowerFails ==
    /\ writing # None
    /\ writing' = None
    /\ record' \in {record, writing}
    /\ UNCHANGED acknowledged

Next == (\E v \in Values : Begin(v)) \/ TakeEffect \/ Return \/ PowerFails

Spec == Init /\ [][Next]_<<record, writing, acknowledged>>
=============================================================================
