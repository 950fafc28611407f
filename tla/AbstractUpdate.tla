--------------------------- MODULE AbstractUpdate ---------------------------
(***************************************************************************)
(* What a node promises the operator about its firmware, with no chunks,   *)
(* offsets, sessions or errors: either nothing is staged or one whole      *)
(* image is, and the running version only ever becomes that of the image   *)
(* staged at that moment.                                                  *)
(***************************************************************************)

CONSTANTS
    Runnable,   \* the manifests of images the node can run
    Factory     \* the version it leaves the factory with

VARIABLES
    staged,     \* the set of staged images: none or one
    running     \* the version of the running image

vars == <<staged, running>>

\* A staged image: its manifest, and the bytes the manifest is the digest of.
Whole(m) == [manifest |-> m, image |-> m.digest]

Init ==
    /\ staged = {}
    /\ running = Factory

Stage ==
    /\ staged = {}
    /\ \E m \in Runnable : staged' = {Whole(m)}
    /\ UNCHANGED running

Discard ==
    /\ staged # {}
    /\ staged' = {}
    /\ UNCHANGED running

Activate ==
    /\ \E b \in staged : running' = b.manifest.version
    /\ staged' = {}

Next == Stage \/ Discard \/ Activate

Spec == Init /\ [][Next]_vars
=============================================================================
