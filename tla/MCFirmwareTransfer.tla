------------------------- MODULE MCFirmwareTransfer -------------------------
(* One node and up to three pdcan processes; an image is a few chunks.      *)
EXTENDS FirmwareTransfer, TLC

CONSTANTS self, v0, v1, v2, zero, a, b

Img(n, byte) == [i \in 0..(n - 1) |-> byte]

(* Three chunks, the last one short, and two.                              *)
BundleA == [target |-> self, version |-> v1, image_size |-> 5, digest |-> Img(5, a)]
BundleB == [target |-> self, version |-> v2, image_size |-> 3, digest |-> Img(3, b)]

MCManifests == {BundleA, BundleB}
MCSessions == 0..4

(* Process 1 works with bundle A, the others with B; process 3 does not pass
   --allow-interruption.                                                   *)
Commands(verbs) ==
    [i \in DOMAIN verbs |->
        [verb |-> verbs[i], bundle |-> IF i = 1 THEN BundleA ELSE BundleB, allow |-> i # 3]]

AllFrames == {"Begin", "Data", "Finish", "Status", "Activate", "Abort", "Ack", "DataAck"}

(* An update and an abort race while every answer may come too late.       *)
Delays ==
    [commands |-> Commands(<<"update", "abort">>), retries |-> 1, window |-> 1,
     lossable |-> {}, max_losses |-> 0, losses_run_out |-> TRUE, patient |-> FALSE,
     io_fails |-> FALSE]

(* Any one frame is lost while several processes work on the node.         *)
OneLost(verbs) ==
    [commands |-> Commands(verbs), retries |-> 1, window |-> 2,
     lossable |-> AllFrames, max_losses |-> 1, losses_run_out |-> TRUE, patient |-> TRUE,
     io_fails |-> FALSE]

Contention == OneLost(<<"stage", "activate", "abort">>)
Interruption == OneLost(<<"stage", "abort", "activate">>)

(* The bus may lose every frame for ever.                                  *)
Endless ==
    [commands |-> Commands(<<"update", "abort">>), retries |-> 1, window |-> 2,
     lossable |-> AllFrames, max_losses |-> 1, losses_run_out |-> FALSE, patient |-> TRUE,
     io_fails |-> FALSE]

(* The interface of the host may fail in the middle of any command.        *)
Failing ==
    [commands |-> Commands(<<"update", "abort">>), retries |-> 0, window |-> 2,
     lossable |-> {}, max_losses |-> 0, losses_run_out |-> TRUE, patient |-> TRUE,
     io_fails |-> TRUE]

(* Losses that the retries make up for.                                    *)
Recovers ==
    [commands |-> Commands(<<"update">>), retries |-> 2, window |-> 2,
     lossable |-> {"DataAck", "Status"}, max_losses |-> 2, losses_run_out |-> TRUE,
     patient |-> TRUE, io_fails |-> FALSE]

(* One frame of the transfer proper is lost.                               *)
OneLoss ==
    [commands |-> Commands(<<"update">>), retries |-> 1, window |-> 2,
     lossable |-> {"Data", "Ack"}, max_losses |-> 1, losses_run_out |-> TRUE,
     patient |-> TRUE, io_fails |-> FALSE]

(* An update beside an abort and another process that stages.              *)
Swap ==
    [commands |-> Commands(<<"update", "abort", "stage">>), retries |-> 0, window |-> 3,
     lossable |-> {}, max_losses |-> 0, losses_run_out |-> TRUE, patient |-> TRUE,
     io_fails |-> FALSE]

AllSetups == {Delays, Contention, Interruption, Endless, Failing, Recovers, Swap}
LossSetups == {OneLoss}
SwapSetups == {Swap}
=============================================================================
