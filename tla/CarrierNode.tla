----------------------------- MODULE CarrierNode -----------------------------
(***************************************************************************)
(* CarrierController with a caller that carries out the actions it         *)
(* returns: the output, the settings in flash, and power loss between any  *)
(* two steps.                                                              *)
(*                                                                         *)
(* The embedded application (firmware/carrier/src/main.rs) is a scaffold   *)
(* that only drives the output low, so the caller here is external.  It is *)
(* a weak one: it accepts commands while settings are still being written, *)
(* writes them in the order they were returned and may fail to, calls      *)
(* policy_persisted whenever the settings of a set_policy are in flash, an *)
(* emergency in between or not, and drives the pin some time later.  It    *)
(* keeps one rule, which finding F-01 of findings.md asks for: at an       *)
(* emergency the pin is driven low at once and an actuation that was       *)
(* pending is forgotten.                                                   *)
(***************************************************************************)
EXTENDS CarrierController, Sequences

CONSTANTS
    Factory,       \* the settings a carrier leaves the factory with
    PendingWrites  \* bound: commands are accepted while fewer writes are pending

ASSUME FactoryAssumption ==
    /\ Factory \in CarrierSettings
    /\ Valid(Factory.policy) /\ ~Factory.policy.enabled
    /\ ~Factory.emergency_latched

VARIABLES
    output,      \* the PD_ENABLE pin
    flash,       \* the persisted settings
    writes,      \* the settings still to be written, oldest first
    drive,       \* the actuation of the pin that is pending, none or one
    failed,      \* the last write that was tried failed
    booting,     \* the startup delay has not been acted on yet
    durable,     \* history: the last emergency is in flash
    authorized   \* history: an enable was accepted since the last emergency, or
                 \* that emergency was forgotten in a power failure

history == <<durable, authorized>>
runtimeVars == <<output, flash, writes, drive, failed, booting, history>>
nodeVars == <<vars, runtimeVars>>

Now == Settings(policy, emergency_latched)

\* Settings to write, and what they are written for.
Write(settings, then) == [settings |-> settings, then |-> then]

\* What a returned action leaves pending: settings to write, a pin to drive.
\* A newer actuation replaces one that has not been carried out.
Queued(r, then) ==
    IF r.is = "PersistSettings" THEN Append(writes, Write(r.settings, then)) ELSE writes

Pending(r) == IF r.is = "DriveOutput" THEN {r.on} ELSE drive

NodeInit ==
    /\ New(Factory)
    /\ output = FALSE
    /\ flash = Factory
    /\ writes = <<>>
    /\ drive = {}
    /\ failed = FALSE
    /\ booting = TRUE
    /\ durable = TRUE
    /\ authorized = FALSE

-----------------------------------------------------------------------------

\* Health inputs are sampled at any time.
Housekeeping(good) ==
    /\ \E r \in Result : set_housekeeping_good(good, r)
    /\ UNCHANGED runtimeVars

PowerGood(good) ==
    /\ \E r \in Result : observe_output_power_good(good, r)
    /\ UNCHANGED runtimeVars

\* carrier_startup_delay_ms after the start, tried again until it is accepted;
\* commands and emergencies may have come before.
Startup ==
    /\ booting
    /\ \E r \in Result :
          /\ restore_after_startup_delay(r)
          /\ drive' = Pending(r)
          /\ booting' = (r.is = "Err")
    /\ UNCHANGED <<output, flash, writes, failed, history>>

Command(p) ==
    /\ Len(writes) < PendingWrites
    /\ \E r \in Result :
          /\ set_policy(p, r)
          /\ writes' = Queued(r, "policy_persisted")
          /\ authorized' = (authorized \/ (p.enabled /\ r.is # "Err"))
    /\ UNCHANGED <<output, flash, drive, failed, booting, durable>>

Acknowledge ==
    /\ Len(writes) < PendingWrites
    /\ \E r \in Result :
          /\ acknowledge_emergency(r)
          /\ writes' = Queued(r, "acknowledged")
    /\ UNCHANGED <<output, flash, drive, failed, booting, history>>

\* DriveOutputThenPersistEmergency: output off at once, then the settings; one
\* more write may be pending than a command is accepted with.
Emergency ==
    /\ Len(writes) <= PendingWrites
    /\ \E r \in Result : emergency_disable(r)
    /\ output' = FALSE
    /\ drive' = {}
    /\ writes' = Append(writes, Write(Now', "emergency"))
    /\ durable' = FALSE
    /\ authorized' = FALSE
    /\ UNCHANGED <<flash, failed, booting>>

DriveStep ==
    /\ \E on \in drive : output' = on
    /\ drive' = {}
    /\ UNCHANGED <<vars, flash, writes, failed, booting, history>>

\* The emergency's action carries no settings: the caller reads them when it
\* gets the action or when it writes.
Written(w) == {w.settings} \cup IF w.then = "emergency" THEN {Now} ELSE {}

EmergencyPending(q) == \E i \in 1..Len(q) : q[i].then = "emergency"

WriteDone ==
    /\ writes # <<>>
    /\ flash' \in Written(Head(writes))
    /\ writes' = Tail(writes)
    /\ failed' = FALSE
    /\ \/ /\ Head(writes).then = "policy_persisted"
          /\ \E r \in Result : policy_persisted(r) /\ drive' = Pending(r)
       \/ /\ Head(writes).then # "policy_persisted"
          /\ UNCHANGED drive
    /\ durable' = \/ durable
                  \/ Head(writes).then = "emergency" /\ ~EmergencyPending(Tail(writes))
    /\ UNCHANGED <<vars, output, booting, authorized>>

\* A write that fails leaves flash as it was; what waited for it is not done.
WriteFails ==
    /\ writes # <<>>
    /\ writes' = Tail(writes)
    /\ failed' = TRUE
    /\ UNCHANGED <<vars, output, flash, drive, booting, history>>

\* Power loss or reset at any moment: PD_ENABLE is driven low before anything
\* else, and the controller starts from what is in flash.
Restart ==
    /\ policy' = flash.policy
    /\ emergency_latched' = flash.emergency_latched
    /\ service' = "Starting"
    /\ faults' = IF flash.emergency_latched THEN {"EMERGENCY_LATCHED"} ELSE {}
    /\ housekeeping_good' = FALSE
    /\ output_power_good' = FALSE
    /\ output' = FALSE
    /\ writes' = <<>>
    /\ drive' = {}
    /\ failed' = FALSE
    /\ booting' = TRUE
    /\ durable' = TRUE
    /\ authorized' = (authorized \/ ~durable)
    /\ UNCHANGED flash

NodeNext ==
    \/ \E good \in BOOLEAN : Housekeeping(good)
    \/ \E good \in BOOLEAN : PowerGood(good)
    \/ Startup
    \/ \E p \in Policies : Command(p)
    \/ Acknowledge
    \/ Emergency
    \/ DriveStep
    \/ WriteDone
    \/ WriteFails
    \/ Restart

NodeSpec == NodeInit /\ [][NodeNext]_nodeVars

-----------------------------------------------------------------------------

\* What is in flash is always something the constructor accepts: no accepted command
\* keeps the carrier from coming up after its next power failure.
RestartsAccepted == Valid(flash.policy)

\* With the emergency latched the output is off, although settings of older
\* commands are still written after it and policy_persisted is called for them.
LatchedMeansOff == emergency_latched => ~output

\* The last settings to be written are those in memory, and when none are left
\* to write flash holds them, unless that last write failed: no order of
\* commands, acknowledgements and emergencies leaves an older record behind.
FlashFollows ==
    /\ writes # <<>> => writes[Len(writes)].settings = Now
    /\ writes = <<>> /\ ~failed => flash = Now

\* No write that was pending, no restart, restore or acknowledgement switches
\* the output back on: after an emergency it takes a newly accepted enable, or
\* a power failure before the emergency was in flash.
OutputAuthorized == output => authorized
=============================================================================
