---------------------------- MODULE BackplaneNode ----------------------------
(***************************************************************************)
(* BackplaneController of firmware/crates/pdcan-core/src/lib.rs, with a    *)
(* caller that carries out the actions it returns: the duties of the fans, *)
(* the settings in flash, and power loss between any two steps.            *)
(*                                                                         *)
(* The embedded application (firmware/backplane/src/main.rs) is a scaffold *)
(* that only drives both fans to the safe duty, so the caller is external  *)
(* and is the one CarrierNode describes: it accepts commands while writes  *)
(* are pending, may fail to write, calls fan_settings_persisted whenever   *)
(* the settings of a set_fan are in flash, and drives the fan later; an    *)
(* emergency drives both fans at once and forgets only actuations that     *)
(* were pending.  Faults other than the emergency never change here.       *)
(***************************************************************************)
EXTENDS Naturals, Sequences

CONSTANTS
    FanIds,         \* 0 and 1 in the source
    Duties,         \* the duties a command may ask for, above 100% too
    SAFE_DEFAULT,   \* 100%
    PendingWrites   \* bound: commands are accepted while fewer writes are pending

ASSUME BackplaneAssumption ==
    /\ Duties \subseteq Nat
    /\ SAFE_DEFAULT \in Duties
    /\ SAFE_DEFAULT = 100

VARIABLES
    fans, emergency_latched,    \* BackplaneSettings
    faults,                     \* FaultFlags
    duty,                       \* the PWM duty of each fan
    flash,                      \* the persisted settings
    writes,                     \* the settings still to be written, oldest first
    drive,                      \* the actuations that are pending, one for a fan
    failed,                     \* the last write that was tried failed
    asked                       \* history: the duties set_fan accepted for each fan
                                \* since the last emergency or restart

controller == <<fans, emergency_latched, faults>>
vars == <<controller, duty, flash, writes, drive, failed, asked>>

ValidDuty(d) == d <= 100

Settings(f, latched) == [fans |-> f, emergency_latched |-> latched]

Now == Settings(fans, emergency_latched)

AllFansSafe == [f \in FanIds |-> SAFE_DEFAULT]

NothingAsked == [f \in FanIds |-> {}]

\* BackplaneController::new, whose settings have to be valid.
New(settings) ==
    /\ \A f \in FanIds : ValidDuty(settings.fans[f])
    /\ fans = settings.fans
    /\ emergency_latched = settings.emergency_latched
    /\ faults = IF settings.emergency_latched THEN {"EMERGENCY_LATCHED"} ELSE {}

Init ==
    /\ New(Settings(AllFansSafe, FALSE))
    /\ duty = AllFansSafe
    /\ flash = Settings(AllFansSafe, FALSE)
    /\ writes = <<>>
    /\ drive = {}
    /\ failed = FALSE
    /\ asked = NothingAsked

-----------------------------------------------------------------------------
\* The controller, and what the actions it returns leave pending.

\* Settings to write, and the fans that fan_settings_persisted is then called for.
Write(settings, then) == [settings |-> settings, then |-> then, emergency |-> FALSE]

WriteEmergency(settings) == [settings |-> settings, then |-> {}, emergency |-> TRUE]

Acceptable(d) == ValidDuty(d)

\* Mutant: the settings to persist are read before the duty is changed.
SetFan_ReadsFirst(fan, d) ==
    /\ Len(writes) < PendingWrites
    /\ Acceptable(d)
    /\ fans' = [fans EXCEPT ![fan] = d]
    /\ writes' = Append(writes, Write(Now, {fan}))
    /\ asked' = [asked EXCEPT ![fan] = @ \cup {d}]
    /\ UNCHANGED <<emergency_latched, faults, duty, flash, drive, failed>>

\* set_fan, which does not look at the emergency latch.
SetFan(fan, d) ==
    /\ Len(writes) < PendingWrites
    /\ Acceptable(d)
    /\ fans' = [fans EXCEPT ![fan] = d]
    /\ writes' = Append(writes, Write(Settings(fans', emergency_latched), {fan}))
    /\ asked' = [asked EXCEPT ![fan] = @ \cup {d}]
    /\ UNCHANGED <<emergency_latched, faults, duty, flash, drive, failed>>

\* A refused set_fan changes nothing.
RefuseFan(d) ==
    /\ ~ Acceptable(d)
    /\ UNCHANGED vars

AcknowledgeEmergency ==
    /\ Len(writes) < PendingWrites
    /\ emergency_latched
    /\ emergency_latched' = FALSE
    /\ faults' = faults \ {"EMERGENCY_LATCHED"}
    /\ writes' = Append(writes, Write(Settings(fans, FALSE), {}))
    /\ UNCHANGED <<fans, duty, flash, drive, failed, asked>>

\* Mutant: the emergency leaves the fan settings as they are.
EmergencyDisable_KeepsFans ==
    /\ Len(writes) <= PendingWrites
    /\ emergency_latched' = TRUE
    /\ faults' = faults \cup {"EMERGENCY_LATCHED"}
    /\ duty' = AllFansSafe
    /\ drive' = {}
    /\ writes' = Append(writes, WriteEmergency(Settings(fans, TRUE)))
    /\ asked' = NothingAsked
    /\ UNCHANGED <<fans, flash, failed>>

\* emergency_disable; DriveAllFansSafeThenPersistEmergency.  One more write may
\* be pending than a command is accepted with.
EmergencyDisable ==
    /\ Len(writes) <= PendingWrites
    /\ emergency_latched' = TRUE
    /\ fans' = AllFansSafe
    /\ faults' = faults \cup {"EMERGENCY_LATCHED"}
    /\ duty' = AllFansSafe
    /\ drive' = {}
    /\ writes' = Append(writes, WriteEmergency(Settings(fans', TRUE)))
    /\ asked' = NothingAsked
    /\ UNCHANGED <<flash, failed>>

-----------------------------------------------------------------------------
\* The caller.

DriveStep == \E a \in drive :
    /\ duty' = [duty EXCEPT ![a.fan] = a.duty]
    /\ drive' = drive \ {a}
    /\ UNCHANGED <<controller, flash, writes, failed, asked>>

\* The emergency's action carries no settings: the caller reads them when it
\* gets the action or when it writes.
Written(w) == {w.settings} \cup IF w.emergency THEN {Now} ELSE {}

\* What fan_settings_persisted asks for: the fan is to be driven as the settings
\* say at this moment.
fan_settings_persisted(fan) == [fan |-> fan, duty |-> fans[fan]]

WriteDone ==
    /\ writes # <<>>
    /\ flash' \in Written(Head(writes))
    /\ writes' = Tail(writes)
    /\ failed' = FALSE
    /\ drive' = {a \in drive : a.fan \notin Head(writes).then}
                \cup {fan_settings_persisted(f) : f \in Head(writes).then}
    /\ UNCHANGED <<controller, duty, asked>>

\* A write that fails leaves flash as it was; what waited for it is not done.
WriteFails ==
    /\ writes # <<>>
    /\ writes' = Tail(writes)
    /\ failed' = TRUE
    /\ UNCHANGED <<controller, duty, flash, drive, asked>>

\* Power loss or reset at any moment: both fans start at the safe duty.
Restart ==
    /\ \A f \in FanIds : ValidDuty(flash.fans[f])
    /\ fans' = flash.fans
    /\ emergency_latched' = flash.emergency_latched
    /\ faults' = IF flash.emergency_latched THEN {"EMERGENCY_LATCHED"} ELSE {}
    /\ duty' = AllFansSafe
    /\ writes' = <<>>
    /\ drive' = {}
    /\ failed' = FALSE
    /\ asked' = NothingAsked
    /\ UNCHANGED flash

Next ==
    \/ \E fan \in FanIds, d \in Duties : SetFan(fan, d) \/ RefuseFan(d)
    \/ AcknowledgeEmergency
    \/ EmergencyDisable
    \/ DriveStep
    \/ WriteDone
    \/ WriteFails
    \/ Restart

Spec == Init /\ [][Next]_vars

-----------------------------------------------------------------------------
\* A fan runs at the safe duty or at one that was asked of it since the last
\* emergency or restart: settings that are persisted after an emergency, for a
\* command that came before it, do not slow a fan down.
DutyIsAsked == \A f \in FanIds : duty[f] = SAFE_DEFAULT \/ duty[f] \in asked[f]

\* "Emergency handling keeps cooling at that safe setting": while the emergency
\* is latched both fans run at the safe duty.
EmergencyKeepsCooling == emergency_latched => duty = AllFansSafe

\* The last settings to be written are those in memory, and when none are left
\* to write flash holds them, unless that last write failed.
BackplaneFlashFollows ==
    /\ writes # <<>> => writes[Len(writes)].settings = Now
    /\ writes = <<>> /\ ~failed => flash = Now

=============================================================================
