-------------------------- MODULE CarrierController --------------------------
(***************************************************************************)
(* The safety state of a carrier's output (firmware/crates/pdcan-core/src/ *)
(* lib.rs, struct CarrierController).  The variables are the mutable       *)
(* fields of the struct; the two fields of CarrierSettings stand for       *)
(* themselves.  One action per method, whose last parameter r is what the  *)
(* method returns: the CarrierAction its caller has to carry out, nothing, *)
(* or an error.  The controller never touches the output or the flash      *)
(* itself; CarrierNode composes it with a caller that does.                *)
(***************************************************************************)
EXTENDS Integers

CONSTANTS
    SupportsPd,   \* the descriptor advertises USB_PD_CONTROL
    Ceiling,      \* the board's PdLimits, or NoLimits
    NoLimits,     \* Option::None
    Policies      \* the CarrierPolicy values a command or the flash may hold

\* PdLimits: max_voltage_mv, max_current_ma and max_power_mw.
Within(limits, ceiling) ==
    \A k \in DOMAIN limits : limits[k] # 0 /\ limits[k] <= ceiling[k]

Valid(p) ==
    \/ SupportsPd /\ NoLimits \notin {p.pd_limits, Ceiling} /\ Within(p.pd_limits, Ceiling)
    \/ ~SupportsPd /\ p.pd_limits = NoLimits

Disabled(p) == [p EXCEPT !.enabled = FALSE]

ASSUME PoliciesAssumption == \A p \in Policies :
    /\ p = [enabled |-> p.enabled, pd_limits |-> p.pd_limits]
    /\ p.enabled \in BOOLEAN
    /\ Disabled(p) \in Policies

VARIABLES policy, emergency_latched, service, faults, housekeeping_good, output_power_good

settingsVars == <<policy, emergency_latched>>
healthVars == <<housekeeping_good, output_power_good>>
vars == <<settingsVars, service, faults, healthVars>>

ServiceState == {"Starting", "Disabled", "Enabling", "Enabled", "Faulted"}

FaultFlags == {"EMERGENCY_LATCHED", "HOUSEKEEPING_POWER_BAD", "OUTPUT_POWER_BAD"}

CarrierSettings == [policy : Policies, emergency_latched : BOOLEAN]

\* What a method returns.
PersistSettings(settings) == [is |-> "PersistSettings", settings |-> settings]
DriveOutput(on) == [is |-> "DriveOutput", on |-> on]
DriveOutputThenPersistEmergency == [is |-> "DriveOutputThenPersistEmergency"]
Nothing == [is |-> "None"]
Err(error) == [is |-> "Err", error |-> error]

Result ==
    {PersistSettings(s) : s \in CarrierSettings} \cup {DriveOutput(on) : on \in BOOLEAN}
    \cup {DriveOutputThenPersistEmergency, Nothing}
    \cup {Err(e) : e \in {"InvalidPolicy", "EmergencyLatched", "EmergencyAlreadyClear",
                          "HardwareNotReady"}}

Settings(p, latched) == [policy |-> p, emergency_latched |-> latched]

\* CarrierController::new on the settings found in flash; it refuses a policy
\* that is not valid.
New(settings) ==
    /\ Valid(settings.policy)
    /\ policy = settings.policy
    /\ emergency_latched = settings.emergency_latched
    /\ service = "Starting"
    /\ faults = IF settings.emergency_latched THEN {"EMERGENCY_LATCHED"} ELSE {}
    /\ housekeeping_good = FALSE
    /\ output_power_good = FALSE

Init == \E settings \in CarrierSettings : New(settings)

Refuse(error, r) ==
    /\ r = Err(error)
    /\ UNCHANGED vars

-----------------------------------------------------------------------------

set_housekeeping_good(good, r) ==
    /\ housekeeping_good' = good
    /\ service' = CASE ~good -> "Faulted"
                    [] good /\ service = "Starting" -> "Disabled"
                    [] OTHER -> service
    /\ faults' = IF good THEN faults ELSE faults \cup {"HOUSEKEEPING_POWER_BAD"}
    /\ r = Nothing
    /\ UNCHANGED <<settingsVars, output_power_good>>

MayRestore == housekeeping_good /\ ~emergency_latched

restore_after_startup_delay(r) ==
    \/ /\ ~housekeeping_good
       /\ Refuse("HardwareNotReady", r)
    \/ /\ housekeeping_good
       /\ ~MayRestore
       /\ Refuse("EmergencyLatched", r)
    \/ /\ MayRestore
       /\ service' = IF policy.enabled THEN "Enabling" ELSE "Disabled"
       /\ r = IF policy.enabled THEN DriveOutput(TRUE) ELSE Nothing
       /\ UNCHANGED <<settingsVars, faults, healthVars>>

\* Mutant: the policy is not validated.
Acceptable_Unchecked(p) == ~(p.enabled /\ emergency_latched)

Acceptable(p) == Valid(p) /\ ~(p.enabled /\ emergency_latched)

set_policy(p, r) ==
    \/ /\ ~Acceptable(p)
       /\ Refuse(IF Valid(p) THEN "EmergencyLatched" ELSE "InvalidPolicy", r)
    \/ /\ Acceptable(p)
       /\ policy' = p
       /\ service' = IF p.enabled THEN "Enabling" ELSE "Disabled"
       /\ r = PersistSettings(Settings(p, emergency_latched))
       /\ UNCHANGED <<emergency_latched, faults, healthVars>>

\* Called when a PersistSettings of set_policy is in flash: the output follows
\* the policy of this moment, not the one that was written.
policy_persisted(r) == r = DriveOutput(policy.enabled)

Lost(good) == ~good /\ service = "Enabled"

observe_output_power_good(good, r) ==
    /\ output_power_good' = good
    /\ service' = CASE good /\ service = "Enabling" -> "Enabled"
                    [] Lost(good) -> "Faulted"
                    [] OTHER -> service
    /\ faults' = IF Lost(good) THEN faults \cup {"OUTPUT_POWER_BAD"} ELSE faults
    /\ r = Nothing
    /\ UNCHANGED <<settingsVars, housekeeping_good>>

\* Mutant: the emergency leaves the persisted policy enabled.
emergency_disable_KeepsPolicy(r) ==
    /\ emergency_latched' = TRUE
    /\ output_power_good' = FALSE
    /\ faults' = faults \cup {"EMERGENCY_LATCHED"}
    /\ service' = "Disabled"
    /\ r = DriveOutputThenPersistEmergency
    /\ UNCHANGED <<policy, housekeeping_good>>

emergency_disable(r) ==
    /\ emergency_latched' = TRUE
    /\ policy' = Disabled(policy)
    /\ output_power_good' = FALSE
    /\ faults' = faults \cup {"EMERGENCY_LATCHED"}
    /\ service' = "Disabled"
    /\ r = DriveOutputThenPersistEmergency
    /\ UNCHANGED housekeeping_good

\* Mutant: the settings to persist are read before the latch is cleared.
acknowledge_emergency_ReadsFirst(r) ==
    \/ /\ ~emergency_latched
       /\ Refuse("EmergencyAlreadyClear", r)
    \/ /\ emergency_latched
       /\ emergency_latched' = FALSE
       /\ faults' = faults \ {"EMERGENCY_LATCHED"}
       /\ r = PersistSettings(Settings(policy, emergency_latched))
       /\ UNCHANGED <<policy, service, healthVars>>

acknowledge_emergency(r) ==
    \/ /\ ~emergency_latched
       /\ Refuse("EmergencyAlreadyClear", r)
    \/ /\ emergency_latched
       /\ emergency_latched' = FALSE
       /\ faults' = faults \ {"EMERGENCY_LATCHED"}
       /\ r = PersistSettings(Settings(policy, FALSE))
       /\ UNCHANGED <<policy, service, healthVars>>

Call(r) ==
    \/ \E good \in BOOLEAN : set_housekeeping_good(good, r)
    \/ restore_after_startup_delay(r)
    \/ \E p \in Policies : set_policy(p, r)
    \/ \E good \in BOOLEAN : observe_output_power_good(good, r)
    \/ emergency_disable(r)
    \/ acknowledge_emergency(r)

Next == \E r \in Result : Call(r)

Spec == Init /\ [][Next]_vars

-----------------------------------------------------------------------------

\* Every field keeps its type, and the policy stays one that new accepts: a
\* restart on persisted settings never fails.
TypeOK ==
    /\ policy \in Policies
    /\ Valid(policy)
    /\ emergency_latched \in BOOLEAN
    /\ service \in ServiceState
    /\ faults \subseteq FaultFlags
    /\ housekeeping_good \in BOOLEAN
    /\ output_power_good \in BOOLEAN

\* While the emergency is latched the output is in nobody's service, whatever
\* is commanded, observed or restored, and the latch and its fault flag never
\* disagree.
EmergencyHolds ==
    /\ emergency_latched => service \notin {"Enabling", "Enabled"}
    /\ emergency_latched <=> "EMERGENCY_LATCHED" \in faults

\* A service that is enabled or being enabled is one the policy asks for, and
\* "enabled" is only said of an output that was seen to have power and was
\* not seen to lose it.
ServiceJustified ==
    /\ service \in {"Enabling", "Enabled"} => policy.enabled
    /\ service = "Enabled" => output_power_good

\* "An emergency or safety fault always forces the output off and dominates
\* persisted policy": with housekeeping power bad and flagged, no policy
\* brings the service up.
FaultDominatesPolicy ==
    ~housekeeping_good /\ "HOUSEKEEPING_POWER_BAD" \in faults =>
        service \notin {"Enabling", "Enabled"}
=============================================================================
