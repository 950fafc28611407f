------------------------------- MODULE PdoPlan -------------------------------
(***************************************************************************)
(* The arithmetic of firmware/crates/pdcan-drivers/src/sw3538.rs: the      *)
(* fixed PDOs that a carrier policy allows, and how they are packed into   *)
(* the registers of the chip.  Currents are counted in 10 mA as there.     *)
(***************************************************************************)
EXTENDS Integers

CONSTANT NoLimits       \* pd_limits: None

Voltages == {5000, 9000, 12000, 15000, 20000}

\* The larger ones have an enable bit; 5 V is always offered.
Weight == [v \in Voltages \ {5000} |->
    IF v = 9000 THEN 1 ELSE IF v = 12000 THEN 2 ELSE IF v = 15000 THEN 4 ELSE 8]

PdLimits == [max_voltage_mv : Nat, max_current_ma : Nat, max_power_mw : Nat]

\* PdLimits::validate_for(SW3538_SAFE_MAX).
WithinSafeMax(limits) ==
    /\ 0 < limits.max_voltage_mv /\ limits.max_voltage_mv <= 20000
    /\ 0 < limits.max_current_ma /\ limits.max_current_ma <= 5000
    /\ 0 < limits.max_power_mw /\ limits.max_power_mw <= 100000

Acceptable(policy) == policy.pd_limits # NoLimits /\ WithinSafeMax(policy.pd_limits)

AtMost(a, b) == IF a <= b THEN a ELSE b

\* The product fits: max_power_mw is at most 100 W.
CurrentFor(limits, mv) ==
    AtMost(AtMost(limits.max_current_ma, (limits.max_power_mw * 1000) \div mv) \div 10, 1023)

EnabledVoltage(limits, mv) == limits.max_voltage_mv >= mv

\* FixedPdoPlan::from_policy for an acceptable policy: the voltages that are
\* enabled by a bit, and the current of each.
from_policy(policy) ==
    LET limits == policy.pd_limits
        enabled == {v \in Voltages \ {5000} : policy.enabled /\ EnabledVoltage(limits, v)}
    IN  [pd_enabled |-> policy.enabled,
         enabled |-> enabled,
         current |-> [v \in Voltages |->
             IF v \in enabled \/ (policy.enabled /\ v = 5000)
             THEN CurrentFor(limits, v) ELSE 0]]

Flag(b) == IF b THEN 1 ELSE 0

\* The register PD_VOLTAGE_ENABLE.
enabled_voltage_bits(plan) ==
    1 * Flag(9000 \in plan.enabled) + 2 * Flag(12000 \in plan.enabled)
    + 4 * Flag(15000 \in plan.enabled) + 8 * Flag(20000 \in plan.enabled)

\* A current is split into its eight high bits ...
High(current) == (current \div 4) % 256

\* Mutant: the low bits of two voltages are swapped.
fixed_current_low_Swapped(plan) ==
    64 * (plan.current[15000] % 4) + 16 * (plan.current[20000] % 4)
    + 4 * (plan.current[12000] % 4) + (plan.current[9000] % 4)

\* ... and two low bits, which share a register but for those of 5 V.
fixed_current_low(plan) ==
    64 * (plan.current[20000] % 4) + 16 * (plan.current[15000] % 4)
    + 4 * (plan.current[12000] % 4) + (plan.current[9000] % 4)

-----------------------------------------------------------------------------
\* What a policy allows to be offered at a voltage, in 10 mA.
AllowedBy(policy, mv, current) ==
    /\ policy.enabled
    /\ 10 * current <= policy.pd_limits.max_current_ma
    /\ 10 * current * mv <= 1000 * policy.pd_limits.max_power_mw
    /\ mv = 5000 \/ mv <= policy.pd_limits.max_voltage_mv
=============================================================================
