--------------------------- MODULE MCCarrierNode ----------------------------
(* A carrier with USB-PD and policies at, below and above its ceiling and    *)
(* without limits.                                                           *)
EXTENDS CarrierNode

L(mv, ma, mw) == [max_voltage_mv |-> mv, max_current_ma |-> ma, max_power_mw |-> mw]

MCCeiling == L(2, 2, 3)

MCPolicies ==
    [enabled : BOOLEAN,
     pd_limits : {NoLimits, L(2, 2, 3), L(1, 1, 1), L(0, 2, 3), L(2, 2, 4)}]

MCFactory ==
    Settings([enabled |-> FALSE, pd_limits |-> MCCeiling], FALSE)
=============================================================================
