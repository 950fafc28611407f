SPECIFICATION NodeSpec
CONSTANTS
    SupportsPd = TRUE
    Ceiling <- MCCeiling
    NoLimits = NoLimits
    Policies <- MCPolicies
    Factory <- MCFactory
    PendingWrites = 2
INVARIANTS
    FaultDominatesPolicy
