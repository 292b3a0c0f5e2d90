SPECIFICATION Spec
CONSTANTS
    FEAT_NAMED_LKP_END = 2
    FEAT_ANON_LKP_END = 5
    REF_LAB = 8
    Regular <- Registrations
    TagRank <- MCTagRank
    UninitIndexes = {0}
    Forms = {"dangling"}
    MaxSubtables = 4
INVARIANTS
    AppliesRegistered
    InFileOrder
    ParamsFound
    ChainRulesCall
    UnusedReported
