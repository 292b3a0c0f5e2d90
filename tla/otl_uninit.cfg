SPECIFICATION Spec
CONSTANTS
    FEAT_NAMED_LKP_END = 2
    FEAT_ANON_LKP_END = 5
    REF_LAB = 8
    Regular <- OneRegistration
    TagRank <- MCTagRank
    UninitIndexes = {0}
    Forms = {"manyAnonymous"}
    MaxSubtables = 4
INVARIANTS
    AppliesRegistered
