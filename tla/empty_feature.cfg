SPECIFICATION HSpec
CONSTANTS
    FEAT_NAMED_LKP_END = 2
    FEAT_ANON_LKP_END = 12
    REF_LAB = 16
    Scripts = {"DFLT", "latn"}
    Langs = {"dflt", "DEU"}
    Features = {"liga", "kern"}
    Names = {"L"}
    Flags = {}
    Forms = {"emptyFeature"}
    MaxStmts = 5
    RuleKinds <- OneKind
    TagRank <- MCTagRank
CONSTRAINTS NoError DefaultFirst
INVARIANTS
    NoEmptyLookup
