SPECIFICATION HSpec
CONSTANTS
    FEAT_NAMED_LKP_END = 2
    FEAT_ANON_LKP_END = 5
    REF_LAB = 8
    Scripts = {"DFLT"}
    Langs = {"dflt"}
    Features = {"liga", "kern"}
    Names = {"L", "M"}
    Flags = {1}
    Forms = {}
    MaxStmts = 7
    RuleKinds <- TwoTables
    TagRank <- MCTagRank
CONSTRAINTS NoError DefaultFirst
INVARIANTS
    RefsResolve
    LabelsContiguous
    LookupUniform
    NamedRefersToItself
    NoEmptyLookup
    NoMixedLookup
