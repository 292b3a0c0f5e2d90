SPECIFICATION HFairSpec
CONSTANTS
    FEAT_NAMED_LKP_END = 2
    FEAT_ANON_LKP_END = 4
    REF_LAB = 8
    Scripts = {"DFLT", "latn"}
    Langs = {"dflt", "DEU"}
    Features = {"liga", "aalt"}
    Names = {"L"}
    Flags = {}
    Forms = {"emptyBlock", "emptyFeature", "blockLang", "reopen", "again"}
    MaxStmts = 5
    RuleKinds <- TwoTables
    TagRank <- MCTagRank
INVARIANTS
    TypeOK
    LabelsIssued
PROPERTIES
    HandlersReturn
