SPECIFICATION Spec
CONSTANTS
    None = None
    Fonts = {f1, f2}
    Glyphs = {g1}
    Outlines = {o1, o2}
    Reference = f1
    Settled = {}
    Uses = {}
INVARIANTS
    EntriesTruthful
PROPERTIES
    HintsSurvive
    SavedIsRemembered
    RunEnds
