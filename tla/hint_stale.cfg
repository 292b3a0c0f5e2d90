SPECIFICATION Spec
CONSTANTS
    None = None
    Fonts = {f1}
    Glyphs = {g1, g2}
    Outlines = {o1, o2}
    Reference = f1
    Settled = {g2}
    Uses = {}
INVARIANTS
    ForgottenIsReplaced
CONSTRAINT SettledIsDrawn
