SPECIFICATION Spec
CONSTANTS
    Tags = {1, 2, 3}
    HeadTag = 2
    Lengths = {4}
    Origins = {0}
    Forms = {"withdrawn"}
    FillSeq <- MCFillSeq
    WriteSeq <- MCWriteSeq
INVARIANTS
    SumsRight
