SPECIFICATION Spec
CONSTANTS
    Tags = {1, 2, 3}
    HeadTag = 2
    Lengths = {0, 4, 7}
    Origins = {0, 8}
    Forms = {}
    FillSeq <- MCFillSeq
    WriteSeq <- MCWriteSeq
INVARIANTS
    TypeOK
    HeaderDescribes
    SumsRight
    TablesApart
    EveryTableFilled
    HeadAdjusted
PROPERTIES
    WritesWanted
    CallsReturn
