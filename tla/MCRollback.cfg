SPECIFICATION Spec
CONSTANTS
    Ids = {1, 2}
    NoId = NoId
    Styles = {"flat", "rich"}
    Plain = {"flat"}
    Forms = {"small", "large"}
    Blank <- MCBlank
    Layers = {"L1"}
    DocOf <- OneDoc
    MaxItems = 4
    NoTxn = NoTxn
    NoItem = NoItem
    RebuildCap = 2
    AnyForm = AnyForm
    NoLayer = NoLayer
    Longer <- OneLonger
    Tasks <- AnyThenLast
    Selectors <- RollbackSelectors
    Guards <- RollbackGuards
    Modes = {"loose", "snapshot"}
    CompoundModes = {"snapshot", "loose"}
    NoSelector = NoSelector
    NoCompound = NoCompound
    FirstDoms <- PathAndSketch
    MaxOps = 3
    MaxBatches = 1
    MaxEdits = 0
CHECK_DEADLOCK FALSE
INVARIANT FailureUndoesAll
