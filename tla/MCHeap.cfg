SPECIFICATION Spec
CONSTANTS
    Ids = {1, 2}
    NoId = NoId
    Styles = {"flat", "rich"}
    Plain = {"flat"}
    Forms = {"small"}
    Blank <- MCBlank
    Layers = {"L1", "L2"}
    DocOf <- TwoDocs
    MaxItems = 4
    NoTxn = NoTxn
    NoItem = NoItem
    RebuildCap = 1
    AnyForm = AnyForm
    NoLayer = NoLayer
    Longer <- OneLonger
    Tasks <- HeapTwice
    Selectors <- HeapSelectors
    Guards <- RollbackGuards
    Modes = {"loose", "undo"}
    CompoundModes = {"snapshot", "loose"}
    NoSelector = NoSelector
    NoCompound = NoCompound
    FirstDoms <- SameIds
    MaxOps = 2
    MaxBatches = 2
    MaxEdits = 1
CHECK_DEADLOCK FALSE
INVARIANTS
    IndexSound
    ResolveRight
    TxnClosed
