SPECIFICATION Spec
CONSTANTS
    Ids = {1, 2, 3}
    NoId = NoId
    Styles = {"flat", "rich"}
    Plain = {"flat"}
    Forms = {"small", "guide"}
    Blank <- MCBlank
    Layers = {"L1"}
    DocOf <- OneDoc
    MaxItems = 4
    NoTxn = NoTxn
    NoItem = NoItem
    RebuildCap = 2
    AnyForm = AnyForm
    Payloads <- MCPayloads
    FirstDoms <- TaggedAndOther
    Doc = "doc"
    MaxAttempts = 3
    NoTarget = NoTarget
CHECK_DEADLOCK FALSE
INVARIANTS
    TaskTypeOK
    AppliedOnce
    RetryFindsSame
    OnlyTargetsTagged
    OkAccountsForAll
