SPECIFICATION StoresSpec
CONSTANTS
    Prints = {"p", "q"}
    Absent = Absent
    Corrupt = Corrupt
    KeepEntries = 2
    MaxEntries = 3
    DocKeys = {"k", "kk", "l"}
    Files = {"k", "l"}
    FileOf <- FirstSixty
    Names = {"n", "m"}
    Torn = Torn
    MaxSaves = 2
    MaxWrites = 3
CHECK_DEADLOCK FALSE
INVARIANTS
    StoresTypeOK
    JournalInOrder
    NewestSurvives
    FileHasMemory
    CheckpointsDurable
    CheckpointsGenuine
