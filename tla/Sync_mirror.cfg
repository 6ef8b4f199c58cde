CONSTANTS
    quizMaxQuotes = 2
    Faults = {}
    MaxUsers = 1
    MaxQuizzes = 3
    MaxQuotes = 5

SPECIFICATION FairSpec

INVARIANTS
    SyncInv

PROPERTIES
    Mirrors
    StoreIsALibrary
