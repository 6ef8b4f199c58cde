CONSTANTS
    quizMaxQuotes = 1
    Faults = {"save", "fetch", "sign-in", "loss", "overtaking", "relaunch"}
    MaxUsers = 2
    MaxQuizzes = 2
    MaxQuotes = 2

SPECIFICATION Spec

INVARIANTS
    SyncTypeOK
    StoreIsWhole
    QuizHasUser
    ServerWithinStore
    PlaysOwnQuotes
    SyncInv

PROPERTIES
    StoreIsALibrary
    OnlyUsersErase
