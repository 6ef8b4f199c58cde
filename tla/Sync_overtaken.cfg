CONSTANTS
    quizMaxQuotes = 15
    Faults = {"overtaking"}
    MaxUsers = 1
    MaxQuizzes = 1
    MaxQuotes = 1

SPECIFICATION Spec

INVARIANTS
    QuotesReachServer
