CONSTANTS
    quizMaxQuotes = 15
    Faults = {"sign-in"}
    MaxUsers = 2
    MaxQuizzes = 1
    MaxQuotes = 1

SPECIFICATION Spec

INVARIANTS
    QuizzesReachServer
