CONSTANTS
    quizMaxQuotes = 25
    Faults = {"save"}
    MaxUsers = 1
    MaxQuizzes = 2
    MaxQuotes = 2

SPECIFICATION Spec

INVARIANTS
    PlayedQuotesAreOfTheQuiz
