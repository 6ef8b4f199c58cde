CONSTANTS
    quizMinQuotes = 3
    quizMaxQuotes = 4
    AnswerTexts = {a}
    OptionTexts = {b}
    Blank = Blank
    MaxQuizzes = 2

SPECIFICATION Spec

PROPERTIES
    FinishedQuizHasEnough
