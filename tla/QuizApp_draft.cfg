CONSTANTS
    quizMinQuotes = 3
    quizMaxQuotes = 4
    AnswerTexts = {a, b}
    OptionTexts = {c}
    Blank = Blank
    MaxQuizzes = 1

SPECIFICATION Spec

PROPERTIES
    DraftIsKept
