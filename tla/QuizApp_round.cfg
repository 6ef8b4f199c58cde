CONSTANTS
    quizMinQuotes = 2
    quizMaxQuotes = 3
    AnswerTexts = {a, b}
    OptionTexts = {b}
    Blank = Blank
    MaxQuizzes = 2

SPECIFICATION PlayingSpec

PROPERTIES
    PlaysARound
    RoundEnds
