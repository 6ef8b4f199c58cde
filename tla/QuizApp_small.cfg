CONSTANTS
    quizMinQuotes = 3
    quizMaxQuotes = 4
    AnswerTexts = {a}
    OptionTexts = {b}
    Blank = Blank
    MaxQuizzes = 3

SPECIFICATION Spec

INVARIANTS
    TypeOK
    IInv
    RoundInv
    ButtonsMatch
    CursorInCache
    QuizNeverOverfull
    ListedIsPlayed
    StoredQuotesComplete
    CacheIsTheQuizPlayed
    ResultIsComplete

PROPERTIES
    NoQuoteSilentlyDropped
    FreshQuizHasEnough
    WritesALibrary
