CONSTANTS
    MaxLaunches = 2
    MaxCreatedQuizzes = 1

SPECIFICATION SessionSpec

PROPERTIES
    QuizThenSegue
