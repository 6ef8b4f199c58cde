CONSTANTS
    MaxLaunches = 1
    MaxCreatedQuizzes = 1

SPECIFICATION SessionSpec

INVARIANTS
    OneUserPerLaunch
