CONSTANTS
    MaxLaunches = 3
    MaxCreatedQuizzes = 2

SPECIFICATION FairSessionSpec

INVARIANTS
    SessionTypeOK
    UsersAgree
    KnownUsersAreSaved
    SessionInv

PROPERTIES
    ServesOneAccount
    SignInEnds
