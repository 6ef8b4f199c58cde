-------------------------- MODULE SessionProperties --------------------------
(***************************************************************************)
(* What is checked of signing in: who the user is, for every part of the   *)
(* app, on the server and after a relaunch, however the request ends and   *)
(* whatever the main thread does meanwhile.                                *)
(***************************************************************************)
EXTENDS Session

Users == 1 .. users
SavedUsers == 1 .. saved

\* The four parts that getUser gives the user to; HomeVC only copies it
SignedInParts == Owners \ {"HomeVC"}

\* Type of every variable.
SessionTypeOK ==
    /\ users \in Nat
    /\ saved \in 0 .. users
    /\ creators \in Seq(Nat)
    /\ userOf \in [Owners -> Users \cup {NoUser}]
    /\ serverUser \in Users \cup {NoUser}
    /\ puts \subseteq Users
    /\ answer \in Answers
    /\ pc \in {"waiting", "error", "data", "status", "find", "create", "save",
               "send", "sync", "syncQuiz", "show", "returned"}
    /\ back \in {"data", "status", "returned"}
    /\ result \in {"success", "failure"}
    /\ screen \in {"Login", "Home", "NewQuiz", "NewQuote"}
    /\ launches \in Nat

PartsAgree ==
    /\ userOf["UserController"] \in SavedUsers
    /\ \A part \in SignedInParts : userOf[part] = userOf["UserController"]

\* Once the completion of fetch has returned, the controllers and the log-in screen
\* have one and the same user, and it is stored, whichever of the paths through
\* fetch was taken, one of them twice (UserController.swift:80-110,
\* KQController.swift:32-37).
UsersAgree == pc = "returned" => PartsAgree

\* A user that a screen shows, that creates quizzes, or that Firebase has or is
\* being sent, is in the store: it survives the end of the process at any
\* statement (UserController.swift:45-64, 96-98, 119-132).
KnownUsersAreSaved ==
    /\ \A owner \in Owners \ {"UserController"} :
            userOf[owner] \in SavedUsers \cup {NoUser}
    /\ \A z \in DOMAIN creators : creators[z] \in SavedUsers
    /\ serverUser \in SavedUsers \cup {NoUser}
    /\ puts \subseteq SavedUsers

Slot == INSTANCE Account WITH
    Nobody   <- NoUser,
    accounts <- SavedUsers,
    holder   <- IF pc = "returned" THEN userOf["UserController"] ELSE NoUser

\* From the return of the completion of fetch to the end of the process the app runs
\* for one stored user, who creates every quiz, and no user is added; before, quizzes
\* are created by stored users only; and no user is ever lost, although both threads
\* save what the other one created (UserController.swift:80-133,
\* QuizController.swift:163-175).
ServesOneAccount == Slot!Spec

\* Signing in comes to an end with a user that every part has, unless the app is
\* launched again (UserController.swift:80-111, LogInViewController.swift:25-33).
SignInEnds == <>[](pc = "returned" /\ PartsAgree)

-----------------------------------------------------------------------------
\* The inductive invariant behind UsersAgree and KnownUsersAreSaved.

\* What the completion of fetch has established at each of its statements: nobody
\* has a user before the first; after a failure or a success was delivered all
\* agree; in between, the parts that have been told; and only the user about to be
\* saved is not.
CallbackInv ==
    LET user == userOf["UserController"]
        Told(part) == userOf[part] = user
    IN  /\ pc \in {"data", "find"} /\ answer.error => PartsAgree
        /\ pc \in {"status", "returned"} => PartsAgree
        /\ pc = "find" => answer.data = "user"
        /\ pc # "save" => saved = users
        /\ pc = "save" => user \in Users
        /\ pc \in {"send", "sync", "syncQuiz", "show"} => user \in SavedUsers
        /\ pc = "send" => result = "failure"
        /\ pc = "syncQuiz" => Told("KQController")
        /\ pc \in {"sync", "syncQuiz"} /\ result = "success" => Told("LogInVC")
        /\ pc = "show" /\ result = "failure" =>
                Told("KQController") /\ Told("QuizController")

SessionInv ==
    /\ SessionTypeOK
    /\ KnownUsersAreSaved
    /\ CallbackInv

-----------------------------------------------------------------------------
\* What the comments say.

\* LogInViewController.swift:30, "Create new user if fetch was unsuccessfull": a
\* launch, which fetches once, creates at most one user.
OneUserPerLaunch == users <= launches

\* NewQuizViewController.swift:34, "Create empty Quiz then segue": the screen on
\* which quotes are written follows the creation of a quiz.
QuizThenSegue ==
    [][ screen = "NewQuiz" /\ screen' = "NewQuote"
        => Len(creators') = Len(creators) + 1 ]_vars
=============================================================================
