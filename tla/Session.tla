------------------------------- MODULE Session -------------------------------
(***************************************************************************)
(* Signing in.  When the log-in screen loads, UserController.fetch asks    *)
(* Firebase for the user and finds or creates it in Core Data; any failure *)
(* creates a new one (LogInViewController.getUser).  The completion of the *)
(* request runs on the background queue of URLSession, statement by        *)
(* statement, while the main thread moves between the screens and creates  *)
(* quizzes: pc, back and result are its control state.                     *)
(*                                                                         *)
(* There is one user name in the code, so a user is its number in the      *)
(* order of creation, and users below `saved' outlive the process.         *)
(***************************************************************************)
EXTENDS Integers, Sequences

CONSTANTS
    MaxLaunches,       \* bound: how often the app is launched
    MaxCreatedQuizzes  \* bound: how many quizzes are ever created

ASSUME SessionAssumption ==
    /\ MaxLaunches \in Nat
    /\ MaxCreatedQuizzes \in Nat

VARIABLES
    users,       \* Core Data: users in the context, 1 .. users
    saved,       \* Core Data: users in the store, 1 .. saved
    creators,    \* Core Data: the relationship creator of each stored quiz
    userOf,      \* the property user of the controllers and of two screens
    serverUser,  \* Firebase: the user at users/<name>
    puts,        \* Firebase: users whose PUT is on its way
    answer,      \* data, response and error handed to the completion of fetch
    pc,          \* the statement that completion is at
    back,        \* the statement it goes on with when its own completion returns
    result,      \* what it calls its own completion with
    screen,      \* the main thread: the screen on top
    launches     \* bound: launches so far

storeVars == <<users, saved, creators>>
serverVars == <<serverUser, puts>>
callbackVars == <<answer, pc, back, result>>
mainVars == <<screen, launches>>

vars == <<storeVars, userOf, serverVars, callbackVars, mainVars>>

NoUser == 0

Owners == {"UserController", "KQController", "QuizController", "LogInVC", "HomeVC"}

\* data: absent, the representation of a user, or anything that does not decode;
\* badStatus: there is a response, and its status is not 200.  A request that
\* failed may still have got a response, but no data; the server sends the user
\* with 200 only.
Answers ==
    {a \in [error : BOOLEAN, data : {"none", "user", "junk"}, badStatus : BOOLEAN] :
        /\ a.error <=> a.data = "none"
        /\ a.data = "user" => ~a.badStatus}

NoAnswer == [error |-> TRUE, data |-> "none", badStatus |-> FALSE]

SessionInit ==
    /\ users = 0
    /\ saved = 0
    /\ creators = <<>>
    /\ userOf = [owner \in Owners |-> NoUser]
    /\ serverUser = NoUser
    /\ puts = {}
    /\ answer = NoAnswer
    /\ pc = "waiting"
    /\ back = "status"
    /\ result = "failure"
    /\ screen = "Login"
    /\ launches = 1
-----------------------------------------------------------------------------
\* Firebase

\* The request ends, one way or another: URLSession always calls back.
ServerReplies ==
    /\ pc = "waiting"
    /\ answer' \in Answers
    /\ answer'.data = "user" => serverUser # NoUser
    /\ answer'.data = "junk" /\ ~answer'.badStatus => serverUser = NoUser
    /\ pc' = "error"
    /\ UNCHANGED <<storeVars, userOf, serverVars, back, result, mainVars>>

PutArrives ==
    \E u \in puts :
        /\ serverUser' = u
        /\ puts' = puts \ {u}
        /\ UNCHANGED <<storeVars, userOf, callbackVars, mainVars>>

\* The completion of a PUT only logs an error.
PutIsLost ==
    \E u \in puts :
        /\ puts' = puts \ {u}
        /\ UNCHANGED <<serverUser, storeVars, userOf, callbackVars, mainVars>>

-----------------------------------------------------------------------------
\* The completion of fetch, on the background queue

\* completion(.failure(...)): getUser catches it and creates a user.
Fail(return) ==
    /\ pc' = "create"
    /\ result' = "failure"
    /\ back' = return

\* completion(.success(self.user))
Succeed(return) ==
    /\ pc' = "show"
    /\ result' = "success"
    /\ back' = return

\* Mutated form of CheckError: the error is logged, and that is all.
CheckErrorLoggedOnly ==
    /\ pc = "error"
    /\ pc' = "data"
    /\ UNCHANGED <<back, result, answer, storeVars, userOf, serverVars, mainVars>>

\* if let error: there is no return in it
CheckError ==
    /\ pc = "error"
    /\ IF answer.error
       THEN Fail("data")
       ELSE pc' = "data" /\ UNCHANGED <<back, result>>
    /\ UNCHANGED <<answer, storeVars, userOf, serverVars, mainVars>>

\* if let data
CheckData ==
    /\ pc = "data"
    /\ \/ answer.data = "none" /\ pc' = "status" /\ UNCHANGED <<back, result>>
       \/ answer.data = "user" /\ pc' = "find" /\ UNCHANGED <<back, result>>
       \/ answer.data = "junk" /\ Fail("status")
    /\ UNCHANGED <<answer, storeVars, userOf, serverVars, mainVars>>

\* if let response, whose status is not 200
CheckStatus ==
    /\ pc = "status"
    /\ IF answer.badStatus
       THEN Fail("returned")
       ELSE pc' = "returned" /\ UNCHANGED <<back, result>>
    /\ UNCHANGED <<answer, storeVars, userOf, serverVars, mainVars>>

\* getUserFromCD finds a user: without a sort descriptor, any of them
FindUser ==
    /\ pc = "find"
    /\ \E u \in 1 .. users : userOf' = [userOf EXCEPT !["UserController"] = u]
    /\ Succeed("status")
    /\ UNCHANGED <<answer, storeVars, serverVars, mainVars>>

NewUser ==
    /\ users' = users + 1
    /\ userOf' = [userOf EXCEPT !["UserController"] = users + 1]
    /\ UNCHANGED <<saved, creators>>

\* getUserFromCD finds none, or its fetch fails
CreateFetchedUser ==
    /\ pc = "find"
    /\ NewUser
    /\ pc' = "save"
    /\ result' = "success"
    /\ back' = "status"
    /\ UNCHANGED <<answer, serverVars, mainVars>>

\* Mutated form of CreateUser: the request is sent, and nothing saved before it.
CreateUserUnsaved ==
    /\ pc = "create"
    /\ NewUser
    /\ pc' = "send"
    /\ UNCHANGED <<answer, back, result, serverVars, mainVars>>

\* createUser
CreateUser ==
    /\ pc = "create"
    /\ NewUser
    /\ pc' = "save"
    /\ UNCHANGED <<answer, back, result, serverVars, mainVars>>

\* Mutated form of SaveUser: the save is forgotten where fetch creates the user.
SaveUserNotFetched ==
    /\ pc = "save"
    /\ saved' = IF result = "success" THEN saved ELSE users
    /\ pc' = IF result = "success" THEN "show" ELSE "send"
    /\ UNCHANGED <<users, creators, userOf, serverVars, answer, back, result, mainVars>>

\* CoreDataStack.save, in fetch or in the completion of put, which put calls
\* before it sends the request
SaveUser ==
    /\ pc = "save"
    /\ saved' = users
    /\ pc' = IF result = "success" THEN "show" ELSE "send"
    /\ UNCHANGED <<users, creators, userOf, serverVars, answer, back, result, mainVars>>

SendUser ==
    /\ pc = "send"
    /\ puts' = puts \cup {userOf["UserController"]}
    /\ pc' = "sync"
    /\ UNCHANGED <<storeVars, userOf, serverUser, answer, back, result, mainVars>>

\* The statements of syncUser.  Neither has an effect when its condition is false:
\* then the three users are the same.
SyncUser ==
    /\ pc = "sync"
    /\ userOf' = [userOf EXCEPT !["KQController"] = userOf["UserController"]]
    /\ pc' = "syncQuiz"
    /\ UNCHANGED <<storeVars, serverVars, answer, back, result, mainVars>>

\* Mutated form of SyncQuizUser: only a first user is handed on.
SyncQuizUserOnce ==
    /\ pc = "syncQuiz"
    /\ userOf' = IF userOf["QuizController"] = NoUser
                 THEN [userOf EXCEPT !["QuizController"] = userOf["UserController"]]
                 ELSE userOf
    /\ pc' = IF result = "success" THEN back ELSE "show"
    /\ UNCHANGED <<storeVars, serverVars, answer, back, result, mainVars>>

\* The log-in screen gets a new user after the controllers, a fetched one before.
SyncQuizUser ==
    /\ pc = "syncQuiz"
    /\ userOf' = [userOf EXCEPT !["QuizController"] = userOf["UserController"]]
    /\ pc' = IF result = "success" THEN back ELSE "show"
    /\ UNCHANGED <<storeVars, serverVars, answer, back, result, mainVars>>

ShowUser ==
    /\ pc = "show"
    /\ userOf' = [userOf EXCEPT !["LogInVC"] = userOf["UserController"]]
    /\ pc' = IF result = "success" THEN "sync" ELSE back
    /\ UNCHANGED <<storeVars, serverVars, answer, back, result, mainVars>>

Callback ==
    \/ CheckError \/ CheckData \/ CheckStatus
    \/ FindUser \/ CreateFetchedUser \/ CreateUser
    \/ SaveUser \/ SendUser \/ SyncUser \/ SyncQuizUser \/ ShowUser

-----------------------------------------------------------------------------
\* The main thread

ShowHome ==
    /\ screen = "Login"
    /\ screen' = "Home"
    /\ userOf' = [userOf EXCEPT !["HomeVC"] = userOf["LogInVC"]]
    /\ UNCHANGED <<storeVars, serverVars, callbackVars, launches>>

\* Back to the log-in screen, or the pop to it when a quiz is finished
LeaveHome ==
    /\ screen \in {"Home", "NewQuote"}
    /\ screen' = "Login"
    /\ userOf' = [userOf EXCEPT !["HomeVC"] = NoUser]
    /\ UNCHANGED <<storeVars, serverVars, callbackVars, launches>>

\* NewQuizViewController gets the user of HomeViewController.
Navigate ==
    \E next \in {"Home", "NewQuiz"} :
        /\ <<screen, next>> \in
              {<<"Home", "NewQuiz">>, <<"NewQuiz", "Home">>, <<"NewQuote", "NewQuiz">>}
        /\ screen' = next
        /\ UNCHANGED <<storeVars, userOf, serverVars, callbackVars, launches>>

\* createEmptyQuiz: the creator is the user of quizController, and without one
\* nothing is created; the save takes every user of the context with it.
\* bound: MaxCreatedQuizzes
CreateEmptyQuiz ==
    LET creator == userOf["QuizController"] IN
    IF creator = NoUser
    THEN UNCHANGED storeVars
    ELSE /\ Len(creators) < MaxCreatedQuizzes
         /\ creators' = Append(creators, creator)
         /\ saved' = users
         /\ UNCHANGED users

\* The guard looks at the screen's own copy of the user; the segue follows
\* whatever createEmptyQuiz did.
StartButtonTapped ==
    /\ screen = "NewQuiz"
    /\ userOf["HomeVC"] # NoUser
    /\ CreateEmptyQuiz
    /\ screen' = "NewQuote"
    /\ UNCHANGED <<userOf, serverVars, callbackVars, launches>>

MainThread == ShowHome \/ LeaveHome \/ Navigate \/ StartButtonTapped

\* Mutated form of Relaunch: the user of UserController is kept.
RelaunchKeepingUser ==
    /\ launches < MaxLaunches
    /\ launches' = launches + 1
    /\ users' = saved
    /\ userOf' = [owner \in Owners |->
            IF owner = "UserController" THEN userOf[owner] ELSE NoUser]
    /\ answer' = NoAnswer
    /\ pc' = "waiting"
    /\ back' = "status"
    /\ result' = "failure"
    /\ screen' = "Login"
    /\ UNCHANGED <<saved, creators, serverVars>>

\* The process ends between any two statements and the app is launched again.
\* bound: MaxLaunches
Relaunch ==
    /\ launches < MaxLaunches
    /\ launches' = launches + 1
    /\ users' = saved
    /\ userOf' = [owner \in Owners |-> NoUser]
    /\ answer' = NoAnswer
    /\ pc' = "waiting"
    /\ back' = "status"
    /\ result' = "failure"
    /\ screen' = "Login"
    /\ UNCHANGED <<saved, creators, serverVars>>

-----------------------------------------------------------------------------
SessionNext ==
    ServerReplies \/ PutArrives \/ PutIsLost \/ Callback \/ MainThread \/ Relaunch

SessionSpec == SessionInit /\ [][SessionNext]_vars

\* URLSession calls every completion, and the queue runs it to its end.
FairSessionSpec == SessionSpec /\ WF_vars(ServerReplies) /\ WF_vars(Callback)
=============================================================================
