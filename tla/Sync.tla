-------------------------------- MODULE Sync --------------------------------
(***************************************************************************)
(* What the app creates, in Core Data and on the server: users when it     *)
(* signs in, quizzes and their quotes.  Each of the three is created in    *)
(* the context, saved, and sent, in this order and once; whether the       *)
(* request gets there is never asked.  The controllers refer to objects of *)
(* the context, which a failed save takes from under them.                 *)
(*                                                                         *)
(* Handlers are single steps here (Session models signing in statement by  *)
(* statement), and of the screens there is what creates and fetches        *)
(* (QuizApp models the rest).  The constant Faults says what may go wrong. *)
(***************************************************************************)
EXTENDS Integers, ManagedContext, FirebaseTree

CONSTANTS
    quizMaxQuotes,  \* 15 in the code
    Faults,         \* what may go wrong
    MaxUsers,       \* bounds: how many users, quizzes and quotes are ever created
    MaxQuizzes,
    MaxQuotes

ASSUME SyncAssumption ==
    /\ Faults \subseteq
          {"save",        \* a save throws
           "fetch",       \* a fetch from Core Data throws
           "sign-in",     \* fetching a user the server has fails, with one call
                          \* of the completion or two
           "loss",        \* a request does not arrive
           "overtaking",  \* requests arrive in another order
           "relaunch"}    \* the process ends while requests are on their way
    /\ {quizMaxQuotes, MaxUsers, MaxQuizzes, MaxQuotes} \subseteq Nat

VARIABLES
    user,    \* QuizController.user
    quiz,    \* QuizController.quiz
    quotes,  \* the values of the dictionary QuizController.quotes
    screen,  \* the screen on top, of those that matter here
    played,  \* the quiz of that screen when it is played
    signIn,  \* whether the completion of the fetch of the user is yet to be called
    last     \* how many objects of each kind were ever created

controllerVars == <<user, quiz, quotes>>
screenVars == <<screen, played>>

vars == <<contextVars, serverVars, controllerVars, screenVars, signIn, last>>

None == 0

\* A reference to an object that no context has: all its attributes read nil.
Detached == -1

Init ==
    /\ ContextInit
    /\ ServerInit
    /\ user = None
    /\ quiz = None
    /\ quotes = {}
    /\ screen = "Home"
    /\ played = None
    /\ signIn = "waiting"
    /\ last = [user |-> 0, quiz |-> 0, quote |-> 0]

SaveOutcomes == IF "save" \in Faults THEN BOOLEAN ELSE {TRUE}

\* What a reference is after a save
Kept(reference, saved) ==
    IF saved \/ reference = None THEN reference ELSE Detached

-----------------------------------------------------------------------------
\* Signing in

\* Mutated form of NewUser: the save is left to the next handler that saves.
NewUserUnsaved(saved) ==
    /\ last.user < MaxUsers
    /\ last' = [last EXCEPT !.user = @ + 1]
    /\ Insert(User(last.user + 1))
    /\ user' = last.user + 1
    /\ UNCHANGED quiz

\* A user is created and saved.  bound: MaxUsers
NewUser(saved) ==
    /\ last.user < MaxUsers
    /\ last' = [last EXCEPT !.user = @ + 1]
    /\ Save({User(last.user + 1)}, saved)
    /\ user' = Kept(last.user + 1, saved)
    /\ quiz' = Kept(quiz, saved)

\* getUserFromCD finds a user in the context, whichever
FindUser ==
    /\ \E u \in 1 .. last.user : User(u) \in context /\ user' = u
    /\ UNCHANGED <<contextVars, quiz, last>>

\* getUserFromCD finds none, or fails
CreateFetchedUser ==
    /\ "fetch" \in Faults \/ \A u \in 1 .. last.user : User(u) \notin context
    /\ \E saved \in SaveOutcomes : NewUser(saved)

\* The server's answer is a user: neither it nor anything below it is read, and
\* nothing is sent.
SignInSucceeds ==
    /\ signIn = "waiting"
    /\ HasUser(server)
    /\ signIn' = "done"
    /\ FindUser \/ CreateFetchedUser
    /\ UNCHANGED <<serverVars, quotes, screenVars>>

\* The fetch fails: a user is created, saved and sent, whether the save succeeds
\* or not, and put at the path of the one before.
SignInFails ==
    /\ signIn # "done"
    /\ "sign-in" \in Faults \/ ~HasUser(server)
    /\ signIn' \in IF signIn = "waiting" /\ "sign-in" \in Faults
                   THEN {"again", "done"} ELSE {"done"}
    /\ \E saved \in SaveOutcomes : NewUser(saved)
    /\ Send(User(last.user + 1))
    /\ UNCHANGED <<quotes, screenVars>>

-----------------------------------------------------------------------------
\* Writing quizzes

\* Mutated form of createEmptyQuiz: a user without attributes is no obstacle.
createEmptyQuizAnyway(creator) ==
    /\ \E saved \in SaveOutcomes :
            /\ Save({Quiz(last.quiz + 1, IF creator = Detached THEN 0 ELSE creator)}, saved)
            /\ quiz' = Kept(last.quiz + 1, saved)
            /\ user' = Kept(user, saved)
    /\ Send(Quiz(last.quiz + 1, IF creator = Detached THEN 0 ELSE creator))

\* The quiz of a creator without an id gets none either, and put then calls back
\* with a failure: the object stays in the context, neither saved nor sent.
createEmptyQuiz(creator) ==
    IF creator = Detached
    THEN /\ Insert(QuizWithoutID(last.quiz + 1))
         /\ quiz' = last.quiz + 1
         /\ UNCHANGED <<user, serverVars>>
    ELSE /\ \E saved \in SaveOutcomes :
                /\ Save({Quiz(last.quiz + 1, creator)}, saved)
                /\ quiz' = Kept(last.quiz + 1, saved)
                /\ user' = Kept(user, saved)
         /\ Send(Quiz(last.quiz + 1, creator))

\* The screen for the quotes opens, whatever createEmptyQuiz did.  bound: MaxQuizzes
StartButtonTapped ==
    /\ screen = "Home"
    /\ user # None
    /\ last.quiz < MaxQuizzes
    /\ last' = [last EXCEPT !.quiz = @ + 1]
    /\ createEmptyQuiz(user)
    /\ screen' = "NewQuote"
    /\ UNCHANGED <<quotes, played, signIn>>

\* Mutated form of HasID: the quiz is there, and that is enough.
IsThere(z) == z # None

\* quiz.id is not nil.
HasID(z) == \E o \in context : o.kind = "quiz" /\ o.id = z

\* Mutated form of CacheHasRoom: one quote too many.
CacheHasRoomForMore == Cardinality(quotes) <= quizMaxQuotes + 1

\* Whichever quiz the cached quotes are of
CacheHasRoom == Cardinality(quotes) < quizMaxQuotes + 1

\* The quote is cached, linked to its quiz, saved and sent; when put cannot be sent
\* for want of a user it stays in the context as it is.  With a full cache, or
\* with a quiz that has no id, nothing happens.  bound: MaxQuotes
CreateQuote ==
    /\ screen = "NewQuote"
    /\ HasID(quiz)
    /\ CacheHasRoom
    /\ last.quote < MaxQuotes
    /\ LET q == last.quote + 1 IN
       /\ last' = [last EXCEPT !.quote = q]
       /\ IF user = Detached
          THEN /\ Insert(Quote(q, quiz))
               /\ UNCHANGED <<controllerVars, serverVars>>
          ELSE /\ \E saved \in SaveOutcomes :
                    /\ Save({Quote(q, quiz), Link(q, quiz)}, saved)
                    /\ user' = Kept(user, saved)
                    /\ quiz' = Kept(quiz, saved)
               /\ quotes' = quotes \cup {q}
               /\ Send(Quote(q, quiz))
    /\ UNCHANGED <<screenVars, signIn>>

-----------------------------------------------------------------------------
\* Playing quizzes, and the other screens

\* The table lists every Quiz object of the context.
Listed == {o \in context : o.kind \in {"quiz", "quizWithoutID"}}

\* Mutated form of getAllQuotesOf: no predicate for any quiz.
getAllQuotes(z) == {o.id : o \in {o \in context : o.kind = "quote"}}

\* The fetch request has a predicate only when the quiz has an id.
getAllQuotesOf(z) ==
    {o.id : o \in {o \in context :
        o.kind = "quote" /\ (z.kind = "quiz" => o.parent = z.id)}}

Play ==
    /\ screen = "Home"
    /\ \E z \in Listed :
          /\ played' = z.id
          /\ \/ quotes' = getAllQuotesOf(z)
             \/ "fetch" \in Faults /\ quotes' = {}
    /\ screen' = "Quote"
    /\ UNCHANGED <<contextVars, serverVars, user, quiz, signIn, last>>

Leave ==
    /\ screen # "Home"
    /\ screen' = "Home"
    /\ played' = None
    /\ UNCHANGED <<contextVars, serverVars, controllerVars, signIn, last>>

\* The process ends and the app is launched again.
Relaunch ==
    /\ "relaunch" \in Faults \/ requests = <<>>
    /\ Reopen
    /\ user' = None
    /\ quiz' = None
    /\ quotes' = {}
    /\ screen' = "Home"
    /\ played' = None
    /\ signIn' = "waiting"
    /\ UNCHANGED <<serverVars, last>>

-----------------------------------------------------------------------------
\* The network

RequestArrives ==
    /\ \E i \in DOMAIN requests :
          /\ "overtaking" \in Faults \/ i = 1
          /\ Arrive(i)
    /\ UNCHANGED <<contextVars, controllerVars, screenVars, signIn, last>>

RequestIsLost ==
    /\ "loss" \in Faults
    /\ \E i \in DOMAIN requests : Lose(i)
    /\ UNCHANGED <<contextVars, controllerVars, screenVars, signIn, last>>

-----------------------------------------------------------------------------
SigningIn == SignInSucceeds \/ SignInFails

UserActs == StartButtonTapped \/ CreateQuote \/ Play \/ Leave

Next == SigningIn \/ UserActs \/ Relaunch \/ RequestArrives \/ RequestIsLost

Spec == Init /\ [][Next]_vars

\* URLSession goes on sending what it was given.
FairSpec == Spec /\ WF_vars(RequestArrives)
=============================================================================
