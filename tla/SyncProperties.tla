--------------------------- MODULE SyncProperties ---------------------------
(***************************************************************************)
(* What is checked of creating users, quizzes and quotes: what the store   *)
(* has is whole, whatever fails; what the server has compared with it; and *)
(* what the comments of the code say and a fault refutes.                  *)
(***************************************************************************)
EXTENDS Sync

UserIDs == 1 .. last.user
QuizIDs == 1 .. last.quiz
QuoteIDs == 1 .. last.quote

\* An object that has been created: its number has been given out.
Created(o) ==
    /\ o \in Object
    /\ o.kind = "user" => o.id \in UserIDs /\ o.parent = 0
    /\ o.kind \in {"quiz", "quizWithoutID"} => o.id \in QuizIDs
    /\ o.kind \in {"quote", "link"} => o.id \in QuoteIDs

\* What is sent and what the server has
SentKinds == {"user", "quiz", "quote"}

\* Type of every variable.
SyncTypeOK ==
    /\ requests \in Seq(Object)
    /\ \A o \in context \cup store \cup server \cup Range(requests) : Created(o)
    /\ \A o \in server \cup Range(requests) : o.kind \in SentKinds
    /\ user \in UserIDs \cup {None, Detached}
    /\ quiz \in QuizIDs \cup {None, Detached}
    /\ quotes \subseteq QuoteIDs
    /\ screen \in {"Home", "NewQuote", "Quote"}
    /\ played \in QuizIDs \cup {None}
    /\ signIn \in {"waiting", "again", "done"}
    /\ last \in [user : Nat, quiz : Nat, quote : Nat]
    /\ saves \in {"succeeded", "failed"}
    /\ delivery \in {"ordered", "overtaken"}

-----------------------------------------------------------------------------
\* Core Data

\* Every quote has the relationship to the quiz that its attribute quizID names,
\* and that quiz; every quiz has the user that its attribute creatorID names.
IsWhole(objects) ==
    \A o \in objects :
        /\ o.kind = "quote" => Link(o.id, o.parent) \in objects
        /\ o.kind = "link" => Quote(o.id, o.parent) \in objects
        /\ o.kind \in {"quote", "link"} =>
                \E z \in objects : z.kind = "quiz" /\ z.id = o.parent
        /\ o.kind = "quiz" => User(o.parent) \in objects

\* In the context, and in the store for the next launch, no quote is without its
\* quiz, in one of the two ways in which it refers to it, and no quiz without its
\* creator, whichever saves fail between creating them, and whatever of it is
\* pending at a reset (QuizController.swift:192-200, CoreDataStack.swift:34-43,
\* Quiz+Convenience.swift:34-47).
StoreIsWhole == IsWhole(context) /\ IsWhole(store)

\* The controllers never have a quiz that can take quotes without a user to send
\* them for: a reset takes both, and createQuote would leave a quote without its
\* quiz in the context (QuizController.swift:183-205, QuoteController.swift:35-38).
QuizHasUser == HasID(quiz) => user \in UserIDs /\ User(user) \in context

NoSaveFailed == saves = "succeeded"

\* As long as no save has failed, playing a quiz asks quotes of that quiz only, and
\* all that the cache has of it are stored (QuoteController.swift:78-96).
PlaysOwnQuotes ==
    NoSaveFailed /\ screen = "Quote" => \A q \in quotes : Quote(q, played) \in store

\* The quiz whose quotes are being written: the one on the screen, unless it has no
\* id or a reset took it.
Written == IF screen = "NewQuote" /\ HasID(quiz) THEN quiz ELSE None

\* The references to the quizzes and the quotes stored
StoredQuizzes == {o.id : o \in {o \in store : o.kind = "quiz"}}

StoredQuotes ==
    {[id |-> o.id, quiz |-> o.parent] : o \in {o \in store : o.kind = "quote"}}

Shelf == INSTANCE Library
    WITH Capacity <- quizMaxQuotes + 1, quizzes <- StoredQuizzes,
         entries <- StoredQuotes, writing <- Written

\* Whatever fails, and whenever the app is launched again, what is stored is a
\* library: a save adds one quote to the quiz being written, as long as that has
\* room, though the cache may have quotes of other quizzes; what another handler
\* left pending is never stored with it; a failed save closes the quiz; and no
\* quiz and no quote that is stored is lost or gets another quiz
\* (QuizController.swift:163-209, CoreDataStack.swift:34-43).
StoreIsALibrary == Shelf!Spec

-----------------------------------------------------------------------------
\* The server

\* As long as no save has failed, what the server has and what is on its way is in
\* the store, with the same parents, although Firebase gets objects of several
\* launches in any order, some of them never, and users of several sign-ins at one
\* path (QuizController.swift:139-145, 170-175).
ServerWithinStore ==
    NoSaveFailed => server \cup Range(requests) \subseteq store

\* The objects of the store that are sent
Sent == {o \in store : o.kind \in SentKinds}

Mirror == INSTANCE Replica WITH primary <- Sent, copy <- server

\* As long as nothing goes wrong the server is a replica of the store: no PUT
\* erases what another one brought, although each replaces a whole subtree, and
\* everything stored gets there (QuizController.swift:120-158, 163-180, 194-205).
Mirrors == Mirror!Spec

\* As long as no request overtakes another, only the PUT of a user takes anything
\* from the server, and then it takes everything else: whichever requests are lost,
\* and however many users, launches and failed saves come in between, no quiz
\* replaces its own quotes and no quote another one
\* (QuizController.swift:127-158, KQController.swift:32-43).
OnlyUsersErase ==
    [][delivery' = "ordered" /\ ~(server \subseteq server')
            => \E u \in UserIDs : server' = {User(u)}]_vars

\* Nothing is on its way.
Settled == requests = <<>>

StoredOf(kind) == {o \in store : o.kind = kind}

-----------------------------------------------------------------------------
\* The inductive invariant behind the safety properties.

\* The context has what the store has, and but for quizzes without an id nothing is
\* pending; a reference is to an object of the context, or to none; what is on the
\* server is only known as long as no save has failed.
StoreInv ==
    /\ SyncTypeOK
    /\ StoreIsWhole
    /\ store \subseteq context
    /\ \A o \in context : o.kind # "quizWithoutID" => o \in store
    /\ user \in UserIDs => User(user) \in context
    /\ quiz \in QuizIDs =>
            /\ user \in UserIDs \/ ~HasID(quiz)
            /\ \E o \in Listed : o.id = quiz
    /\ NoSaveFailed =>
            /\ user # Detached
            /\ \A o \in context : o.kind # "quizWithoutID"
    /\ ServerWithinStore
    /\ PlaysOwnQuotes
    /\ NoSaveFailed \/ "save" \in Faults

\* Request i is at or above nothing that the server has or that a request before it
\* brings.
ReplacesNothing(i) ==
    /\ \A n \in server : ~IsAtOrBelow(n, requests[i])
    /\ \A j \in DOMAIN requests : j < i => ~IsAtOrBelow(requests[j], requests[i])

\* As long as requests arrive in order, those that would replace something are of
\* users: numbers are new when they are sent, and quotes are of quizzes that were.
OnlyUsersReplace ==
    /\ delivery = "ordered" =>
            \A i \in DOMAIN requests : requests[i].kind # "user" => ReplacesNothing(i)
    /\ \A o \in server \cup Range(requests) : o.kind = "quote" => o.parent \in QuizIDs

\* The cache has every quote of the quiz being written, so that it is full before
\* the quiz is.
WrittenIsCached == \A e \in StoredQuotes : e.quiz = Written => e.id \in quotes

\* When nothing goes wrong, but for fetches from Core Data, no request replaces
\* anything; a user is the first to be sent, and only when there is no other, for
\* signing in waits for an answer and a relaunch for the requests.
InOrder ==
    /\ \A i \in DOMAIN requests : ReplacesNothing(i)
    /\ signIn # "again"
    /\ signIn = "waiting" => requests = <<>> /\ user = None
    /\ HasUser(server) \/ server = {}
    /\ ~HasUser(server) /\ requests # <<>> => requests[1].kind = "user"
    /\ user # None => HasUser(server) \/ requests # <<>>

SyncInv ==
    /\ StoreInv
    /\ OnlyUsersReplace
    /\ WrittenIsCached
    /\ Faults \subseteq {"fetch"} => InOrder

-----------------------------------------------------------------------------
\* What the comments say.

\* QuoteController.swift:32, "Save a Quote in Firebase": when every request has
\* arrived, every stored quote is there.
QuotesReachServer == Settled => StoredOf("quote") \subseteq server

\* QuizController.swift:119, "Save Quiz in Firebase": when every request has
\* arrived, every stored quiz is there.
QuizzesReachServer == Settled => StoredOf("quiz") \subseteq server

\* QuoteController.swift:77, "Fetch quotes of a specific quiz from CoreData": a
\* quiz that is played asks no quote of another one.
PlayedQuotesAreOfTheQuiz ==
    screen = "Quote" =>
        \A o \in context : o.kind = "quote" /\ o.id \in quotes => o.parent = played
=============================================================================
