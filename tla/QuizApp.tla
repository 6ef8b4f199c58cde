------------------------------- MODULE QuizApp -------------------------------
(***************************************************************************)
(* Know the Quote, the app after sign-in: one KQController, created with   *)
(* the log-in screen at the bottom of the navigation stack and handed to   *)
(* every screen above it, so that the screens on which quizzes are written *)
(* (NewQuote) and those on which they are played (QuizPlay) share one      *)
(* QuizController and its cache.                                           *)
(*                                                                         *)
(* The storyboards give the stack the shape of a tree: the screen on top   *)
(* tells which lie below it, and every screen but the first has a back     *)
(* button.  All handlers run on the main thread, so a step is a handler.   *)
(***************************************************************************)
EXTENDS NewQuote, QuizPlay

CONSTANT MaxQuizzes  \* bound: how many quizzes are ever created

ASSUME MaxQuizzesAssumption == MaxQuizzes \in Nat

VARIABLE screen  \* the view controller on top of the navigation stack

vars == <<screen, quizControllerVars, quoteControllerVars, newQuoteVars,
          quizPlayVars>>

Screens == {"Login", "Home", "NewQuiz", "NewQuote",
            "Quizzes", "Quiz", "Quote", "Result"}

\* Segues that only show the next screen
Segues == {<<"Login", "Home">>, <<"Home", "NewQuiz">>, <<"Home", "Quizzes">>}

\* Back buttons that leave nothing behind but the screen
BackButtons == {<<"Home", "Login">>, <<"NewQuiz", "Home">>, <<"Quizzes", "Home">>,
                <<"Result", "Quote">>}

Init ==
    /\ screen = "Login"
    /\ QuizControllerInit
    /\ NewQuoteInit
    /\ QuizPlayInit

-----------------------------------------------------------------------------
\* Moving between screens

Navigate ==
    \E next \in Screens :
        /\ <<screen, next>> \in Segues \cup BackButtons
        /\ screen' = next
        /\ UNCHANGED <<quizControllerVars, quoteControllerVars, newQuoteVars,
                       quizPlayVars>>

\* A new quiz is stored, with a title, and the first quote of it asked for.
\* bound: MaxQuizzes
StartButtonTapped ==
    /\ screen = "NewQuiz"
    /\ Len(quizQuotes) < MaxQuizzes
    /\ screen' = "NewQuote"
    /\ CreateEmptyQuiz
    /\ OpenNewQuote
    /\ UNCHANGED quizPlayVars

Edit ==
    /\ screen = "NewQuote"
    /\ EditQuote
    /\ UNCHANGED <<screen, quizPlayVars>>

\* popToRootViewController
Finish ==
    /\ screen = "NewQuote"
    /\ DoneButtonTapped
    /\ screen' = "Login"
    /\ UNCHANGED quizPlayVars

LeaveNewQuote ==
    /\ screen = "NewQuote"
    /\ screen' = "NewQuiz"
    /\ CloseNewQuote
    /\ UNCHANGED <<quizControllerVars, quoteControllerVars, quizPlayVars>>

SelectQuiz ==
    /\ screen = "Quizzes"
    /\ \E z \in DOMAIN quizQuotes : selectedQuiz' = z
    /\ screen' = "Quiz"
    /\ UNCHANGED <<quizControllerVars, quoteControllerVars, newQuoteVars,
                   quoteVCVars>>

LeaveQuiz ==
    /\ screen = "Quiz"
    /\ screen' = "Quizzes"
    /\ selectedQuiz' = NoQuiz
    /\ UNCHANGED <<quizControllerVars, quoteControllerVars, newQuoteVars,
                   quoteVCVars>>

StartQuiz ==
    /\ screen = "Quiz"
    /\ screen' = "Quote"
    /\ OpenQuoteVC
    /\ UNCHANGED <<selectedQuiz, newQuoteVars>>

\* The segue to the result follows the selection that leaves no quote.
Select ==
    /\ screen = "Quote"
    /\ OptButtonTapped
    /\ screen' = IF quote' = NoQuote THEN "Result" ELSE "Quote"
    /\ UNCHANGED newQuoteVars

LeaveQuote ==
    /\ screen = "Quote"
    /\ screen' = "Quiz"
    /\ CloseQuoteVC
    /\ UNCHANGED <<selectedQuiz, quizControllerVars, quoteControllerVars,
                   newQuoteVars>>

\* popToRootViewController
ResultDone ==
    /\ screen = "Result"
    /\ screen' = "Login"
    /\ selectedQuiz' = NoQuiz
    /\ CloseQuoteVC
    /\ UNCHANGED <<quizControllerVars, quoteControllerVars, newQuoteVars>>

\* The process ends at any moment and the app is launched again: Core Data stays.
Relaunch ==
    /\ screen' = "Login"
    /\ quotes' = EmptyDictionary
    /\ currentQuote' = 1
    /\ quiz' = NoQuiz
    /\ fetchedQuotes' = EmptyDictionary
    /\ CloseNewQuote
    /\ selectedQuiz' = NoQuiz
    /\ CloseQuoteVC
    /\ UNCHANGED <<quizQuotes, storedQuotes>>

-----------------------------------------------------------------------------
Authoring == StartButtonTapped \/ Edit \/ Finish \/ LeaveNewQuote

Playing == SelectQuiz \/ LeaveQuiz \/ StartQuiz \/ Select \/ LeaveQuote \/ ResultDone

Next == Navigate \/ Authoring \/ Playing \/ Relaunch

Spec == Init /\ [][Next]_vars

\* A player who goes on tapping an option button
PlayingSpec == Spec /\ WF_vars(Select)
=============================================================================
