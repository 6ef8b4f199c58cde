------------------------------ MODULE QuizPlay ------------------------------
(***************************************************************************)
(* QuizViewController, QuoteViewController and QuizResultTableViewController*)
(* with Score: playing one quiz, quote after quote, and its result.  The   *)
(* quotes come through the cache of QuizController.                        *)
(*                                                                         *)
(* score.answers, a dictionary keyed by the Quote object, is a function    *)
(* from quotes to SelectedOption values.                                   *)
(***************************************************************************)
EXTENDS QuizController

VARIABLES
    selectedQuiz,  \* the quiz handed from the table to QuizVC and QuoteVC
    quote,         \* QuoteViewController.quote, the quote on the screen
    points,        \* score.points
    answers        \* score.answers

quoteVCVars == <<quote, points, answers>>
quizPlayVars == <<selectedQuiz, quoteVCVars>>

\* The titles of the option buttons: allOptions, the incorrect ones and the
\* answer, in whatever order they are shuffled.
OptionsOf(q) == {storedQuotes[q].main} \cup Range(storedQuotes[q].incorrectOptions)

\* No QuoteViewController exists.
QuoteVCClosed ==
    /\ quote = NoQuote
    /\ points = 0
    /\ answers = EmptyDictionary

CloseQuoteVC ==
    /\ quote' = NoQuote
    /\ points' = 0
    /\ answers' = EmptyDictionary

\* viewDidLoad of a QuoteViewController whose quote is still nil
OpenQuoteVC ==
    /\ SetupStart(selectedQuiz)
    /\ quote' = Lookup(quotes', currentQuote')
    /\ points' = 0
    /\ answers' = EmptyDictionary

-----------------------------------------------------------------------------
\* Mutated form of UpdateScore: every selection earns the point.
UpdateScoreAlways(optSelected) ==
    IF quote # NoQuote
    THEN /\ points' = points + 1
         /\ answers' = Assign(answers, quote,
                [selection |-> optSelected,
                 isCorrect |-> optSelected = storedQuotes[quote].main])
    ELSE UNCHANGED <<points, answers>>

\* The selection is compared with the answer by its text, and recorded.
UpdateScore(optSelected) ==
    IF quote # NoQuote
    THEN LET isCorrect == optSelected = storedQuotes[quote].main IN
         /\ points' = IF isCorrect THEN points + 1 ELSE points
         /\ answers' = Assign(answers, quote,
                [selection |-> optSelected, isCorrect |-> isCorrect])
    ELSE UNCHANGED <<points, answers>>

\* processSelection, without its segue
ProcessSelection(optSelected) ==
    LET next == nextQuoteToDisplay(quotes, currentQuote) IN
    /\ UpdateScore(optSelected)
    /\ currentQuote' = next.index
    /\ quote' = next.quote
    /\ UNCHANGED <<selectedQuiz, quotes, quiz, quizQuotes, quoteControllerVars>>

\* Any of the options of the quote on the screen is tapped.
AnswerQuote ==
    /\ quote # NoQuote
    /\ \E optSelected \in OptionsOf(quote) : ProcessSelection(optSelected)

\* A button is tapped while there is no quote: the quiz has none, or the player
\* came back from the result of a finished one.
TapWithoutQuote ==
    /\ quote = NoQuote
    /\ ProcessSelection(NoQuote)

\* Mutated form of OptButtonTapped: no quote, no selection to process.
OptButtonTappedOnQuoteOnly == AnswerQuote

OptButtonTapped == AnswerQuote \/ TapWithoutQuote

QuizPlayInit ==
    /\ selectedQuiz = NoQuiz
    /\ QuoteVCClosed
=============================================================================
