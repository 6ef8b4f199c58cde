--------------------------- MODULE QuizController ---------------------------
(***************************************************************************)
(* QuizController (QuizController.swift): the quiz being written, and the  *)
(* one cache of quotes with its cursor that both halves of the app use,    *)
(* writing a quiz (NewQuote) and playing one (QuizPlay).                   *)
(*                                                                         *)
(* The model begins after sign-in: QuizController.user is set, so the      *)
(* guards on it hold and both put methods call back with success, which    *)
(* they do before the request is sent.  The limits of the code are two     *)
(* constants: the literals 16, 14 and 2 are quizMaxQuotes + 1,             *)
(* quizMaxQuotes - 1 and quizMinQuotes - 1.                                *)
(***************************************************************************)
EXTENDS QuoteController

CONSTANTS
    quizMinQuotes,  \* 3 in the code
    quizMaxQuotes   \* 15 in the code

ASSUME LimitsAssumption ==
    /\ quizMinQuotes \in Nat
    /\ quizMaxQuotes \in Nat
    /\ 1 < quizMinQuotes
    /\ quizMinQuotes <= quizMaxQuotes

VARIABLES
    quotes,        \* QuizController.quotes, the shared cache
    currentQuote,  \* QuizController.currentQuote, the cursor in the cache
    quiz,          \* QuizController.quiz, the quiz being written
    quizQuotes     \* Core Data: quizQuotes[z] is the relationship quotes of quiz z

quizControllerVars == <<quotes, currentQuote, quiz, quizQuotes>>

quoteCountMin == 0
currentQuoteMinIndex == 1
currentQuoteMaxIndex == quizMaxQuotes - 1
quoteCountMax == quizMaxQuotes

-----------------------------------------------------------------------------
\* Mutated form of quizCanBeSaved: the upper limit forgotten.
quizCanBeSavedWithoutMax(cache) == quizMinQuotes <= count(cache)

quizCanBeSaved(cache) ==
    /\ count(cache) <= quizMaxQuotes
    /\ quizMinQuotes <= count(cache)

\* Mutated form of canMoveToNext: an index one too far.
canMoveToNextTooFar(cache, current) ==
    /\ count(cache) <= quoteCountMax
    /\ current <= currentQuoteMaxIndex + 1

canMoveToNext(cache, current) ==
    /\ count(cache) <= quoteCountMax
    /\ current <= currentQuoteMaxIndex

canMoveToPrev(cache, current) ==
    /\ count(cache) # quoteCountMin
    /\ currentQuoteMinIndex < current

moveToNextQuote(cache, current) ==
    IF canMoveToNext(cache, current) THEN current + 1 ELSE current

moveToPrevQuote(cache, current) ==
    IF canMoveToPrev(cache, current) THEN current - 1 ELSE current

-----------------------------------------------------------------------------
\* A new quiz becomes the one being written.  Neither the cache nor the cursor
\* of the quiz before it is reset.
CreateEmptyQuiz ==
    /\ quizQuotes' = Append(quizQuotes, {})
    /\ quiz' = Len(quizQuotes) + 1
    /\ UNCHANGED <<quotes, currentQuote, quoteControllerVars>>

\* Mutated form of AddToQuotes: the call forgotten.
AddToQuotesForgotten(q) == UNCHANGED quizQuotes

\* quiz.addToQuotes(quote)
AddToQuotes(q) == quizQuotes' = [quizQuotes EXCEPT ![quiz] = @ \cup {q}]

\* The quote is inserted, cached under the key after the last, linked to the
\* quiz and saved; with a full cache, or without a quiz, nothing happens and the
\* caller is not told.  main is the pair of quote parts and the answer.
CreateQuote(main, incorrectOptions) ==
    /\ IF quiz # NoQuiz /\ count(quotes) < quizMaxQuotes + 1
       THEN LET q == Len(storedQuotes) + 1 IN
            /\ storedQuotes' = Append(storedQuotes,
                    [quizID |-> quiz, main |-> main,
                     incorrectOptions |-> incorrectOptions])
            /\ quotes' = Assign(quotes, count(quotes) + 1, q)
            /\ AddToQuotes(q)
       ELSE UNCHANGED <<storedQuotes, quotes, quizQuotes>>
    /\ UNCHANGED <<quiz, fetchedQuotes>>

-----------------------------------------------------------------------------
\* Mutated form of resetCounter: the index of the first element of an array.
resetCounterToZero == 0

\* The value of both cursors after resetCounter
resetCounter == 1

\* Mutated form of resetQuotesDictionary: QuoteController's cache kept.
resetQuotesDictionaryForgotten(cache) == cache

\* QuoteController's cache after resetQuotesDictionary
resetQuotesDictionary(cache) == EmptyDictionary

\* Both caches and both cursors are reset and the quotes of quiz z are fetched
\* into them; when the fetch fails the caches stay empty.
SetupStart(z) ==
    LET emptied == resetQuotesDictionary(fetchedQuotes) IN
    /\ \/ \E fetched \in AllQuotesOf(z, emptied, resetCounter) :
            /\ fetchedQuotes' = fetched
            /\ quotes' = fetched
       \/ /\ fetchedQuotes' = emptied
          /\ quotes' = EmptyDictionary
    /\ currentQuote' = resetCounter
    /\ UNCHANGED <<storedQuotes, quiz, quizQuotes>>

\* The cursor after the call and the quote returned.
nextQuoteToDisplay(cache, current) ==
    IF current < count(cache)
    THEN [index |-> current + 1, quote |-> Lookup(cache, current + 1)]
    ELSE [index |-> current, quote |-> NoQuote]

QuizControllerInit ==
    /\ quotes = EmptyDictionary
    /\ currentQuote = 1
    /\ quiz = NoQuiz
    /\ quizQuotes = <<>>
    /\ QuoteControllerInit
=============================================================================
