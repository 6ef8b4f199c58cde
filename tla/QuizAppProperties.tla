-------------------------- MODULE QuizAppProperties --------------------------
(***************************************************************************)
(* What is checked of the app: its type, what writing a quiz and playing   *)
(* one must keep, the abstract round that playing implements, and what the *)
(* comments of the code say of it and the code does not do.                *)
(***************************************************************************)
EXTENDS QuizApp

-----------------------------------------------------------------------------
\* The state.

\* A row of the entity Quote; the data model does not ask for texts that are not
\* empty.
StoredQuote ==
    [quizID : DOMAIN quizQuotes,
     main : AnswerTexts \cup {Blank},
     incorrectOptions : Seq(OptionTexts \cup {Blank})]

\* A dictionary whose keys are 1, 2, ... and whose values are stored quotes
IsCache(dictionary) ==
    /\ count(dictionary) \in Nat
    /\ dictionary \in [1 .. count(dictionary) -> StoredQuoteIDs]

\* Type of every variable; the two caches are numbered without gaps and hold only
\* stored quotes, and the attribute quizID of a quote names a stored quiz.
\* (QuizController.swift:33-34, 198 and QuoteController.swift:91-94 build the
\* keys by counting.)
TypeOK ==
    /\ screen \in Screens
    /\ storedQuotes \in Seq(StoredQuote)
    /\ quizQuotes \in Seq(SUBSET StoredQuoteIDs)
    /\ IsCache(quotes)
    /\ IsCache(fetchedQuotes)
    /\ currentQuote \in Nat
    /\ quiz \in 0 .. Len(quizQuotes)
    /\ form \in Form
    /\ incompleteQuote \in Form
    /\ incorrectOptsArray \in Seq(OptionTexts \cup {Blank})
    /\ buttons \in [prev : BOOLEAN, next : BOOLEAN, done : BOOLEAN]
    /\ selectedQuiz \in 0 .. Len(quizQuotes)
    /\ quote \in StoredQuoteIDs \cup {NoQuote}
    /\ points \in Nat
    /\ DOMAIN answers \subseteq StoredQuoteIDs

-----------------------------------------------------------------------------
\* Writing quizzes.

\* The cursor that writing and playing share never leaves the cache by more than
\* the one quote being written, and never passes the last of a full quiz, in
\* whatever order quizzes are written, abandoned and played
\* (QuizController.swift:71-86, 108-115).
CursorInCache ==
    /\ currentQuote \in 1 .. count(quotes) + 1
    /\ currentQuote <= quizMaxQuotes

\* No quiz gets more than quizMaxQuotes quotes, although the guard of createQuote
\* lets the cache grow by one more (QuizController.swift:190).
QuizNeverOverfull ==
    \A z \in DOMAIN quizQuotes : Cardinality(quizQuotes[z]) <= quizMaxQuotes

\* The quotes the table counts for a quiz, its relationship
\* (QuizzesTableViewController.swift:56), are the ones playing it fetches, by the
\* attribute quizID (QuoteController.swift:84): createQuote sets the two in
\* separate statements (QuizController.swift:192, 199).
ListedIsPlayed ==
    \A z \in DOMAIN quizQuotes : quizQuotes[z] = QuotesOf(z)

\* Every stored quote has a text in all its fields, although Next and Done, once
\* enabled, stay so when fields are emptied, and Prev puts blank drafts aside and
\* Next brings them back; and it has the incorrect options of one form and no
\* earlier one, although they are collected in an array that outlives the form
\* (NewQuoteViewController.swift:60-75, 197-238, 312-315).
StoredQuotesComplete ==
    \A q \in StoredQuoteIDs :
        /\ storedQuotes[q].main # Blank
        /\ Len(storedQuotes[q].incorrectOptions) = 1
        /\ storedQuotes[q].incorrectOptions[1] # Blank

\* When a step of writing goes on as if the quote had been saved (Next past the
\* last quote, or Done), it was: saveQuote returns true without asking createQuote
\* (NewQuoteViewController.swift:203-204), whose guards might refuse.
NoQuoteSilentlyDropped ==
    [][ \/ /\ screen = "NewQuote" /\ screen' = "NewQuote"
           /\ currentQuote = count(quotes) + 1
           /\ currentQuote' = currentQuote + 1
        \/ Finish
        => /\ Len(storedQuotes') = Len(storedQuotes) + 1
           /\ storedQuotes'[Len(storedQuotes')].quizID = quiz
           /\ Len(storedQuotes') \in quizQuotes'[quiz] ]_vars

\* All the quotes in the cache are quotes of the quiz being written.
FreshCache == \A k \in DOMAIN quotes : storedQuotes[quotes[k]].quizID = quiz

\* Prev and Next are enabled when canMoveToPrev and canMoveToNext hold, or a quote is
\* shown or complete, by statements before and after the moves of the cursor.  They
\* go wrong at one quote each: Prev stays disabled on the draft of the second, and
\* Next is enabled on the draft of the last, where it does nothing
\* (NewQuoteViewController.swift:70-74, 127-133, 280-298).
ButtonsMatch ==
    screen = "NewQuote" =>
        /\ buttons.prev => canMoveToPrev(quotes, currentQuote)
        /\ canMoveToPrev(quotes, currentQuote) /\ ~buttons.prev =>
                count(quotes) = 1 /\ currentQuote = 2
        /\ buttons.next /\ ~canMoveToNext(quotes, currentQuote) =>
                count(quotes) = quizMaxQuotes - 1 /\ currentQuote = quizMaxQuotes

\* A quiz whose writer began with an empty cache has, when Done closes it, from
\* quizMinQuotes to quizMaxQuotes quotes, for all the ways Prev, Next and edits
\* enable Done (NewQuoteViewController.swift:63-68, 188, 294).
FreshQuizHasEnough ==
    [][ Finish /\ FreshCache
        => Cardinality(quizQuotes'[quiz]) \in quizMinQuotes .. quizMaxQuotes ]_vars

\* The quotes of all quizzes, as the quizzes list them
Listing ==
    UNION {{[id |-> q, quiz |-> z, row |-> storedQuotes[q]] : q \in quizQuotes[z]} :
                z \in DOMAIN quizQuotes}

Shelf == INSTANCE Library WITH
    None     <- NoQuiz,
    Capacity <- quizMaxQuotes,
    quizzes  <- DOMAIN quizQuotes,
    entries  <- Listing,
    writing  <- IF screen = "NewQuote" THEN quiz ELSE NoQuiz

\* Writing implements the abstract library: whatever the cache, the cursor and the form
\* were left with, a quote is added to the quiz on the screen alone, once, while it
\* has room; and playing, leaving and relaunching change no quiz and no quote
\* (QuizController.swift:163-209, NewQuoteViewController.swift:109-147, 184-205).
WritesALibrary == Shelf!Spec

-----------------------------------------------------------------------------
\* Playing quizzes.

\* From the first quote of a quiz to its result the shared cache holds each quote
\* of that quiz once and nothing else, or, when the fetch failed, nothing
\* (QuizController.swift:91-105).
CacheIsTheQuizPlayed ==
    screen \in {"Quote", "Result"} =>
        \/ quotes = EmptyDictionary
        \/ /\ IsInjective(quotes)
           /\ Range(quotes) = QuotesOf(selectedQuiz)

\* The result has a row for each quote of the cache: the row finds its quote there
\* and its answer in the score, and the points count the correct ones
\* (QuizResultTableViewController.swift:39-50, QuoteResultTableViewCell.swift:33-40).
ResultIsComplete ==
    screen = "Result" =>
        /\ \A row \in 1 .. Cardinality(DOMAIN answers) :
                /\ row \in DOMAIN quotes
                /\ quotes[row] \in DOMAIN answers
        /\ Range(quotes) \subseteq DOMAIN answers
        /\ points = Cardinality({q \in DOMAIN answers : answers[q].isCorrect})

InRound == screen \in {"Quote", "Result"}

Round == INSTANCE QuizRound WITH
    Question <- Nat \ {NoQuote},
    None     <- NoQuote,
    pool     <- IF InRound THEN Range(quotes) ELSE {},
    asked    <- quote,
    answered <- DOMAIN answers,
    right    <- {q \in DOMAIN answers : answers[q].isCorrect},
    score    <- points

\* Playing implements the abstract round: every quote of the quiz asked exactly
\* once, answers final, the score their count (QuoteViewController.swift:53-135).
PlaysARound == Round!Spec

\* A player who goes on answering gets to the result, or leaves.
\* (QuoteViewController.swift:61: the cursor must reach the end of the cache.)
RoundEnds == screen = "Quote" ~> screen # "Quote"

-----------------------------------------------------------------------------
\* The inductive invariant behind the safety properties.

\* While a quiz is written: it is a stored one; the cache holds at least its
\* quotes, and has room for one more unless none of them is its own; and Done is
\* enabled only when one more quote makes a quiz of the allowed size of the cache.
WritingInv ==
    screen = "NewQuote" =>
        /\ quiz \in DOMAIN quizQuotes
        /\ Cardinality(quizQuotes[quiz]) <= count(quotes)
        /\ quizQuotes[quiz] = {} \/ count(quotes) < quizMaxQuotes
        /\ buttons.done => count(quotes) \in quizMinQuotes - 1 .. quizMaxQuotes

\* While a quiz is chosen and played: it is a stored one, and the cache, which
\* writing may have left with one quote too many, is within the limit again.
PlayingInv ==
    /\ screen \in {"Quiz", "Quote", "Result"} => selectedQuiz \in DOMAIN quizQuotes
    /\ screen \in {"Quote", "Result"} => count(quotes) <= quizMaxQuotes

\* The cache holds no quote twice.  With what writing and playing need and the
\* properties below, this is inductive: what a quiz holds bounds the cache while
\* it is played, and the cache bounds what a quiz holds while it is written.
IInv ==
    /\ TypeOK
    /\ CursorInCache
    /\ IsInjective(quotes)
    /\ ListedIsPlayed
    /\ QuizNeverOverfull
    /\ WritingInv
    /\ PlayingInv
    /\ CacheIsTheQuizPlayed

\* The answers of the quiz that is played are those of the quotes before the cursor,
\* and of all quotes once there is no other; no screen but the two of the round keeps
\* any.  With IInv this is inductive.
RoundInv ==
    /\ ~InRound => quote = NoQuote /\ points = 0 /\ answers = EmptyDictionary
    /\ InRound =>
        /\ points = Cardinality({q \in DOMAIN answers : answers[q].isCorrect})
        /\ quote = NoQuote =>
                /\ count(quotes) <= currentQuote
                /\ DOMAIN answers = Range(quotes)
        /\ quote # NoQuote =>
                /\ currentQuote \in DOMAIN quotes
                /\ quote = quotes[currentQuote]
                /\ DOMAIN answers = {quotes[k] : k \in 1 .. currentQuote - 1}
    /\ screen = "Result" => quote = NoQuote

-----------------------------------------------------------------------------
\* What the comments say.

\* QuizController.swift:64, "Check if there's enough quotes to create a quiz": a
\* quiz closed by Done has at least quizMinQuotes quotes.
FinishedQuizHasEnough ==
    [][ Finish => quizMinQuotes <= Cardinality(quizQuotes'[quiz]) ]_vars

\* NewQuoteViewController.swift:122-123, "filling in with the previously (still
\* incomplete) quote": moving back from a saved quote leaves the draft alone.
DraftIsKept ==
    [][ /\ screen = "NewQuote" /\ screen' = "NewQuote"
        /\ currentQuote' < currentQuote
        /\ currentQuote <= count(quotes)
        => incompleteQuote' = incompleteQuote ]_vars
=============================================================================
