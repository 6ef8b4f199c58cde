----------------------------- MODULE RoundProofs -----------------------------
(***************************************************************************)
(* Proofs about what the quotes of the app are made of and how a quiz is   *)
(* played: every stored quote is complete, and playing implements the      *)
(* abstract round of QuizRound, up to a result that is complete.           *)
(***************************************************************************)
EXTENDS QuizAppProofs

-----------------------------------------------------------------------------
\* Stored quotes.

\* No options are left over from one form to the next.
OptionsInv ==
    /\ incorrectOptsArray = <<>>
    /\ StoredQuotesComplete

\* createQuote with the options of one form (NewQuoteViewController.swift:197-205)
LEMMA SavedQuoteIsComplete ==
    ASSUME TypeOK, OptionsInv, SaveQuote
    PROVE  StoredQuotesComplete'
<1> DEFINE row == [quizID |-> quiz, main |-> form.main,
                   incorrectOptions |-> Append(<<>>, form.opts)]
<1>1. storedQuotes' = storedQuotes \/ storedQuotes' = Append(storedQuotes, row)
    BY DEF SaveQuote, CreateQuote, OptionsInv
<1>2. /\ row.main # Blank
      /\ Len(row.incorrectOptions) = 1
      /\ row.incorrectOptions[1] # Blank
    BY DEF SaveQuote, isDataComplete
<1> HIDE DEF row
<1>3. storedQuotes \in Seq(StoredQuote)
    BY DEF TypeOK
<1>4. CASE storedQuotes' = Append(storedQuotes, row)
    <2>1. /\ Len(storedQuotes) \in Nat
          /\ Len(storedQuotes') = Len(storedQuotes) + 1
          /\ \A q \in 1 .. Len(storedQuotes) : storedQuotes'[q] = storedQuotes[q]
          /\ storedQuotes'[Len(storedQuotes) + 1] = row
        BY <1>3, <1>4
    <2>2. \A q \in 1 .. Len(storedQuotes') :
              q \in 1 .. Len(storedQuotes) \/ q = Len(storedQuotes) + 1
        BY <2>1
    <2> QED
        BY <1>2, <2>1, <2>2 DEF OptionsInv, StoredQuotesComplete, StoredQuoteIDs
<1>5. CASE storedQuotes' = storedQuotes
    BY <1>5 DEF OptionsInv, StoredQuotesComplete, StoredQuoteIDs
<1> QED  BY <1>1, <1>4, <1>5

LEMMA NextKeepsOptions ==
    ASSUME TypeOK, OptionsInv, [Next]_vars
    PROVE  OptionsInv'
<1>1. CASE UNCHANGED <<storedQuotes, incorrectOptsArray>>
    BY <1>1 DEF OptionsInv, StoredQuotesComplete, StoredQuoteIDs
<1>2. CASE storedQuotes' = storedQuotes /\ incorrectOptsArray' = <<>>
    BY <1>2 DEF OptionsInv, StoredQuotesComplete, StoredQuoteIDs
<1>3. CASE SaveQuote /\ incorrectOptsArray' = <<>>
    BY <1>3, SavedQuoteIsComplete DEF OptionsInv
<1> USE DEF quizControllerVars, quoteControllerVars, newQuoteVars, quizPlayVars, quoteVCVars
<1>4. CASE Edit
    <2>1. ASSUME NEW group, NEW text, TextFieldEditingChanged(group, text)
          PROVE  UNCHANGED <<storedQuotes, incorrectOptsArray>>
        BY <2>1 DEF TextFieldEditingChanged
    <2>2. CASE PrevButtonTapped
        BY <1>1, <2>2 DEF PrevButtonTapped
    <2>3. CASE SaveLatestQuote
        BY <1>3, <2>3 DEF SaveLatestQuote, resetSets
    <2>4. CASE ReturnToDraft
        BY <1>2, <2>4 DEF ReturnToDraft, resetSets
    <2>5. CASE ShowNextQuote
        BY <1>2, <2>5 DEF ShowNextQuote, resetSets
    <2> QED
        BY <1>1, <1>4, <2>1, <2>2, <2>3, <2>4, <2>5 DEF Edit, EditQuote
<1>5. CASE Finish
    BY <1>3, <1>5 DEF Finish, DoneButtonTapped, CloseNewQuote
<1>6. CASE StartButtonTapped
    BY <1>2, <1>6 DEF StartButtonTapped, CreateEmptyQuiz, OpenNewQuote
<1>7. CASE LeaveNewQuote \/ Relaunch
    BY <1>2, <1>7 DEF LeaveNewQuote, Relaunch, CloseNewQuote
<1>8. CASE Playing
    BY <1>1, <1>8 DEF Playing, SelectQuiz, LeaveQuiz, StartQuiz, OpenQuoteVC, SetupStart, Select,
                      OptButtonTapped, AnswerQuote, TapWithoutQuote, ProcessSelection,
                      LeaveQuote, ResultDone
<1>9. CASE Navigate \/ UNCHANGED vars
    BY <1>1, <1>9 DEF Navigate, vars
<1> QED
    BY <1>4, <1>5, <1>6, <1>7, <1>8, <1>9 DEF Next, Authoring

\* Every stored quote has a text in all its fields, and the incorrect options of one
\* form and of no other, whatever was edited while the buttons were enabled
\* (NewQuoteViewController.swift:60-75, 197-238, 312-315).
THEOREM QuotesAreComplete == Spec => []StoredQuotesComplete
<1>1. Init => OptionsInv
    BY DEF Init, NewQuoteInit, NewQuoteClosed, QuizControllerInit, QuoteControllerInit,
           OptionsInv, StoredQuotesComplete, StoredQuoteIDs
<1>2. TypeOK /\ OptionsInv /\ [Next]_vars => OptionsInv'
    BY NextKeepsOptions
<1>3. Spec => []OptionsInv
    BY <1>1, <1>2, TypeCorrect, PTL DEF Spec
<1>4. OptionsInv => StoredQuotesComplete
    BY DEF OptionsInv
<1> QED  BY <1>3, <1>4, PTL

-----------------------------------------------------------------------------
\* Playing a quiz.

Right == {q \in DOMAIN answers : answers[q].isCorrect}

\* What is known of the cache while a quiz is played
LEMMA CacheNumbers ==
    ASSUME IInv
    PROVE  /\ count(quotes) \in Nat
           /\ DOMAIN quotes = 1 .. count(quotes)
           /\ Range(quotes) \subseteq StoredQuoteIDs
           /\ NoQuote \notin Range(quotes)
           /\ \A j, k \in DOMAIN quotes : quotes[j] = quotes[k] => j = k
           /\ currentQuote \in Nat /\ currentQuote >= 1
<1>1. IsCache(quotes) /\ IsInjective(quotes) /\ CursorInCache
    BY DEF IInv, TypeOK
<1>2. NoQuote \notin StoredQuoteIDs
    BY DEF StoredQuoteIDs, NoQuote
<1> QED
    BY <1>1, <1>2 DEF IsCache, IsInjective, CursorInCache, Range

\* The two ways a tap on an option button can end (QuoteViewController.swift:53-67,
\* 108-135, QuizController.swift:108-115): the quote on the screen is answered, the
\* first and only time, and another one is asked unless none is left; or there was
\* no quote, and nothing changes.
LEMMA SelectStep ==
    ASSUME IInv, RoundInv, Select
    PROVE  /\ UNCHANGED <<quotes, storedQuotes>>
           /\ \/ /\ quote # NoQuote /\ quote \notin DOMAIN answers
                 /\ DOMAIN answers' = DOMAIN answers \cup {quote}
                 /\ \/ Right' = Right \cup {quote} /\ points' = points + 1
                    \/ Right' = Right /\ points' = points
                 /\ IF Range(quotes) \ DOMAIN answers' = {}
                    THEN quote' = NoQuote
                    ELSE quote' \in Range(quotes) \ DOMAIN answers'
                 /\ quote' = NoQuote =>
                        count(quotes) <= currentQuote' /\ DOMAIN answers' = Range(quotes)
                 /\ quote' # NoQuote =>
                        /\ currentQuote' \in DOMAIN quotes
                        /\ quote' = quotes[currentQuote']
                        /\ DOMAIN answers' = {quotes[k] : k \in 1 .. currentQuote' - 1}
              \/ /\ quote = NoQuote /\ quote' = NoQuote
                 /\ UNCHANGED <<points, answers, currentQuote>>
<1>0. PICK sel : ProcessSelection(sel)
    BY DEF Select, OptButtonTapped, AnswerQuote, TapWithoutQuote
<1>1. screen = "Quote" /\ UNCHANGED <<quotes, storedQuotes>>
    BY <1>0 DEF Select, ProcessSelection, quoteControllerVars
<1>2. PICK n, c : n = count(quotes) /\ c = currentQuote
    OBVIOUS
<1>3. /\ n \in Nat /\ c \in Nat /\ c >= 1
      /\ DOMAIN quotes = 1 .. n
      /\ \A j, k \in 1 .. n : quotes[j] = quotes[k] => j = k
      /\ Range(quotes) = {quotes[k] : k \in 1 .. n}
      /\ \A k \in 1 .. n : quotes[k] # NoQuote
    BY <1>2, CacheNumbers DEF Range
<1>4. IF c < n
      THEN currentQuote' = c + 1 /\ quote' = quotes[c + 1]
      ELSE currentQuote' = c /\ quote' = NoQuote
    <2>1. c < n => c + 1 \in DOMAIN quotes
        BY <1>3
    <2> QED  BY <1>0, <1>2, <2>1 DEF ProcessSelection, nextQuoteToDisplay, Lookup
<1>5. CASE quote = NoQuote
    <2>1. n <= c
        BY <1>1, <1>2, <1>5 DEF RoundInv, InRound
    <2>2. UNCHANGED <<points, answers>>
        BY <1>0, <1>5 DEF ProcessSelection, UpdateScore
    <2> QED  BY <1>1, <1>2, <1>3, <1>4, <1>5, <2>1, <2>2
<1>6. CASE quote # NoQuote
    <2>1. /\ c \in 1 .. n /\ quote = quotes[c]
          /\ DOMAIN answers = {quotes[k] : k \in 1 .. c - 1}
        BY <1>1, <1>2, <1>3, <1>6 DEF RoundInv, InRound
    <2>2. quote \notin DOMAIN answers
        BY <1>3, <2>1
    <2>3. PICK value : /\ answers' = Assign(answers, quote, value)
                       /\ value.isCorrect \in BOOLEAN
                       /\ points' = IF value.isCorrect THEN points + 1 ELSE points
        <3>1. PICK correct \in BOOLEAN : correct = (sel = storedQuotes[quote].main)
            OBVIOUS
        <3>2. PICK value : value = [selection |-> sel, isCorrect |-> correct]
            OBVIOUS
        <3>3. answers' = Assign(answers, quote, value)
            BY <1>0, <1>6, <3>1, <3>2 DEF ProcessSelection, UpdateScore
        <3>4. points' = IF correct THEN points + 1 ELSE points
            BY <1>0, <1>6, <3>1 DEF ProcessSelection, UpdateScore
        <3> QED  BY <3>2, <3>3, <3>4
    <2>4. DOMAIN answers' = DOMAIN answers \cup {quote}
        BY <2>3 DEF Assign
    <2>5. \/ Right' = Right \cup {quote} /\ points' = points + 1
          \/ Right' = Right /\ points' = points
        <3>1. \A q \in DOMAIN answers : answers'[q] = answers[q]
            BY <2>2, <2>3 DEF Assign
        <3>2. answers'[quote] = value
            BY <2>3 DEF Assign
        <3> QED  BY <2>2, <2>3, <2>4, <3>1, <3>2 DEF Right
    <2>6. DOMAIN answers' = {quotes[k] : k \in 1 .. c}
        <3>1. \A k \in 1 .. c : k \in 1 .. c - 1 \/ k = c
            BY <1>3
        <3>2. c \in 1 .. c /\ 1 .. c - 1 \subseteq 1 .. c
            BY <1>3
        <3> QED  BY <2>1, <2>4, <3>1, <3>2
    <2>7. CASE c < n
        <3>1. c + 1 \in 1 .. n /\ (c + 1) - 1 = c
            BY <1>3, <2>7
        <3>2. currentQuote' = c + 1 /\ quote' = quotes[c + 1]
            BY <1>4, <2>7
        <3>3. quote' \in Range(quotes) /\ quote' # NoQuote
            BY <1>3, <3>1, <3>2
        <3>4. quote' \notin DOMAIN answers'
            <4>1. \A k \in 1 .. c : k \in 1 .. n /\ k # c + 1
                BY <1>3, <2>1
            <4> QED  BY <1>3, <2>6, <3>1, <3>2, <4>1
        <3>5. DOMAIN answers' = {quotes[k] : k \in 1 .. currentQuote' - 1}
            BY <2>6, <3>1, <3>2
        <3> QED
            BY <1>1, <1>3, <1>6, <2>2, <2>4, <2>5, <3>1, <3>2, <3>3, <3>4, <3>5
    <2>8. CASE ~(c < n)
        <3>1. c = n
            BY <1>3, <2>1, <2>8
        <3>2. currentQuote' = c /\ quote' = NoQuote
            BY <1>4, <2>8
        <3>3. DOMAIN answers' = Range(quotes)
            BY <1>3, <2>6, <3>1
        <3>4. count(quotes) <= currentQuote'
            BY <1>2, <1>3, <3>1, <3>2
        <3>5. Range(quotes) \ DOMAIN answers' = {}
            BY <3>3
        <3> QED
            BY <1>1, <1>6, <2>2, <2>4, <2>5, <3>2, <3>3, <3>4, <3>5
    <2> QED  BY <2>7, <2>8
<1> QED  BY <1>5, <1>6

\* viewDidLoad: the first quote of the quiz, if it has any
\* (QuoteViewController.swift:40-51, QuizController.swift:91-105).
LEMMA StartStep ==
    ASSUME IInv', StartQuiz
    PROVE  /\ points' = 0 /\ answers' = EmptyDictionary /\ currentQuote' = 1
           /\ IF Range(quotes') = {} THEN quote' = NoQuote
              ELSE 1 \in DOMAIN quotes' /\ quote' = quotes'[1] /\ quote' # NoQuote
           /\ quote' = NoQuote => count(quotes)' = 0 /\ Range(quotes') = {}
<1>1. /\ points' = 0 /\ answers' = EmptyDictionary /\ currentQuote' = 1
      /\ quote' = Lookup(quotes', 1)
    BY DEF StartQuiz, OpenQuoteVC, SetupStart, resetCounter
<1>2. /\ count(quotes)' \in Nat
      /\ DOMAIN quotes' = 1 .. count(quotes)'
      /\ NoQuote \notin Range(quotes')
    <2>1. IsCache(quotes)'
        BY DEF IInv, TypeOK
    <2>2. NoQuote \notin StoredQuoteIDs'
        BY DEF StoredQuoteIDs, NoQuote
    <2> QED  BY <2>1, <2>2 DEF IsCache, Range
<1>3. CASE count(quotes)' = 0
    <2>1. DOMAIN quotes' = {}
        BY <1>2, <1>3
    <2> QED  BY <1>1, <1>3, <2>1 DEF Lookup, Range
<1>4. CASE count(quotes)' # 0
    <2>1. 1 \in DOMAIN quotes'
        BY <1>2, <1>4
    <2>2. quote' = quotes'[1] /\ quotes'[1] \in Range(quotes')
        BY <1>1, <2>1 DEF Lookup, Range
    <2> QED  BY <1>1, <1>2, <2>1, <2>2
<1> QED  BY <1>3, <1>4

\* The steps that neither start a round nor answer in one: they stay out of it, or
\* leave it, or come back from the result to the last quote.
LEMMA OtherSteps ==
    ASSUME [Next]_vars, ~StartQuiz, ~Select
    PROVE  \/ /\ ~InRound /\ ~InRound'
              /\ UNCHANGED <<quote, points, answers>>
           \/ /\ ~InRound'
              /\ quote' = NoQuote /\ points' = 0 /\ answers' = EmptyDictionary
           \/ /\ InRound /\ InRound'
              /\ screen' = "Quote" \/ screen' = screen
              /\ UNCHANGED <<quote, points, answers, quotes, currentQuote>>
<1> USE DEF quizControllerVars, quoteControllerVars, newQuoteVars, quizPlayVars, quoteVCVars,
            InRound
<1>1. CASE Navigate
    BY <1>1 DEF Navigate, Segues, BackButtons, Screens
<1>2. CASE Authoring
    BY <1>2 DEF Authoring, StartButtonTapped, Edit, Finish, LeaveNewQuote
<1>3. CASE SelectQuiz \/ LeaveQuiz
    BY <1>3 DEF SelectQuiz, LeaveQuiz
<1>4. CASE LeaveQuote \/ ResultDone \/ Relaunch
    BY <1>4 DEF LeaveQuote, ResultDone, Relaunch, CloseQuoteVC
<1>5. CASE UNCHANGED vars
    BY <1>5 DEF vars
<1> QED
    BY <1>1, <1>2, <1>3, <1>4, <1>5 DEF Next, Playing

LEMMA NextKeepsRound ==
    ASSUME IInv, IInv', RoundInv, [Next]_vars
    PROVE  RoundInv'
<1>1. CASE StartQuiz
    <2>1. screen' = "Quote" /\ InRound'
        BY <1>1 DEF StartQuiz, InRound
    <2>2. DOMAIN EmptyDictionary = {}
        BY DEF EmptyDictionary
    <2>3. {q \in DOMAIN answers : answers[q].isCorrect}' = {}
        BY <1>1, <2>2, StartStep
    <2>4. points' = Cardinality({q \in DOMAIN answers : answers[q].isCorrect}')
        BY <1>1, <2>3, StartStep, FS_EmptySet
    <2>5. DOMAIN answers' = {}
        BY <1>1, <2>2, StartStep
    <2>6. quote' = NoQuote =>
              count(quotes)' <= currentQuote' /\ DOMAIN answers' = Range(quotes')
        BY <1>1, <2>5, StartStep
    <2>7. quote' # NoQuote =>
              /\ currentQuote' \in DOMAIN quotes'
              /\ quote' = quotes'[currentQuote']
              /\ DOMAIN answers' = {quotes'[k] : k \in 1 .. currentQuote' - 1}
        <3>1. 1 .. 1 - 1 = {}
            OBVIOUS
        <3> QED  BY <1>1, <2>5, <3>1, StartStep
    <2> QED  BY <2>1, <2>4, <2>6, <2>7 DEF RoundInv
<1>2. CASE Select
    <2>1. screen = "Quote" /\ InRound /\ InRound' /\ (screen' = "Result" => quote' = NoQuote)
        BY <1>2 DEF Select, InRound
    <2>2. count(quotes)' = count(quotes)
        BY <1>2, SelectStep DEF count
    <2>3. points' = Cardinality(Right')
        <3>1. points = Cardinality(Right)
            BY <2>1 DEF RoundInv, Right
        <3>2. CASE UNCHANGED <<points, answers>>
            BY <3>1, <3>2 DEF Right
        <3>3. CASE Right' = Right /\ points' = points
            BY <3>1, <3>3
        <3>4. CASE Right' = Right \cup {quote} /\ points' = points + 1 /\ quote \notin DOMAIN answers
            <4>1. quote \notin Right
                BY <3>4 DEF Right
            <4>2. IsFiniteSet(Right)
                <5>1. Right \in SUBSET StoredQuoteIDs /\ Len(storedQuotes) \in Nat
                    BY DEF Right, IInv, TypeOK
                <5>2. IsFiniteSet(StoredQuoteIDs)
                    BY <5>1, FS_Interval DEF StoredQuoteIDs
                <5> QED  BY <5>1, <5>2, FS_Subset
            <4>3. Cardinality(Right \cup {quote}) = Cardinality(Right) + 1
                BY <4>1, <4>2, FS_AddElement
            <4> QED  BY <3>1, <3>4, <4>3
        <3> QED  BY <1>2, <3>2, <3>3, <3>4, SelectStep
    <2>4. /\ quote' = NoQuote =>
                count(quotes)' <= currentQuote' /\ DOMAIN answers' = Range(quotes')
          /\ quote' # NoQuote =>
                /\ currentQuote' \in DOMAIN quotes'
                /\ quote' = quotes'[currentQuote']
                /\ DOMAIN answers' = {quotes'[k] : k \in 1 .. currentQuote' - 1}
        <3>1. quotes' = quotes
            BY <1>2, SelectStep
        <3>2. CASE quote = NoQuote /\ quote' = NoQuote /\ UNCHANGED <<points, answers, currentQuote>>
            BY <2>1, <2>2, <3>1, <3>2 DEF RoundInv
        <3> QED  BY <1>2, <2>2, <3>1, <3>2, SelectStep
    <2> QED  BY <2>1, <2>3, <2>4 DEF RoundInv, Right
<1>3. CASE ~StartQuiz /\ ~Select
    <2>1. CASE /\ ~InRound /\ ~InRound'
               /\ UNCHANGED <<quote, points, answers>>
        BY <2>1 DEF RoundInv, InRound
    <2>2. CASE /\ ~InRound'
               /\ quote' = NoQuote /\ points' = 0 /\ answers' = EmptyDictionary
        BY <2>2 DEF RoundInv, InRound
    <2>3. CASE /\ InRound /\ InRound'
               /\ screen' = "Quote" \/ screen' = screen
               /\ UNCHANGED <<quote, points, answers, quotes, currentQuote>>
        BY <2>3 DEF RoundInv, count
    <2> QED  BY <1>3, <2>1, <2>2, <2>3, OtherSteps
<1> QED  BY <1>1, <1>2, <1>3

\* Between the quotes of a round the answers are those of the quotes before the
\* cursor and the points count the correct ones (QuoteViewController.swift:53-135).
THEOREM RoundInvariance == Spec => []RoundInv
<1>1. Init => RoundInv
    BY DEF Init, QuizPlayInit, QuoteVCClosed, RoundInv, InRound
<1>2. IInv /\ IInv' /\ RoundInv /\ [Next]_vars => RoundInv'
    BY NextKeepsRound
<1> QED  BY <1>1, <1>2, Invariance, PTL DEF Spec

\* The result has a row for every quote of the quiz, each with its answer, and the
\* points count the correct ones (QuizResultTableViewController.swift:39-50).
THEOREM ResultsAreComplete == Spec => []ResultIsComplete
<1>1. IInv /\ RoundInv => ResultIsComplete
    <2> SUFFICES ASSUME IInv, RoundInv, screen = "Result"
                 PROVE  /\ \A row \in 1 .. Cardinality(DOMAIN answers) :
                               row \in DOMAIN quotes /\ quotes[row] \in DOMAIN answers
                        /\ Range(quotes) \subseteq DOMAIN answers
                        /\ points = Cardinality({q \in DOMAIN answers : answers[q].isCorrect})
        BY DEF ResultIsComplete
    <2>1. /\ DOMAIN answers = Range(quotes)
          /\ points = Cardinality({q \in DOMAIN answers : answers[q].isCorrect})
        BY DEF RoundInv, InRound
    <2>2. PICK n \in Nat : n = count(quotes) /\ DOMAIN quotes = 1 .. n
        BY CacheNumbers
    <2>3. Cardinality(Range(quotes)) <= n /\ Cardinality(Range(quotes)) \in Nat
        <3>1. IsFiniteSet(DOMAIN quotes) /\ Cardinality(DOMAIN quotes) = n
            BY <2>2, FS_Interval
        <3>2. quotes \in Surjection(DOMAIN quotes, Range(quotes))
            <4>1. quotes \in [DOMAIN quotes -> Range(quotes)]
                BY DEF Range, IInv, TypeOK, IsCache
            <4> QED  BY <4>1 DEF Surjection, Range
        <3>3. IsFiniteSet(Range(quotes)) /\ Cardinality(Range(quotes)) <= n
            BY <3>1, <3>2, FS_Surjection
        <3> QED  BY <3>3, FS_CardinalityType
    <2>4. \A row \in 1 .. Cardinality(DOMAIN answers) : row \in DOMAIN quotes
        BY <2>1, <2>2, <2>3
    <2> QED  BY <2>1, <2>4 DEF Range
<1> QED  BY <1>1, Invariance, RoundInvariance, PTL

\* Playing implements the abstract round: each quote of the quiz is asked once, no
\* answer changes, and the score is their count (QuoteViewController.swift:53-135).
THEOREM PlayingIsARound == Spec => PlaysARound
<1>1. Init => Round!Idle
    BY FS_EmptySet DEF Init, QuizPlayInit, QuoteVCClosed, InRound, Round!Idle, EmptyDictionary
<1>2. IInv /\ IInv' /\ RoundInv /\ [Next]_vars => [Round!Next]_(Round!roundVars)
    <2> SUFFICES ASSUME IInv, IInv', RoundInv, [Next]_vars
                 PROVE  [Round!Next]_(Round!roundVars)
        OBVIOUS
    <2>0. DOMAIN EmptyDictionary = {}
        BY DEF EmptyDictionary
    <2>1. CASE StartQuiz
        <3>1. ~InRound /\ InRound'
            BY <2>1 DEF StartQuiz, InRound
        <3>2. quote = NoQuote /\ points = 0 /\ answers = EmptyDictionary
            BY <3>1 DEF RoundInv
        <3>3. Round!Idle
            BY <2>0, <3>1, <3>2 DEF Round!Idle
        <3>4. Range(quotes') \subseteq Nat \ {NoQuote}
            <4>1. IsCache(quotes)'
                BY DEF IInv, TypeOK
            <4>2. StoredQuoteIDs' \subseteq Nat \ {NoQuote}
                BY DEF StoredQuoteIDs, NoQuote
            <4> QED  BY <4>1, <4>2 DEF IsCache, Range
        <3>5. IF Range(quotes') = {} THEN quote' = NoQuote ELSE quote' \in Range(quotes')
            BY <2>1, StartStep DEF Range
        <3>6. points' = 0 /\ answers' = EmptyDictionary
            BY <2>1, StartStep
        <3> QED
            BY <2>0, <3>1, <3>2, <3>3, <3>4, <3>5, <3>6
               DEF Round!Next, Round!Start, Round!AskAnother
    <2>2. CASE Select
        <3>1. InRound /\ InRound' /\ quotes' = quotes
            BY <2>2, SelectStep DEF Select, InRound
        <3>2. CASE quote = NoQuote /\ quote' = NoQuote /\ UNCHANGED <<points, answers>>
            BY <3>1, <3>2 DEF Round!roundVars
        <3>3. CASE /\ quote # NoQuote
                   /\ DOMAIN answers' = DOMAIN answers \cup {quote}
                   /\ \/ Right' = Right \cup {quote} /\ points' = points + 1
                      \/ Right' = Right /\ points' = points
                   /\ IF Range(quotes) \ DOMAIN answers' = {}
                      THEN quote' = NoQuote
                      ELSE quote' \in Range(quotes) \ DOMAIN answers'
            BY <3>1, <3>3 DEF Round!Next, Round!Answer, Round!AskAnother, Right
        <3> QED  BY <2>2, <3>2, <3>3, SelectStep
    <2>3. CASE ~StartQuiz /\ ~Select
        <3>1. CASE /\ ~InRound /\ ~InRound'
                   /\ UNCHANGED <<quote, points, answers>>
            BY <3>1 DEF Round!roundVars
        <3>2. CASE /\ ~InRound'
                   /\ quote' = NoQuote /\ points' = 0 /\ answers' = EmptyDictionary
            BY <2>0, <3>2 DEF Round!Next, Round!Leave, Round!Idle
        <3>3. CASE /\ InRound /\ InRound'
                   /\ UNCHANGED <<quote, points, answers, quotes, currentQuote>>
            BY <3>3 DEF Round!roundVars
        <3> QED  BY <2>3, <3>1, <3>2, <3>3, OtherSteps
    <2> QED  BY <2>1, <2>2, <2>3
<1> QED
    BY <1>1, <1>2, Invariance, RoundInvariance, PTL DEF Spec, PlaysARound, Round!Spec

=============================================================================
