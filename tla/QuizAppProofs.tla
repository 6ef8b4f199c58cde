--------------------------- MODULE QuizAppProofs ---------------------------
(***************************************************************************)
(* Proofs of the safety properties of QuizAppProperties, for every value   *)
(* of the constants: IInv is inductive, and the properties follow from it. *)
(***************************************************************************)
EXTENDS QuizAppProperties, FiniteSetTheorems, TLAPS

-----------------------------------------------------------------------------
\* Dictionaries.

\* A dictionary with the keys 1 .. n has n entries (Swift: quotes.count).
LEMMA CountOfNumbered ==
    ASSUME NEW n \in Nat, NEW S, NEW d \in [1 .. n -> S]
    PROVE  count(d) = n
<1>1. DOMAIN d = 1 .. n
    OBVIOUS
<1>2. Cardinality(1 .. n) = n
    BY FS_Interval
<1> QED  BY <1>1, <1>2 DEF count

\* The empty dictionary is numbered from 1, whatever its values would be.
LEMMA EmptyIsNumbered ==
    ASSUME NEW S
    PROVE  EmptyDictionary \in [1 .. 0 -> S] /\ count(EmptyDictionary) = 0
<1>1. EmptyDictionary \in [1 .. 0 -> S]
    BY DEF EmptyDictionary
<1> QED  BY <1>1, CountOfNumbered

-----------------------------------------------------------------------------
\* Fetching.

\* The stored quotes of a quiz are finitely many.
LEMMA QuotesOfFinite ==
    ASSUME TypeOK, NEW z
    PROVE  /\ IsFiniteSet(QuotesOf(z))
           /\ Cardinality(QuotesOf(z)) \in Nat
<1>1. Len(storedQuotes) \in Nat
    BY DEF TypeOK
<1>2. IsFiniteSet(StoredQuoteIDs)
    BY <1>1, FS_Interval DEF StoredQuoteIDs
<1>3. QuotesOf(z) \in SUBSET StoredQuoteIDs
    BY DEF QuotesOf
<1>4. IsFiniteSet(QuotesOf(z))
    BY <1>2, <1>3, FS_Subset
<1> QED  BY <1>4, FS_CardinalityType

\* A fetch into an empty cache numbers the quotes of the quiz from 1 on, each
\* once (QuoteController.swift:78-101).
LEMMA FetchNumbers ==
    ASSUME TypeOK, NEW z, NEW d \in AllQuotesOf(z, EmptyDictionary, 1)
    PROVE  /\ d \in [1 .. Cardinality(QuotesOf(z)) -> StoredQuoteIDs]
           /\ IsInjective(d)
           /\ Range(d) = QuotesOf(z)
           /\ count(d) = Cardinality(QuotesOf(z))
<1> DEFINE n == Cardinality(QuotesOf(z))
<1>1. n \in Nat
    BY QuotesOfFinite
<1> HIDE DEF n
<1>2. PICK order \in Bijection(1 .. n, QuotesOf(z)) :
        LET keys == {1 + i - 1 : i \in DOMAIN order} IN
        d = [k \in DOMAIN EmptyDictionary \cup keys |->
                IF k \in keys THEN order[k - 1 + 1] ELSE EmptyDictionary[k]]
    BY DEF AllQuotesOf, FetchOrders, n
<1>3. /\ order \in [1 .. n -> QuotesOf(z)]
      /\ IsInjective(order)
      /\ \A q \in QuotesOf(z) : \E k \in 1 .. n : order[k] = q
    BY DEF Bijection, Injection, Surjection
<1>4. {1 + i - 1 : i \in DOMAIN order} = 1 .. n
    BY <1>1, <1>3
<1>5. d = [k \in 1 .. n |-> order[k]]
    BY <1>1, <1>2, <1>4 DEF EmptyDictionary
<1>6. d = order
    BY <1>3, <1>5
<1>7. QuotesOf(z) \subseteq StoredQuoteIDs
    BY DEF QuotesOf
<1>8. d \in [1 .. n -> StoredQuoteIDs]
    BY <1>3, <1>6, <1>7
<1>9. Range(d) = QuotesOf(z)
    BY <1>3, <1>6 DEF Range
<1> QED  BY <1>1, <1>3, <1>6, <1>8, <1>9, CountOfNumbered DEF n
-----------------------------------------------------------------------------
\* The store and the caches, apart from the screens.

\* The conjuncts of IInv about stored quotes, stored quizzes and the caches
StoreInv ==
    /\ storedQuotes \in Seq(StoredQuote)
    /\ quizQuotes \in Seq(SUBSET StoredQuoteIDs)
    /\ IsCache(quotes)
    /\ IsCache(fetchedQuotes)
    /\ IsInjective(quotes)
    /\ ListedIsPlayed
    /\ QuizNeverOverfull

LEMMA IInvStore == IInv => StoreInv
BY DEF IInv, StoreInv, TypeOK

\* A step that touches neither Core Data nor the caches keeps what is known of
\* them.
LEMMA StoreUnchanged ==
    ASSUME StoreInv, UNCHANGED <<storedQuotes, quizQuotes, quotes, fetchedQuotes>>
    PROVE  StoreInv' /\ count(quotes)' = count(quotes)
<1> QED
    BY DEF StoreInv, StoredQuote, StoredQuoteIDs, IsCache, count, IsInjective,
           ListedIsPlayed, QuotesOf, QuizNeverOverfull

\* A complete form holds texts that may be stored
\* (NewQuoteViewController.swift:240-251).
LEMMA CompleteFormHasTexts ==
    ASSUME form \in Form, isDataComplete(form)
    PROVE  form.main \in AnswerTexts /\ form.opts \in OptionTexts
BY DEF Form, isDataComplete

\* createQuote, called while there is room in the cache: the quote is stored,
\* cached under the next key and linked to the quiz being written
\* (QuizController.swift:183-209).
LEMMA QuoteIsSaved ==
    ASSUME TypeOK, StoreInv, quiz \in DOMAIN quizQuotes,
           count(quotes) <= quizMaxQuotes, SaveQuote
    PROVE  /\ storedQuotes' \in Seq(StoredQuote)'
           /\ quizQuotes' \in Seq(SUBSET StoredQuoteIDs)'
           /\ IsCache(quotes)'
           /\ IsCache(fetchedQuotes)'
           /\ IsInjective(quotes)'
           /\ ListedIsPlayed'
           /\ count(quotes)' = count(quotes) + 1
           /\ Len(storedQuotes') = Len(storedQuotes) + 1
           /\ storedQuotes'[Len(storedQuotes')].quizID = quiz
           /\ Len(storedQuotes') \in quizQuotes'[quiz]
           /\ Len(quizQuotes') = Len(quizQuotes)
           /\ \A z \in DOMAIN quizQuotes \ {quiz} : quizQuotes'[z] = quizQuotes[z]
           /\ Cardinality(quizQuotes'[quiz]) = Cardinality(quizQuotes[quiz]) + 1
           /\ quiz' = quiz
           /\ fetchedQuotes' = fetchedQuotes
<1> DEFINE q == Len(storedQuotes) + 1
           n == count(quotes)
           row == [quizID |-> quiz, main |-> form.main,
                   incorrectOptions |-> Append(incorrectOptsArray, form.opts)]
<1>1. /\ storedQuotes' = Append(storedQuotes, row)
      /\ quotes' = Assign(quotes, n + 1, q)
      /\ quizQuotes' = [quizQuotes EXCEPT ![quiz] = @ \cup {q}]
      /\ quiz' = quiz
      /\ fetchedQuotes' = fetchedQuotes
    <2>1. quiz # NoQuiz
        BY DEF StoreInv, NoQuiz
    <2>2. count(quotes) < quizMaxQuotes + 1
        BY LimitsAssumption DEF StoreInv, IsCache
    <2> QED  BY <2>1, <2>2 DEF SaveQuote, CreateQuote, AddToQuotes
<1>2. /\ Len(storedQuotes) \in Nat
      /\ q \in Nat
      /\ q \notin StoredQuoteIDs
      /\ n \in Nat
      /\ quotes \in [1 .. n -> StoredQuoteIDs]
    BY DEF StoreInv, IsCache, StoredQuoteIDs
<1>3. row \in StoredQuote
    <2>1. form.main \in AnswerTexts /\ form.opts \in OptionTexts
        BY CompleteFormHasTexts DEF SaveQuote, TypeOK
    <2>2. Append(incorrectOptsArray, form.opts) \in Seq(OptionTexts \cup {Blank})
        BY <2>1 DEF TypeOK
    <2> QED  BY <2>1, <2>2 DEF StoredQuote
<1>4. /\ Len(storedQuotes') = q
      /\ storedQuotes'[q] = row
      /\ \A i \in StoredQuoteIDs : storedQuotes'[i] = storedQuotes[i]
      /\ StoredQuoteIDs' = StoredQuoteIDs \cup {q}
    BY <1>1, <1>2 DEF StoreInv, StoredQuoteIDs
<1>5. /\ Len(quizQuotes') = Len(quizQuotes)
      /\ DOMAIN quizQuotes' = DOMAIN quizQuotes
      /\ quizQuotes'[quiz] = quizQuotes[quiz] \cup {q}
      /\ \A z \in DOMAIN quizQuotes \ {quiz} : quizQuotes'[z] = quizQuotes[z]
      /\ quizQuotes' \in Seq(SUBSET StoredQuoteIDs)'
    BY <1>1, <1>4 DEF StoreInv
<1>6. storedQuotes' \in Seq(StoredQuote)'
    <2>1. StoredQuote' = StoredQuote
        BY <1>5 DEF StoredQuote
    <2> QED  BY <1>1, <1>3, <2>1 DEF StoreInv
<1> HIDE DEF q, n, row
<1>7. /\ quotes' \in [1 .. n + 1 -> StoredQuoteIDs']
      /\ count(quotes)' = n + 1
      /\ \A k \in 1 .. n : quotes'[k] = quotes[k]
      /\ quotes'[n + 1] = q
    <2> DEFINE T == StoredQuoteIDs'
               extended == Assign(quotes, n + 1, q)
    <2>1. quotes \in [1 .. n -> T] /\ q \in T
        BY <1>2, <1>4
    <2> HIDE DEF T
    <2>2. /\ extended \in [1 .. n + 1 -> T]
          /\ \A k \in 1 .. n : extended[k] = quotes[k]
          /\ extended[n + 1] = q
        BY <1>2, <2>1 DEF Assign
    <2> HIDE DEF extended
    <2>5. count(extended) = n + 1
        <3>1. n + 1 \in Nat
            BY <1>2
        <3> QED  BY <2>2, <3>1, CountOfNumbered
    <2>3. quotes' = extended
        BY <1>1 DEF extended
    <2>4. count(quotes)' = count(extended)
        BY <2>3 DEF count
    <2> QED  BY <2>2, <2>3, <2>4, <2>5 DEF T
<1>8. IsCache(quotes)' /\ IsCache(fetchedQuotes)'
    <2>1. IsCache(quotes)'
        BY <1>2, <1>7 DEF IsCache
    <2>2. IsCache(fetchedQuotes)'
        BY <1>1, <1>4 DEF StoreInv, IsCache, count
    <2> QED  BY <2>1, <2>2
<1>9. IsInjective(quotes)'
    <2>1. \A k \in 1 .. n : quotes'[k] # q
        BY <1>2, <1>7
    <2>2. \A j, k \in 1 .. n : quotes[j] = quotes[k] => j = k
        BY <1>2 DEF StoreInv, IsInjective
    <2>3. DOMAIN quotes' = 1 .. n + 1
        BY <1>7
    <2>4. \A k \in 1 .. n + 1 : k \in 1 .. n \/ k = n + 1
        BY <1>2
    <2> QED  BY <1>7, <2>1, <2>2, <2>3, <2>4 DEF IsInjective
<1>10. ListedIsPlayed'
    <2>1. row.quizID = quiz
        BY DEF row
    <2>2. QuotesOf(quiz)' = QuotesOf(quiz) \cup {q}
        BY <1>1, <1>2, <1>4, <2>1 DEF QuotesOf
    <2>3. ASSUME NEW z \in DOMAIN quizQuotes \ {quiz}
          PROVE  quizQuotes'[z] = QuotesOf(z)'
        <3>1. QuotesOf(z)' = QuotesOf(z)
            BY <1>4, <1>2, <2>1 DEF QuotesOf
        <3> QED  BY <1>5, <3>1 DEF StoreInv, ListedIsPlayed
    <2>4. quizQuotes'[quiz] = QuotesOf(quiz)'
        BY <1>1, <1>5, <2>2 DEF StoreInv, ListedIsPlayed
    <2> QED  BY <1>1, <1>5, <2>3, <2>4 DEF ListedIsPlayed
<1>11. Cardinality(quizQuotes'[quiz]) = Cardinality(quizQuotes[quiz]) + 1
    <2>1. quizQuotes[quiz] = QuotesOf(quiz)
        BY DEF StoreInv, ListedIsPlayed
    <2>2. IsFiniteSet(quizQuotes[quiz]) /\ q \notin quizQuotes[quiz]
        BY <1>2, <2>1, QuotesOfFinite DEF QuotesOf
    <2> QED  BY <1>5, <2>2, FS_AddElement
<1> QED
    BY <1>1, <1>4, <1>5, <1>6, <1>7, <1>8, <1>9, <1>10, <1>11 DEF q, n, row
-----------------------------------------------------------------------------
\* The initial state.

LEMMA InitEstablishesIInv == Init => IInv
<1> SUFFICES ASSUME Init PROVE IInv
    OBVIOUS
<1> USE DEF Init, QuizControllerInit, QuoteControllerInit, NewQuoteInit,
            NewQuoteClosed, QuizPlayInit, QuoteVCClosed
<1>1. /\ quotes \in [1 .. 0 -> StoredQuoteIDs] /\ count(quotes) = 0
      /\ fetchedQuotes \in [1 .. 0 -> StoredQuoteIDs] /\ count(fetchedQuotes) = 0
    BY EmptyIsNumbered
<1>2. DOMAIN quotes = {} /\ DOMAIN answers = {}
    BY DEF EmptyDictionary
<1>3. IsCache(quotes) /\ IsCache(fetchedQuotes)
    BY <1>1 DEF IsCache
<1>4. /\ storedQuotes \in Seq(StoredQuote)
      /\ quizQuotes \in Seq(SUBSET StoredQuoteIDs)
      /\ DOMAIN quizQuotes = {}
      /\ Len(quizQuotes) = 0
    OBVIOUS
<1>5. TypeOK
    BY <1>2, <1>3, <1>4
       DEF TypeOK, Screens, Form, BlankForm, NoButtons, NoQuiz, NoQuote
<1>6. CursorInCache
    BY <1>1, LimitsAssumption DEF CursorInCache
<1> QED
    BY <1>2, <1>4, <1>5, <1>6
       DEF IInv, IsInjective, ListedIsPlayed, QuizNeverOverfull, WritingInv,
           PlayingInv, CacheIsTheQuizPlayed

-----------------------------------------------------------------------------
\* The steps that touch neither Core Data nor the caches.

\* What is left to show of such a step: the types of the rest, the cursor, and
\* what depends on the screen.
LEMMA LocalStep ==
    ASSUME IInv, TypeOK', CursorInCache', WritingInv', PlayingInv',
           UNCHANGED <<storedQuotes, quizQuotes, quotes, fetchedQuotes>>,
           CacheIsTheQuizPlayed'
    PROVE  IInv'
BY IInvStore, StoreUnchanged DEF StoreInv, IInv

LEMMA NavigatePreserves == IInv /\ Navigate => IInv'
<1> SUFFICES ASSUME IInv, Navigate PROVE IInv'
    OBVIOUS
<1>1. /\ UNCHANGED <<quizControllerVars, quoteControllerVars, newQuoteVars,
                     quizPlayVars>>
      /\ screen' \in Screens
      /\ screen' # "NewQuote"
      /\ screen' # "Quiz"
      /\ screen' \in {"Quote", "Result"} => screen = "Result"
    BY DEF Navigate, Segues, BackButtons, Screens
<1> USE DEF quizControllerVars, quoteControllerVars, newQuoteVars, quizPlayVars,
            quoteVCVars
<1>2. StoreInv' /\ count(quotes)' = count(quotes)
    BY <1>1, IInvStore, StoreUnchanged
<1>3. TypeOK'
    BY <1>1, <1>2 DEF IInv, TypeOK, StoreInv, StoredQuoteIDs
<1>4. CursorInCache'
    BY <1>1, <1>2 DEF IInv, CursorInCache
<1>5. WritingInv' /\ PlayingInv'
    BY <1>1, <1>2 DEF IInv, WritingInv, PlayingInv
<1>6. CacheIsTheQuizPlayed'
    BY <1>1 DEF IInv, CacheIsTheQuizPlayed, QuotesOf, StoredQuoteIDs
<1> QED
    BY <1>1, <1>3, <1>4, <1>5, <1>6, LocalStep
LEMMA LeaveNewQuotePreserves == IInv /\ LeaveNewQuote => IInv'
<1> SUFFICES ASSUME IInv, LeaveNewQuote PROVE IInv'
    OBVIOUS
<1> USE DEF LeaveNewQuote, quizControllerVars, quoteControllerVars, newQuoteVars,
            quizPlayVars, quoteVCVars
<1>1. StoreInv' /\ count(quotes)' = count(quotes)
    BY IInvStore, StoreUnchanged
<1>2. TypeOK'
    BY <1>1 DEF IInv, TypeOK, StoreInv, StoredQuoteIDs, Screens, CloseNewQuote, Form, BlankForm, NoButtons
<1>3. CursorInCache'
    BY <1>1 DEF IInv, CursorInCache
<1>4. WritingInv' /\ PlayingInv'
    BY <1>1 DEF IInv, WritingInv, PlayingInv
<1>5. CacheIsTheQuizPlayed'
    BY DEF CacheIsTheQuizPlayed
<1> QED
    BY <1>2, <1>3, <1>4, <1>5, LocalStep

LEMMA SelectQuizPreserves == IInv /\ SelectQuiz => IInv'
<1> SUFFICES ASSUME IInv, SelectQuiz PROVE IInv'
    OBVIOUS
<1> USE DEF SelectQuiz, quizControllerVars, quoteControllerVars, newQuoteVars,
            quizPlayVars, quoteVCVars
<1>1. StoreInv' /\ count(quotes)' = count(quotes)
    BY IInvStore, StoreUnchanged
<1>2. TypeOK'
    BY <1>1 DEF IInv, TypeOK, StoreInv, StoredQuoteIDs, Screens
<1>3. CursorInCache'
    BY <1>1 DEF IInv, CursorInCache
<1>4. WritingInv' /\ PlayingInv'
    BY <1>1 DEF IInv, WritingInv, PlayingInv
<1>5. CacheIsTheQuizPlayed'
    BY DEF CacheIsTheQuizPlayed
<1> QED
    BY <1>2, <1>3, <1>4, <1>5, LocalStep

LEMMA LeaveQuizPreserves == IInv /\ LeaveQuiz => IInv'
<1> SUFFICES ASSUME IInv, LeaveQuiz PROVE IInv'
    OBVIOUS
<1> USE DEF LeaveQuiz, quizControllerVars, quoteControllerVars, newQuoteVars,
            quizPlayVars, quoteVCVars
<1>1. StoreInv' /\ count(quotes)' = count(quotes)
    BY IInvStore, StoreUnchanged
<1>2. TypeOK'
    BY <1>1 DEF IInv, TypeOK, StoreInv, StoredQuoteIDs, Screens, NoQuiz
<1>3. CursorInCache'
    BY <1>1 DEF IInv, CursorInCache
<1>4. WritingInv' /\ PlayingInv'
    BY <1>1 DEF IInv, WritingInv, PlayingInv
<1>5. CacheIsTheQuizPlayed'
    BY DEF CacheIsTheQuizPlayed
<1> QED
    BY <1>2, <1>3, <1>4, <1>5, LocalStep

LEMMA LeaveQuotePreserves == IInv /\ LeaveQuote => IInv'
<1> SUFFICES ASSUME IInv, LeaveQuote PROVE IInv'
    OBVIOUS
<1> USE DEF LeaveQuote, quizControllerVars, quoteControllerVars, newQuoteVars,
            quizPlayVars, quoteVCVars
<1>1. StoreInv' /\ count(quotes)' = count(quotes)
    BY IInvStore, StoreUnchanged
<1>2. TypeOK'
    BY <1>1 DEF IInv, TypeOK, StoreInv, StoredQuoteIDs, Screens, CloseQuoteVC, EmptyDictionary, NoQuote
<1>3. CursorInCache'
    BY <1>1 DEF IInv, CursorInCache
<1>4. WritingInv' /\ PlayingInv'
    BY <1>1 DEF IInv, WritingInv, PlayingInv
<1>5. CacheIsTheQuizPlayed'
    BY DEF CacheIsTheQuizPlayed
<1> QED
    BY <1>2, <1>3, <1>4, <1>5, LocalStep

LEMMA ResultDonePreserves == IInv /\ ResultDone => IInv'
<1> SUFFICES ASSUME IInv, ResultDone PROVE IInv'
    OBVIOUS
<1> USE DEF ResultDone, quizControllerVars, quoteControllerVars, newQuoteVars,
            quizPlayVars, quoteVCVars
<1>1. StoreInv' /\ count(quotes)' = count(quotes)
    BY IInvStore, StoreUnchanged
<1>2. TypeOK'
    BY <1>1 DEF IInv, TypeOK, StoreInv, StoredQuoteIDs, Screens, CloseQuoteVC, EmptyDictionary, NoQuote, NoQuiz
<1>3. CursorInCache'
    BY <1>1 DEF IInv, CursorInCache
<1>4. WritingInv' /\ PlayingInv'
    BY <1>1 DEF IInv, WritingInv, PlayingInv
<1>5. CacheIsTheQuizPlayed'
    BY DEF CacheIsTheQuizPlayed
<1> QED
    BY <1>2, <1>3, <1>4, <1>5, LocalStep

-----------------------------------------------------------------------------
\* Writing: the steps within the screen of a new quote.

Buttons == [prev : BOOLEAN, next : BOOLEAN, done : BOOLEAN]

\* updateButtonsViews enables Done only for a quiz of the allowed size
\* (NewQuoteViewController.swift:278-298).
LEMMA ButtonsForCache ==
    ASSUME NEW cache, NEW current, NEW enableNext \in BOOLEAN, count(cache) \in Nat
    PROVE  /\ ButtonsFor(cache, current, enableNext) \in Buttons
           /\ ButtonsFor(cache, current, enableNext).done
                => count(cache) \in quizMinQuotes - 1 .. quizMaxQuotes
<1>1. ButtonsFor(cache, current, enableNext) \in Buttons
    BY DEF ButtonsFor, Buttons, canMoveToPrev, canMoveToNext, quizCanBeSaved
<1>2. ButtonsFor(cache, current, enableNext).done
        => count(cache) \in quizMinQuotes - 1 .. quizMaxQuotes
    BY LimitsAssumption DEF ButtonsFor, quizCanBeSaved
<1> QED  BY <1>1, <1>2

\* What is left to show of a step of the screen that saves nothing.
LEMMA EditStep ==
    ASSUME IInv, screen = "NewQuote",
           UNCHANGED <<screen, quotes, quiz, quizQuotes, quoteControllerVars,
                       quizPlayVars>>,
           form' \in Form, incompleteQuote' \in Form,
           incorrectOptsArray' \in Seq(OptionTexts \cup {Blank}), buttons' \in Buttons,
           CursorInCache',
           buttons'.done => count(quotes) \in quizMinQuotes - 1 .. quizMaxQuotes
    PROVE  IInv'
<1> USE DEF quoteControllerVars, quizPlayVars, quoteVCVars
<1>1. StoreInv' /\ count(quotes)' = count(quotes)
    BY IInvStore, StoreUnchanged
<1>2. TypeOK'
    <2>1. currentQuote' \in Nat
        BY <1>1 DEF CursorInCache, StoreInv, IsCache
    <2> QED
        BY <1>1, <2>1 DEF IInv, TypeOK, StoreInv, StoredQuoteIDs, Buttons
<1>3. WritingInv' /\ PlayingInv'
    BY <1>1 DEF IInv, WritingInv, PlayingInv
<1>4. CacheIsTheQuizPlayed'
    BY DEF CacheIsTheQuizPlayed
<1> QED
    BY <1>2, <1>3, <1>4, LocalStep

\* The cursor stays within the cache when it moves back, and when it moves on from
\* a saved quote (QuizController.swift:71-86).
LEMMA CursorMoves ==
    ASSUME IInv, UNCHANGED quotes,
           \/ currentQuote' = currentQuote
           \/ currentQuote' = moveToPrevQuote(quotes, currentQuote)
           \/ /\ currentQuote # count(quotes) + 1
              /\ currentQuote' = moveToNextQuote(quotes, currentQuote)
    PROVE  CursorInCache'
<1>1. count(quotes)' = count(quotes) /\ count(quotes) \in Nat
    BY DEF IInv, TypeOK, IsCache, count
<1> QED
    BY <1>1, LimitsAssumption
       DEF IInv, CursorInCache, moveToPrevQuote, moveToNextQuote, canMoveToPrev,
           canMoveToNext, currentQuoteMinIndex, currentQuoteMaxIndex

\* Showing a saved quote leaves a form of texts
\* (NewQuoteViewController.swift:156-167).
LEMMA DisplayedForm ==
    ASSUME IInv, screen = "NewQuote", NEW current, DisplayQuoteData(current)
    PROVE  /\ form' \in Form
           /\ buttons' \in Buttons
           /\ buttons'.done => count(quotes) \in quizMinQuotes - 1 .. quizMaxQuotes
<1>1. CASE current \in DOMAIN quotes
    <2>1. quotes[current] \in StoredQuoteIDs
        BY <1>1 DEF IInv, TypeOK, IsCache
    <2>2. storedQuotes[quotes[current]].main \in AnswerTexts \cup {Blank}
        <3>1. storedQuotes[quotes[current]] \in StoredQuote
            BY <2>1 DEF IInv, TypeOK, StoredQuoteIDs
        <3> QED  BY <3>1 DEF StoredQuote
    <2>3. form' \in Form
        BY <1>1, <2>2 DEF DisplayQuoteData, IInv, TypeOK, Form
    <2>4. buttons' = ButtonsFor(quotes, current, TRUE)
        BY <1>1 DEF DisplayQuoteData
    <2>5. count(quotes) \in Nat
        BY DEF IInv, TypeOK, IsCache
    <2> QED  BY <2>3, <2>4, <2>5, ButtonsForCache
<1>2. CASE current \notin DOMAIN quotes
    BY <1>2 DEF DisplayQuoteData, IInv, TypeOK, WritingInv, Buttons
<1> QED  BY <1>1, <1>2

LEMMA TextFieldEditingChangedPreserves ==
    ASSUME IInv, screen = "NewQuote", UNCHANGED <<screen, quizPlayVars>>,
           NEW group \in {"main", "opts"}, NEW text \in TextsOf(group) \cup {Blank},
           TextFieldEditingChanged(group, text)
    PROVE  IInv'
<1>1. form' \in Form
    BY DEF TextFieldEditingChanged, IInv, TypeOK, Form, TextsOf
<1>2. count(quotes) \in Nat
    BY DEF IInv, TypeOK, IsCache
<1>3. buttons' \in Buttons
    BY DEF TextFieldEditingChanged, IInv, TypeOK, Buttons, canMoveToNext, isDataComplete
<1>4. buttons'.done => count(quotes) \in quizMinQuotes - 1 .. quizMaxQuotes
    BY <1>2, LimitsAssumption DEF TextFieldEditingChanged, IInv, TypeOK, WritingInv
<1>5. CursorInCache'
    BY CursorMoves DEF TextFieldEditingChanged, quizControllerVars
<1> QED
    BY <1>1, <1>3, <1>4, <1>5, EditStep
       DEF TextFieldEditingChanged, quizControllerVars, IInv, TypeOK

LEMMA PrevButtonTappedPreserves ==
    ASSUME IInv, screen = "NewQuote", UNCHANGED <<screen, quizPlayVars>>,
           PrevButtonTapped
    PROVE  IInv'
<1>1. CursorInCache'
    BY CursorMoves DEF PrevButtonTapped
<1>2. /\ form' \in Form
      /\ buttons' \in Buttons
      /\ buttons'.done => count(quotes) \in quizMinQuotes - 1 .. quizMaxQuotes
    BY DisplayedForm DEF PrevButtonTapped
<1> QED
    BY <1>1, <1>2, EditStep DEF PrevButtonTapped, IInv, TypeOK

LEMMA ShowNextQuotePreserves ==
    ASSUME IInv, screen = "NewQuote", UNCHANGED <<screen, quizPlayVars>>,
           ShowNextQuote
    PROVE  IInv'
<1>1. CursorInCache'
    BY CursorMoves DEF ShowNextQuote
<1>2. /\ form' \in Form
      /\ buttons' \in Buttons
      /\ buttons'.done => count(quotes) \in quizMinQuotes - 1 .. quizMaxQuotes
    BY DisplayedForm DEF ShowNextQuote
<1> QED
    BY <1>1, <1>2, EditStep DEF ShowNextQuote, resetSets, IInv, TypeOK

LEMMA ReturnToDraftPreserves ==
    ASSUME IInv, screen = "NewQuote", UNCHANGED <<screen, quizPlayVars>>,
           ReturnToDraft
    PROVE  IInv'
<1>1. count(quotes) \in Nat
    BY DEF IInv, TypeOK, IsCache
<1>2. CursorInCache'
    <2>1. currentQuote # count(quotes) + 1
        BY <1>1 DEF ReturnToDraft
    <2> QED  BY <2>1, CursorMoves DEF ReturnToDraft
<1> DEFINE b == ButtonsFor(quotes, currentQuote, FALSE)
<1>3. b \in Buttons /\ (b.done => count(quotes) \in quizMinQuotes - 1 .. quizMaxQuotes)
    BY <1>1, ButtonsForCache
<1>4. buttons' = [b EXCEPT !.next = isDataComplete(form')]
    BY DEF ReturnToDraft
<1> HIDE DEF b
<1>5. buttons' \in Buttons /\ buttons'.done = b.done
    BY <1>3, <1>4 DEF Buttons, isDataComplete
<1>6. form' \in Form /\ incompleteQuote' \in Form
    BY DEF ReturnToDraft, IInv, TypeOK, Form, BlankForm
<1>7. incorrectOptsArray' \in Seq(OptionTexts \cup {Blank})
    BY DEF ReturnToDraft, resetSets
<1> QED
    BY <1>2, <1>3, <1>5, <1>6, <1>7, EditStep DEF ReturnToDraft
-----------------------------------------------------------------------------
\* Writing: the steps that store a quiz or a quote.

\* A new quiz has no quote, and none of the store names it
\* (QuizController.swift:163-180).
LEMMA StartButtonTappedPreserves == IInv /\ StartButtonTapped => IInv'
<1> SUFFICES ASSUME IInv, StartButtonTapped PROVE IInv'
    OBVIOUS
<1> USE DEF StartButtonTapped, CreateEmptyQuiz, OpenNewQuote, quoteControllerVars,
            quizPlayVars, quoteVCVars
<1> DEFINE n == Len(quizQuotes) + 1
<1>1. /\ quizQuotes' \in Seq(SUBSET StoredQuoteIDs)
      /\ DOMAIN quizQuotes' = 1 .. n
      /\ Len(quizQuotes') = n
      /\ quizQuotes'[n] = {}
      /\ \A z \in DOMAIN quizQuotes : quizQuotes'[z] = quizQuotes[z]
      /\ DOMAIN quizQuotes = 1 .. n - 1
      /\ n \in Nat \ {0}
    BY DEF IInv, TypeOK
<1> HIDE DEF n
<1>2. \A z \in 1 .. n : z \in DOMAIN quizQuotes \/ z = n
    BY <1>1
<1>3. StoredQuoteIDs' = StoredQuoteIDs
    BY DEF StoredQuoteIDs
<1>4. storedQuotes' \in Seq(StoredQuote)'
    <2>1. StoredQuote \subseteq StoredQuote'
        BY <1>1, <1>2 DEF StoredQuote
    <2> QED  BY <2>1 DEF IInv, TypeOK
<1>5. IsCache(quotes)' /\ IsCache(fetchedQuotes)' /\ count(quotes)' = count(quotes)
    BY <1>3 DEF IInv, TypeOK, IsCache, count
<1>6. TypeOK'
    <2>1. buttons' \in Buttons
        BY ButtonsForCache DEF IInv, TypeOK, IsCache
    <2>2. quiz' \in 0 .. Len(quizQuotes') /\ selectedQuiz' \in 0 .. Len(quizQuotes')
        BY <1>1 DEF IInv, TypeOK, n
    <2>3. incorrectOptsArray' \in Seq(OptionTexts \cup {Blank})
        OBVIOUS
    <2> QED
        BY <1>1, <1>3, <1>4, <1>5, <2>1, <2>2, <2>3
           DEF IInv, TypeOK, Screens, Form, BlankForm, Buttons
<1>7. CursorInCache'
    BY <1>5 DEF IInv, CursorInCache
<1>8. IsInjective(quotes)'
    BY DEF IInv, IsInjective
<1>9. ListedIsPlayed'
    <2>1. \A z : QuotesOf(z)' = QuotesOf(z)
        BY <1>3 DEF QuotesOf
    <2>2. QuotesOf(n) = {}
        <3>1. \A q \in StoredQuoteIDs : storedQuotes[q] \in StoredQuote
            BY DEF IInv, TypeOK, StoredQuoteIDs
        <3>2. \A q \in StoredQuoteIDs : storedQuotes[q].quizID \in 1 .. n - 1
            BY <1>1, <3>1 DEF StoredQuote
        <3> QED  BY <1>1, <3>2 DEF QuotesOf
    <2> QED
        BY <1>1, <1>2, <2>1, <2>2 DEF IInv, ListedIsPlayed
<1>10. QuizNeverOverfull'
    BY <1>1, <1>2, LimitsAssumption, FS_EmptySet DEF IInv, QuizNeverOverfull
<1>11. WritingInv'
    <2>1. quiz' \in DOMAIN quizQuotes' /\ quizQuotes'[quiz'] = {}
        BY <1>1 DEF n
    <2>2. Cardinality(quizQuotes'[quiz']) <= count(quotes)'
        BY <1>5, <2>1, FS_EmptySet DEF IInv, TypeOK, IsCache
    <2>3. buttons'.done => count(quotes)' \in quizMinQuotes - 1 .. quizMaxQuotes
        BY <1>5, ButtonsForCache DEF IInv, TypeOK, IsCache
    <2> QED  BY <2>1, <2>2, <2>3 DEF WritingInv
<1>12. PlayingInv' /\ CacheIsTheQuizPlayed'
    BY DEF PlayingInv, CacheIsTheQuizPlayed
<1> QED
    BY <1>6, <1>7, <1>8, <1>9, <1>10, <1>11, <1>12 DEF IInv

\* What is left to show of a step that saves the quote in the form: the cursor, and
\* what depends on the screen.  The quiz has room for the quote: it had none, or the
\* cache, which holds all of its quotes, was not full
\* (NewQuoteViewController.swift:188, 197-205; QuizController.swift:71-74).
LEMMA SavingStep ==
    ASSUME IInv, screen = "NewQuote", SaveQuote, count(quotes) <= quizMaxQuotes,
           screen' \in Screens \ {"Quote", "Result", "Quiz"},
           form' = BlankForm, incompleteQuote' \in Form,
           incorrectOptsArray' = <<>>, buttons' \in Buttons, UNCHANGED quizPlayVars,
           CursorInCache',
           screen' = "NewQuote" =>
              /\ count(quotes) + 1 < quizMaxQuotes
              /\ buttons'.done
                    => count(quotes) + 1 \in quizMinQuotes - 1 .. quizMaxQuotes
    PROVE  IInv'
<1> USE DEF quizPlayVars, quoteVCVars
<1>0. TypeOK /\ StoreInv /\ quiz \in DOMAIN quizQuotes
    BY IInvStore DEF IInv, WritingInv
<1>1. /\ storedQuotes' \in Seq(StoredQuote)'
      /\ quizQuotes' \in Seq(SUBSET StoredQuoteIDs)'
      /\ IsCache(quotes)'
      /\ IsCache(fetchedQuotes)'
      /\ IsInjective(quotes)'
      /\ ListedIsPlayed'
    BY <1>0, QuoteIsSaved
<1>2. /\ count(quotes)' = count(quotes) + 1
      /\ Len(storedQuotes') = Len(storedQuotes) + 1
      /\ Len(quizQuotes') = Len(quizQuotes)
      /\ \A z \in DOMAIN quizQuotes \ {quiz} : quizQuotes'[z] = quizQuotes[z]
      /\ Cardinality(quizQuotes'[quiz]) = Cardinality(quizQuotes[quiz]) + 1
      /\ quiz' = quiz
    BY <1>0, QuoteIsSaved
<1>3. DOMAIN quizQuotes' = DOMAIN quizQuotes
    BY <1>0, <1>1, <1>2 DEF StoreInv
<1>4. StoredQuoteIDs \subseteq StoredQuoteIDs'
    BY <1>0, <1>2 DEF StoreInv, StoredQuoteIDs
<1>5. TypeOK'
    <2>1. currentQuote' \in Nat
        BY <1>1 DEF CursorInCache, IsCache
    <2>2. form' \in Form /\ incorrectOptsArray' \in Seq(OptionTexts \cup {Blank})
        BY DEF Form, BlankForm
    <2> QED
        BY <1>0, <1>1, <1>2, <1>4, <2>1, <2>2 DEF TypeOK, Buttons
<1>6. Cardinality(quizQuotes[quiz]) \in Nat
    BY <1>0, QuotesOfFinite DEF StoreInv, ListedIsPlayed
<1>7. QuizNeverOverfull'
    <2>1. Cardinality(quizQuotes[quiz]) + 1 <= quizMaxQuotes
        <3>1. CASE quizQuotes[quiz] = {}
            BY <3>1, FS_EmptySet, LimitsAssumption
        <3>2. CASE count(quotes) < quizMaxQuotes
            <4>1. Cardinality(quizQuotes[quiz]) <= count(quotes)
                BY DEF IInv, WritingInv
            <4> QED  BY <1>0, <1>6, <3>2, <4>1, LimitsAssumption DEF StoreInv, IsCache
        <3> QED  BY <3>1, <3>2 DEF IInv, WritingInv
    <2> QED  BY <1>0, <1>2, <1>3, <2>1 DEF StoreInv, QuizNeverOverfull
<1>8. WritingInv'
    <2> SUFFICES ASSUME screen' = "NewQuote" PROVE WritingInv'
        BY DEF WritingInv
    <2>1. Cardinality(quizQuotes'[quiz']) <= count(quotes)'
        BY <1>0, <1>2, <1>6 DEF IInv, WritingInv, StoreInv, IsCache
    <2> QED  BY <1>0, <1>2, <1>3, <2>1 DEF WritingInv
<1>9. PlayingInv' /\ CacheIsTheQuizPlayed'
    BY DEF PlayingInv, CacheIsTheQuizPlayed
<1> QED
    BY <1>1, <1>5, <1>7, <1>8, <1>9 DEF IInv

LEMMA SaveLatestQuotePreserves ==
    ASSUME IInv, screen = "NewQuote", UNCHANGED <<screen, quizPlayVars>>,
           SaveLatestQuote
    PROVE  IInv'
<1>0. TypeOK /\ StoreInv /\ quiz \in DOMAIN quizQuotes /\ count(quotes) \in Nat
    BY IInvStore DEF IInv, WritingInv, StoreInv, IsCache
<1>1. /\ count(quotes) <= quizMaxQuotes
      /\ currentQuote = count(quotes) + 1
      /\ currentQuote <= quizMaxQuotes - 1
    BY DEF SaveLatestQuote, canMoveToNext, quoteCountMax, currentQuoteMaxIndex
<1>2. SaveQuote
    BY DEF SaveLatestQuote
<1>3. count(quotes)' = count(quotes) + 1
    BY <1>0, <1>1, <1>2, QuoteIsSaved
<1>4. count(quotes') = count(quotes) + 1
    BY <1>3 DEF count
<1>5. CursorInCache'
    BY <1>0, <1>1, <1>3, <1>4, LimitsAssumption
       DEF SaveLatestQuote, CursorInCache, moveToNextQuote, canMoveToNext,
           currentQuoteMaxIndex
<1>6. /\ buttons' \in Buttons
      /\ buttons'.done => count(quotes) + 1 \in quizMinQuotes - 1 .. quizMaxQuotes
    <2>1. count(quotes') \in Nat
        BY <1>0, <1>4
    <2>2. buttons' = ButtonsFor(quotes', currentQuote', FALSE)
        BY DEF SaveLatestQuote
    <2> QED  BY <1>4, <2>1, <2>2, ButtonsForCache
<1>7. count(quotes) + 1 < quizMaxQuotes
    BY <1>0, <1>1, LimitsAssumption
<1> QED
    BY <1>0, <1>1, <1>2, <1>5, <1>6, <1>7, SavingStep
       DEF SaveLatestQuote, resetSets, TypeOK, Screens

\* Done is enabled only while there is room for one more quote.
LEMMA FinishFindsRoom ==
    ASSUME IInv, Finish
    PROVE  /\ count(quotes) \in quizMinQuotes - 1 .. quizMaxQuotes
           /\ count(quotes) <= quizMaxQuotes
           /\ quiz \in DOMAIN quizQuotes
           /\ SaveQuote
<1>1. count(quotes) \in quizMinQuotes - 1 .. quizMaxQuotes
    BY DEF Finish, DoneButtonTapped, IInv, WritingInv
<1> QED
    BY <1>1, LimitsAssumption DEF Finish, DoneButtonTapped, IInv, WritingInv

LEMMA FinishPreserves == IInv /\ Finish => IInv'
<1> SUFFICES ASSUME IInv, Finish PROVE IInv'
    OBVIOUS
<1>0. TypeOK /\ StoreInv /\ count(quotes) \in Nat
    BY IInvStore DEF IInv, StoreInv, IsCache
<1>1. count(quotes) <= quizMaxQuotes /\ quiz \in DOMAIN quizQuotes /\ SaveQuote
    BY FinishFindsRoom
<1>2. count(quotes)' = count(quotes) + 1
    BY <1>0, <1>1, QuoteIsSaved
<1>3. CursorInCache'
    BY <1>0, <1>2 DEF Finish, DoneButtonTapped, IInv, CursorInCache
<1>4. /\ incompleteQuote' \in Form
      /\ buttons' \in Buttons
    BY DEF Finish, DoneButtonTapped, CloseNewQuote, Form, BlankForm, NoButtons, Buttons
<1> QED
    BY <1>1, <1>3, <1>4, SavingStep
       DEF Finish, DoneButtonTapped, CloseNewQuote, Screens

LEMMA EditPreserves == IInv /\ Edit => IInv'
<1> SUFFICES ASSUME IInv, Edit PROVE IInv'
    OBVIOUS
<1>0. screen = "NewQuote" /\ UNCHANGED <<screen, quizPlayVars>>
    BY DEF Edit
<1>1. ASSUME NEW group \in {"main", "opts"}, NEW text \in TextsOf(group) \cup {Blank},
             TextFieldEditingChanged(group, text)
      PROVE  IInv'
    BY <1>0, <1>1, TextFieldEditingChangedPreserves
<1>2. CASE PrevButtonTapped
    BY <1>0, <1>2, PrevButtonTappedPreserves
<1>3. CASE SaveLatestQuote
    BY <1>0, <1>3, SaveLatestQuotePreserves
<1>4. CASE ReturnToDraft
    BY <1>0, <1>4, ReturnToDraftPreserves
<1>5. CASE ShowNextQuote
    BY <1>0, <1>5, ShowNextQuotePreserves
<1> QED
    BY <1>1, <1>2, <1>3, <1>4, <1>5 DEF Edit, EditQuote

-----------------------------------------------------------------------------
\* Playing.

\* setupStart: the cache becomes the quotes of the quiz, or stays empty
\* (QuizController.swift:91-105).
LEMMA StartQuizPreserves == IInv /\ StartQuiz => IInv'
<1> SUFFICES ASSUME IInv, StartQuiz PROVE IInv'
    OBVIOUS
<1> USE DEF newQuoteVars
<1> DEFINE d == quotes'
           n == count(d)
<1>0. /\ selectedQuiz \in DOMAIN quizQuotes
      /\ selectedQuiz' = selectedQuiz
      /\ fetchedQuotes' = d
      /\ UNCHANGED <<storedQuotes, quiz, quizQuotes>>
    BY DEF StartQuiz, OpenQuoteVC, SetupStart, resetQuotesDictionary, IInv,
           PlayingInv
<1>1. StoredQuoteIDs' = StoredQuoteIDs /\ StoredQuote' = StoredQuote
    BY <1>0 DEF StoredQuoteIDs, StoredQuote
<1>2. Cardinality(QuotesOf(selectedQuiz)) \in 0 .. quizMaxQuotes
    <2>1. Cardinality(quizQuotes[selectedQuiz]) <= quizMaxQuotes
        BY <1>0 DEF IInv, QuizNeverOverfull
    <2> QED
        BY <1>0, <2>1, QuotesOfFinite, LimitsAssumption DEF IInv, ListedIsPlayed
<1>3. /\ n \in 0 .. quizMaxQuotes
      /\ d \in [1 .. n -> StoredQuoteIDs]
      /\ IsInjective(d)
      /\ d = EmptyDictionary \/ Range(d) = QuotesOf(selectedQuiz)
    <2>1. CASE d \in AllQuotesOf(selectedQuiz, EmptyDictionary, 1)
        <3>1. /\ d \in [1 .. Cardinality(QuotesOf(selectedQuiz)) -> StoredQuoteIDs]
              /\ IsInjective(d)
              /\ Range(d) = QuotesOf(selectedQuiz)
              /\ count(d) = Cardinality(QuotesOf(selectedQuiz))
            BY <2>1, FetchNumbers DEF IInv
        <3> QED  BY <1>2, <3>1
    <2>2. CASE d = EmptyDictionary
        <3>1. d \in [1 .. 0 -> StoredQuoteIDs] /\ n = 0
            BY <2>2, EmptyIsNumbered
        <3>2. IsInjective(d)
            BY <2>2 DEF IsInjective, EmptyDictionary
        <3> QED  BY <2>2, <3>1, <3>2, LimitsAssumption
    <2> QED
        BY <2>1, <2>2
           DEF StartQuiz, OpenQuoteVC, SetupStart, resetQuotesDictionary,
               resetCounter
<1>4. count(quotes)' = n
    BY DEF count
<1>5. IsCache(quotes)' /\ IsCache(fetchedQuotes)'
    <2>1. count(fetchedQuotes)' = n
        BY <1>0 DEF count
    <2> QED  BY <1>0, <1>1, <1>3, <1>4, <2>1 DEF IsCache
<1>6. quote' \in StoredQuoteIDs \cup {NoQuote}
    <2>1. DOMAIN d = 1 .. n
        BY <1>3
    <2>2. quote' = Lookup(d, currentQuote')
        BY DEF StartQuiz, OpenQuoteVC
    <2> QED  BY <1>3, <2>1, <2>2 DEF Lookup
<1> HIDE DEF d, n
<1>7. TypeOK'
    BY <1>0, <1>1, <1>5, <1>6
       DEF IInv, TypeOK, StartQuiz, OpenQuoteVC, SetupStart, resetCounter, Screens,
           EmptyDictionary
<1>8. CursorInCache'
    BY <1>3, <1>4, LimitsAssumption
       DEF CursorInCache, StartQuiz, OpenQuoteVC, SetupStart, resetCounter
<1>9. IsInjective(quotes)'
    BY <1>3 DEF IsInjective, d
<1>10. ListedIsPlayed' /\ QuizNeverOverfull' /\ (QuotesOf(selectedQuiz)' = QuotesOf(selectedQuiz))
    BY <1>0, <1>1 DEF IInv, ListedIsPlayed, QuizNeverOverfull, QuotesOf
<1>11. WritingInv' /\ PlayingInv'
    BY <1>0, <1>3, <1>4 DEF WritingInv, PlayingInv, StartQuiz
<1>12. CacheIsTheQuizPlayed'
    BY <1>3, <1>10 DEF CacheIsTheQuizPlayed, IsInjective, d, Range
<1> QED
    BY <1>7, <1>8, <1>9, <1>10, <1>11, <1>12 DEF IInv

\* processSelection: the cursor moves only to a quote of the cache
\* (QuoteViewController.swift:53-67, QuizController.swift:108-115).
LEMMA SelectPreserves == IInv /\ Select => IInv'
<1> SUFFICES ASSUME IInv, Select PROVE IInv'
    OBVIOUS
<1> USE DEF newQuoteVars, quoteControllerVars
<1>0. PICK sel : ProcessSelection(sel)
    BY DEF Select, OptButtonTapped, AnswerQuote, TapWithoutQuote
<1>1. UNCHANGED <<storedQuotes, quizQuotes, quotes, fetchedQuotes, selectedQuiz, quiz>>
    BY <1>0 DEF ProcessSelection
<1>2. StoreInv' /\ count(quotes)' = count(quotes) /\ count(quotes) \in Nat
    BY <1>1, IInvStore, StoreUnchanged DEF StoreInv, IsCache
<1>3. /\ currentQuote' \in {currentQuote, currentQuote + 1}
      /\ currentQuote' # currentQuote => currentQuote < count(quotes)
      /\ quote' \in StoredQuoteIDs \cup {NoQuote}
    <2>1. CASE currentQuote < count(quotes)
        <3>1. currentQuote + 1 \in DOMAIN quotes
            BY <1>2, <2>1 DEF IInv, TypeOK, IsCache
        <3>2. Lookup(quotes, currentQuote + 1) \in StoredQuoteIDs
            BY <3>1 DEF Lookup, IInv, TypeOK, IsCache
        <3> QED
            BY <1>0, <2>1, <3>2 DEF ProcessSelection, nextQuoteToDisplay
    <2>2. CASE ~(currentQuote < count(quotes))
        BY <1>0, <2>2 DEF ProcessSelection, nextQuoteToDisplay
    <2> QED  BY <2>1, <2>2
<1>4. CursorInCache'
    <2>1. count(quotes) <= quizMaxQuotes
        BY DEF IInv, PlayingInv, Select
    <2> QED
        BY <1>2, <1>3, <2>1, LimitsAssumption DEF IInv, CursorInCache
<1>5. points' \in Nat /\ DOMAIN answers' \subseteq StoredQuoteIDs
    BY <1>0 DEF ProcessSelection, UpdateScore, Assign, IInv, TypeOK
<1>6. TypeOK'
    <2>1. currentQuote' \in Nat
        BY <1>3 DEF IInv, TypeOK
    <2> QED
        BY <1>1, <1>2, <1>3, <1>5, <2>1
           DEF IInv, TypeOK, StoreInv, StoredQuoteIDs, Select, Screens
<1>7. WritingInv' /\ PlayingInv'
    BY <1>1, <1>2 DEF IInv, WritingInv, PlayingInv, Select
<1>8. CacheIsTheQuizPlayed'
    BY <1>1 DEF IInv, CacheIsTheQuizPlayed, QuotesOf, StoredQuoteIDs, Select
<1> QED
    BY <1>1, <1>4, <1>6, <1>7, <1>8, LocalStep

\* A new process starts with empty caches over the same store.
LEMMA RelaunchPreserves == IInv /\ Relaunch => IInv'
<1> SUFFICES ASSUME IInv, Relaunch PROVE IInv'
    OBVIOUS
<1> USE DEF Relaunch, CloseNewQuote, CloseQuoteVC
<1>1. StoredQuoteIDs' = StoredQuoteIDs /\ StoredQuote' = StoredQuote
    BY DEF StoredQuoteIDs, StoredQuote
<1>2. quotes' \in [1 .. 0 -> StoredQuoteIDs] /\ count(quotes') = 0
    BY EmptyIsNumbered
<1>3. IsCache(quotes)' /\ IsCache(fetchedQuotes)' /\ count(quotes)' = 0
    BY <1>1, <1>2 DEF IsCache, count
<1>4. TypeOK'
    BY <1>1, <1>3
       DEF IInv, TypeOK, Screens, Form, BlankForm, NoButtons, NoQuiz, NoQuote,
           EmptyDictionary
<1>5. CursorInCache'
    BY <1>3, LimitsAssumption DEF CursorInCache
<1>6. IsInjective(quotes)'
    BY DEF IsInjective, EmptyDictionary
<1>7. ListedIsPlayed' /\ QuizNeverOverfull'
    BY <1>1 DEF IInv, ListedIsPlayed, QuizNeverOverfull, QuotesOf
<1>8. WritingInv' /\ PlayingInv' /\ CacheIsTheQuizPlayed'
    BY DEF WritingInv, PlayingInv, CacheIsTheQuizPlayed
<1> QED
    BY <1>4, <1>5, <1>6, <1>7, <1>8 DEF IInv

LEMMA StutterPreserves == IInv /\ UNCHANGED vars => IInv'
<1> SUFFICES ASSUME IInv, UNCHANGED vars PROVE IInv'
    OBVIOUS
<1> USE DEF vars, quizControllerVars, quoteControllerVars, newQuoteVars,
            quizPlayVars, quoteVCVars
<1>1. StoreInv' /\ count(quotes)' = count(quotes)
    BY IInvStore, StoreUnchanged
<1>2. TypeOK'
    BY <1>1 DEF IInv, TypeOK, StoreInv, StoredQuoteIDs
<1>3. CursorInCache' /\ WritingInv' /\ PlayingInv'
    BY <1>1 DEF IInv, CursorInCache, WritingInv, PlayingInv
<1>4. CacheIsTheQuizPlayed'
    BY DEF IInv, CacheIsTheQuizPlayed, QuotesOf, StoredQuoteIDs
<1> QED
    BY <1>2, <1>3, <1>4, LocalStep

-----------------------------------------------------------------------------
\* The theorems.

\* IInv holds in every reachable state of the app, for any limits with
\* 1 < quizMinQuotes <= quizMaxQuotes, any texts and any number of quizzes.
THEOREM Invariance == Spec => []IInv
<1>1. Init => IInv
    BY InitEstablishesIInv
<1>2. IInv /\ [Next]_vars => IInv'
    <2> SUFFICES ASSUME IInv, [Next]_vars PROVE IInv'
        OBVIOUS
    <2>1. CASE Navigate
        BY <2>1, NavigatePreserves
    <2>2. CASE StartButtonTapped
        BY <2>2, StartButtonTappedPreserves
    <2>3. CASE Edit
        BY <2>3, EditPreserves
    <2>4. CASE Finish
        BY <2>4, FinishPreserves
    <2>5. CASE LeaveNewQuote
        BY <2>5, LeaveNewQuotePreserves
    <2>6. CASE SelectQuiz
        BY <2>6, SelectQuizPreserves
    <2>7. CASE LeaveQuiz
        BY <2>7, LeaveQuizPreserves
    <2>8. CASE StartQuiz
        BY <2>8, StartQuizPreserves
    <2>9. CASE Select
        BY <2>9, SelectPreserves
    <2>10. CASE LeaveQuote
        BY <2>10, LeaveQuotePreserves
    <2>11. CASE ResultDone
        BY <2>11, ResultDonePreserves
    <2>12. CASE Relaunch
        BY <2>12, RelaunchPreserves
    <2>13. CASE UNCHANGED vars
        BY <2>13, StutterPreserves
    <2> QED
        BY <2>1, <2>2, <2>3, <2>4, <2>5, <2>6, <2>7, <2>8, <2>9, <2>10, <2>11,
           <2>12, <2>13 DEF Next, Authoring, Playing
<1> QED  BY <1>1, <1>2, PTL DEF Spec

\* Every variable keeps its type, and the two caches are numbered from 1 and hold
\* only stored quotes, through writing, playing and relaunching.
THEOREM TypeCorrect == Spec => []TypeOK
<1>1. IInv => TypeOK
    BY DEF IInv
<1> QED  BY <1>1, Invariance, PTL

\* The cursor that writing and playing share stays within the cache and the limit.
THEOREM CursorStaysInCache == Spec => []CursorInCache
<1>1. IInv => CursorInCache
    BY DEF IInv
<1> QED  BY <1>1, Invariance, PTL

\* No quiz ever has more than quizMaxQuotes quotes, although createQuote would
\* let the cache grow beyond that (QuizController.swift:190).
THEOREM QuizzesNeverOverfull == Spec => []QuizNeverOverfull
<1>1. IInv => QuizNeverOverfull
    BY DEF IInv
<1> QED  BY <1>1, Invariance, PTL

\* The quotes counted in the table of quizzes are the ones playing fetches.
THEOREM ListedQuotesArePlayed == Spec => []ListedIsPlayed
<1>1. IInv => ListedIsPlayed
    BY DEF IInv
<1> QED  BY <1>1, Invariance, PTL

\* While a quiz is played the shared cache holds its quotes, each once, or nothing.
THEOREM PlayedCacheIsTheQuiz == Spec => []CacheIsTheQuizPlayed
<1>1. IInv => CacheIsTheQuizPlayed
    BY DEF IInv
<1> QED  BY <1>1, Invariance, PTL

\* saveQuote is right to report success without asking createQuote: whenever the
\* screen goes on as if the quote had been saved, it was stored, linked to the
\* quiz and marked with its id (NewQuoteViewController.swift:197-205).
THEOREM QuotesAreNeverDropped == Spec => NoQuoteSilentlyDropped
<1> DEFINE Saves ==
        \/ /\ screen = "NewQuote" /\ screen' = "NewQuote"
           /\ currentQuote = count(quotes) + 1
           /\ currentQuote' = currentQuote + 1
        \/ Finish
           Saved ==
        /\ Len(storedQuotes') = Len(storedQuotes) + 1
        /\ storedQuotes'[Len(storedQuotes')].quizID = quiz
        /\ Len(storedQuotes') \in quizQuotes'[quiz]
<1>1. IInv /\ [Next]_vars => [Saves => Saved]_vars
    <2> SUFFICES ASSUME IInv, Next, Saves PROVE Saved
        BY DEF vars
    <2>0. TypeOK /\ StoreInv /\ count(quotes) \in Nat
        BY IInvStore DEF IInv, StoreInv, IsCache
    <2>1. CASE Finish
        BY <2>0, <2>1, FinishFindsRoom, QuoteIsSaved
    <2>2. CASE SaveLatestQuote /\ screen = "NewQuote"
        <3>1. /\ count(quotes) <= quizMaxQuotes
              /\ quiz \in DOMAIN quizQuotes
              /\ SaveQuote
            BY <2>2 DEF SaveLatestQuote, canMoveToNext, quoteCountMax, IInv, WritingInv
        <3> QED  BY <2>0, <3>1, QuoteIsSaved
    <2>3. CASE /\ screen = "NewQuote" /\ screen' = "NewQuote"
               /\ currentQuote = count(quotes) + 1
               /\ currentQuote' = currentQuote + 1
        <3>1. Edit
            BY <2>3 DEF Next, Authoring, Playing, Navigate, Segues, BackButtons,
               StartButtonTapped, Finish, LeaveNewQuote, SelectQuiz, LeaveQuiz,
               StartQuiz, Select, LeaveQuote, ResultDone, Relaunch
        <3>2. SaveLatestQuote
            <4>1. currentQuote' # currentQuote /\ currentQuote # count(quotes)
                BY <2>0, <2>3
            <4>2. ~PrevButtonTapped
                BY <2>0, <2>3 DEF PrevButtonTapped, moveToPrevQuote
            <4>3. ~ReturnToDraft /\ ~ShowNextQuote
                BY <2>3, <4>1 DEF ReturnToDraft, ShowNextQuote
            <4>4. \A group, text : ~TextFieldEditingChanged(group, text)
                BY <4>1 DEF TextFieldEditingChanged, quizControllerVars
            <4> QED  BY <3>1, <4>2, <4>3, <4>4 DEF Edit, EditQuote
        <3> QED  BY <2>2, <2>3, <3>2
    <2> QED  BY <2>1, <2>3
<1>2. Spec => [][Saves => Saved]_vars
    BY <1>1, Invariance, PTL DEF Spec
<1> QED  BY <1>2 DEF NoQuoteSilentlyDropped

\* A quiz begun with an empty cache ends, by Done, with at least quizMinQuotes and
\* at most quizMaxQuotes quotes.
THEOREM FreshQuizzesHaveEnough == Spec => FreshQuizHasEnough
<1> DEFINE Enough == Cardinality(quizQuotes'[quiz]) \in quizMinQuotes .. quizMaxQuotes
<1>1. IInv /\ [Next]_vars => [Finish /\ FreshCache => Enough]_vars
    <2> SUFFICES ASSUME IInv, Finish, FreshCache PROVE Enough
        BY DEF vars
    <2>0. TypeOK /\ StoreInv /\ count(quotes) \in Nat
        BY IInvStore DEF IInv, StoreInv, IsCache
    <2>1. /\ count(quotes) \in quizMinQuotes - 1 .. quizMaxQuotes
          /\ count(quotes) <= quizMaxQuotes
          /\ quiz \in DOMAIN quizQuotes
          /\ SaveQuote
        BY FinishFindsRoom
    <2>2. /\ Cardinality(quizQuotes'[quiz]) = Cardinality(quizQuotes[quiz]) + 1
          /\ quiz' = quiz
          /\ Len(quizQuotes') = Len(quizQuotes)
        BY <2>0, <2>1, QuoteIsSaved
    <2>3. quizQuotes[quiz] = QuotesOf(quiz)
        BY <2>1 DEF IInv, ListedIsPlayed
    <2>4. IsFiniteSet(QuotesOf(quiz)) /\ Cardinality(QuotesOf(quiz)) \in Nat
        BY <2>0, QuotesOfFinite
    <2>5. count(quotes) <= Cardinality(QuotesOf(quiz))
        <3>1. \A k \in DOMAIN quotes : quotes[k] \in QuotesOf(quiz)
            BY <2>0 DEF FreshCache, QuotesOf, StoreInv, IsCache
        <3>2. quotes \in Injection(DOMAIN quotes, QuotesOf(quiz))
            BY <2>0, <3>1 DEF StoreInv, IsCache, Injection
        <3> QED  BY <2>4, <3>2, FS_Injection DEF count
    <2>6. Cardinality(quizQuotes'[quiz]) <= quizMaxQuotes
        <3>1. QuizNeverOverfull'
            BY FinishPreserves DEF IInv
        <3>2. quiz \in DOMAIN quizQuotes'
            <4>1. quizQuotes' \in Seq(SUBSET StoredQuoteIDs)'
                BY <2>0, <2>1, QuoteIsSaved
            <4> QED  BY <2>0, <2>1, <2>2, <4>1 DEF StoreInv
        <3> QED  BY <3>1, <3>2 DEF QuizNeverOverfull
    <2> QED
        BY <2>0, <2>1, <2>2, <2>3, <2>4, <2>5, <2>6, LimitsAssumption
<1>2. Spec => [][Finish /\ FreshCache => Enough]_vars
    BY <1>1, Invariance, PTL DEF Spec
<1> QED  BY <1>2 DEF FreshQuizHasEnough

-----------------------------------------------------------------------------
\* Prev and Next.

\* updateButtonsViews sets the two for the cursor it finds
\* (NewQuoteViewController.swift:278-291).
LEMMA ButtonsForMatch ==
    ASSUME NEW cache, NEW current, NEW enableNext \in BOOLEAN
    PROVE  /\ ButtonsFor(cache, current, enableNext).prev <=> canMoveToPrev(cache, current)
           /\ ButtonsFor(cache, current, enableNext).next
                => enableNext /\ canMoveToNext(cache, current)
BY DEF ButtonsFor

\* Buttons set for the cursor as it is after the step
LEMMA ButtonsSetForCursor ==
    ASSUME NEW enableNext \in BOOLEAN,
           buttons' = ButtonsFor(quotes', currentQuote', enableNext)
    PROVE  ButtonsMatch'
<1>1. /\ buttons'.prev <=> canMoveToPrev(quotes', currentQuote')
      /\ buttons'.next => canMoveToNext(quotes', currentQuote')
    BY ButtonsForMatch
<1> QED  BY <1>1 DEF ButtonsMatch

\* Moving back from a quote, or on to an earlier one, shows a saved quote.
LEMMA ShownQuoteIsSaved ==
    ASSUME IInv, UNCHANGED quotes,
           \/ canMoveToPrev(quotes, currentQuote)
                /\ currentQuote' = moveToPrevQuote(quotes, currentQuote)
           \/ /\ canMoveToNext(quotes, currentQuote)
              /\ currentQuote \notin {count(quotes), count(quotes) + 1}
              /\ currentQuote' = moveToNextQuote(quotes, currentQuote)
    PROVE  currentQuote' \in DOMAIN quotes
<1>1. /\ count(quotes) \in Nat
      /\ DOMAIN quotes = 1 .. count(quotes)
      /\ currentQuote \in 1 .. count(quotes) + 1
    BY DEF IInv, TypeOK, IsCache, CursorInCache
<1> QED
    BY <1>1 DEF moveToPrevQuote, moveToNextQuote, canMoveToPrev, currentQuoteMinIndex

LEMMA CursorIsPositive == IInv => currentQuote >= 1
BY DEF IInv, TypeOK, IsCache, CursorInCache

LEMMA EditKeepsButtons ==
    ASSUME IInv, ButtonsMatch, Edit
    PROVE  ButtonsMatch'
<1>0. /\ count(quotes) \in Nat /\ currentQuote \in Nat
      /\ screen = "NewQuote" /\ screen' = "NewQuote"
    BY DEF IInv, TypeOK, IsCache, Edit
<1>1. ASSUME NEW group, NEW text, TextFieldEditingChanged(group, text)
      PROVE  ButtonsMatch'
    <2>1. quotes' = quotes /\ currentQuote' = currentQuote
        BY <1>1 DEF TextFieldEditingChanged, quizControllerVars
    <2>2. buttons'.prev = buttons.prev
        BY <1>1 DEF TextFieldEditingChanged, IInv, TypeOK
    <2>3. buttons'.next => buttons.next \/ canMoveToNext(quotes, currentQuote)
        BY <1>1 DEF TextFieldEditingChanged, IInv, TypeOK
    <2> QED  BY <1>0, <2>1, <2>2, <2>3 DEF ButtonsMatch
<1>2. ASSUME PrevButtonTapped \/ ShowNextQuote
      PROVE  ButtonsMatch'
    <2>1. quotes' = quotes /\ DisplayQuoteData(currentQuote')
        BY <1>2 DEF PrevButtonTapped, ShowNextQuote
    <2>2. currentQuote' \in DOMAIN quotes
        BY <1>2, <2>1, ShownQuoteIsSaved DEF PrevButtonTapped, ShowNextQuote
    <2>3. buttons' = ButtonsFor(quotes', currentQuote', TRUE)
        BY <2>1, <2>2 DEF DisplayQuoteData
    <2> QED  BY <2>3, ButtonsSetForCursor
<1>3. ASSUME SaveLatestQuote
      PROVE  ButtonsMatch'
    <2>1. buttons' = ButtonsFor(quotes', currentQuote', FALSE)
        BY <1>3 DEF SaveLatestQuote
    <2> QED  BY <2>1, ButtonsSetForCursor
<1>4. ASSUME ReturnToDraft
      PROVE  ButtonsMatch'
    <2> DEFINE b == ButtonsFor(quotes, currentQuote, FALSE)
    <2>1. /\ quotes' = quotes
          /\ canMoveToNext(quotes, currentQuote)
          /\ currentQuote = count(quotes)
          /\ currentQuote' = currentQuote + 1
        BY <1>4 DEF ReturnToDraft, moveToNextQuote
    <2>2. b.prev <=> canMoveToPrev(quotes, currentQuote)
        BY ButtonsForMatch
    <2>3. buttons'.prev = b.prev
        <3>1. buttons' = [b EXCEPT !.next = isDataComplete(form')]
            BY <1>4 DEF ReturnToDraft
        <3>2. b \in Buttons
            BY <1>0, ButtonsForCache
        <3> HIDE DEF b
        <3> QED  BY <3>1, <3>2 DEF Buttons
    <2> HIDE DEF b
    <2>4. canMoveToPrev(quotes', currentQuote')
        BY <1>0, <2>1, CursorIsPositive
           DEF canMoveToPrev, quoteCountMin, currentQuoteMinIndex
    <2>5. canMoveToPrev(quotes, currentQuote) \/ count(quotes) = 1
        BY <1>0, <2>1, CursorIsPositive
           DEF canMoveToPrev, quoteCountMin, currentQuoteMinIndex
    <2>6. ~canMoveToNext(quotes', currentQuote') =>
                count(quotes) = quizMaxQuotes - 1 /\ currentQuote' = quizMaxQuotes
        BY <1>0, <2>1, LimitsAssumption
           DEF canMoveToNext, quoteCountMax, currentQuoteMaxIndex
    <2> QED  BY <1>0, <2>1, <2>2, <2>3, <2>4, <2>5, <2>6 DEF ButtonsMatch
<1> QED  BY <1>1, <1>2, <1>3, <1>4 DEF Edit, EditQuote

\* Prev and Next are wrong on two drafts only, whatever the limits and however the
\* quotes of several quizzes are mixed in the cache
\* (NewQuoteViewController.swift:60-75, 101-142, 266-308).
THEOREM ButtonsStayRight == Spec => []ButtonsMatch
<1>1. Init => ButtonsMatch
    BY DEF Init, ButtonsMatch
<1>2. IInv /\ ButtonsMatch /\ [Next]_vars => ButtonsMatch'
    <2> SUFFICES ASSUME IInv, ButtonsMatch, [Next]_vars PROVE ButtonsMatch'
        OBVIOUS
    <2>1. CASE Edit
        BY <2>1, EditKeepsButtons
    <2>2. CASE StartButtonTapped
        <3>1. buttons' = ButtonsFor(quotes', currentQuote', FALSE)
            BY <2>2 DEF StartButtonTapped, CreateEmptyQuiz, OpenNewQuote
        <3> QED  BY <3>1, ButtonsSetForCursor
    <2>3. CASE UNCHANGED vars
        BY <2>3 DEF vars, quizControllerVars, newQuoteVars, ButtonsMatch, count
    <2>4. CASE screen' # "NewQuote"
        BY <2>4 DEF ButtonsMatch
    <2>5. Next => Edit \/ StartButtonTapped \/ screen' # "NewQuote"
        BY DEF Next, Authoring, Playing, Navigate, Segues, BackButtons, Finish, LeaveNewQuote,
               SelectQuiz, LeaveQuiz, StartQuiz, Select, LeaveQuote, ResultDone, Relaunch
    <2> QED  BY <2>1, <2>2, <2>3, <2>4, <2>5
<1> QED  BY <1>1, <1>2, Invariance, PTL DEF Spec
=============================================================================
