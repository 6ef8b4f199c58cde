---------------------------- MODULE LibraryProofs ----------------------------
(***************************************************************************)
(* Proof that writing quizzes implements the abstract library, for all     *)
(* limits, texts and numbers of quizzes.                                   *)
(***************************************************************************)
EXTENDS QuizAppProofs

\* The library counts the quotes of a quiz the way createQuote does.
LEMMA SameCount == \A S : Shelf!Cardinality(S) = Cardinality(S)
    BY DEF Shelf!Cardinality, Cardinality

\* What the quizzes list are stored quotes, and Contents finds them again.
LEMMA ContentsAreListed ==
    ASSUME IInv
    PROVE  /\ \A z \in DOMAIN quizQuotes : Shelf!Contents(z) = quizQuotes[z]
           /\ Shelf!IDs \subseteq StoredQuoteIDs
<1>1. ASSUME NEW z \in DOMAIN quizQuotes
      PROVE  Shelf!Contents(z) = quizQuotes[z]
    <2>1. ASSUME NEW q \in quizQuotes[z]
          PROVE  q \in Shelf!Contents(z)
        <3>1. PICK e : e = [id |-> q, quiz |-> z, row |-> storedQuotes[q]]
            OBVIOUS
        <3>2. e \in Listing /\ e.id = q /\ e.quiz = z
            BY <3>1 DEF Listing
        <3> QED  BY <3>2 DEF Shelf!Contents
    <2>2. \A e \in Listing : e.quiz = z => e.id \in quizQuotes[z]
        BY DEF Listing
    <2>3. Shelf!Contents(z) \subseteq quizQuotes[z]
        BY <2>2 DEF Shelf!Contents
    <2> QED  BY <2>1, <2>3
<1>2. quizQuotes \in Seq(SUBSET StoredQuoteIDs)
    BY DEF IInv, TypeOK
<1>3. \A z \in DOMAIN quizQuotes : quizQuotes[z] \subseteq StoredQuoteIDs
    BY <1>2
<1>4. Shelf!IDs \subseteq StoredQuoteIDs
    BY <1>3 DEF Shelf!IDs, Listing
<1> QED  BY <1>1, <1>4

\* createQuote, called while the cache has room: one quote is added to the quiz on the
\* screen, which had room too, and nothing else changes
\* (QuizController.swift:183-209, NewQuoteViewController.swift:197-238).
LEMMA SavedQuoteIsWritten ==
    ASSUME IInv, IInv', screen = "NewQuote", SaveQuote, count(quotes) <= quizMaxQuotes
    PROVE  Shelf!Write
<1> DEFINE q == Len(storedQuotes) + 1
<1>1. TypeOK /\ StoreInv /\ quiz \in DOMAIN quizQuotes /\ quiz # NoQuiz
    <2>1. quizQuotes \in Seq(SUBSET StoredQuoteIDs)
        BY DEF IInv, TypeOK
    <2>2. quiz \in DOMAIN quizQuotes
        BY DEF IInv, WritingInv
    <2> QED  BY <2>1, <2>2, IInvStore DEF IInv, NoQuiz
<1>2. /\ quizQuotes' = [quizQuotes EXCEPT ![quiz] = @ \cup {q}]
      /\ \E row : storedQuotes' = Append(storedQuotes, row)
    <2>1. count(quotes) < quizMaxQuotes + 1
        BY <1>1, LimitsAssumption DEF StoreInv, IsCache
    <2> QED  BY <1>1, <2>1 DEF SaveQuote, CreateQuote, AddToQuotes
<1>3. /\ quiz' = quiz
      /\ Cardinality(quizQuotes'[quiz]) = Cardinality(quizQuotes[quiz]) + 1
    BY <1>1, QuoteIsSaved
<1>4. /\ q \notin StoredQuoteIDs
      /\ \A i \in StoredQuoteIDs : storedQuotes'[i] = storedQuotes[i]
    BY <1>1, <1>2 DEF StoreInv, StoredQuoteIDs
<1>5. /\ DOMAIN quizQuotes' = DOMAIN quizQuotes
      /\ quizQuotes'[quiz] = quizQuotes[quiz] \cup {q}
      /\ \A z \in DOMAIN quizQuotes \ {quiz} : quizQuotes'[z] = quizQuotes[z]
      /\ \A z \in DOMAIN quizQuotes : quizQuotes[z] \subseteq StoredQuoteIDs
    BY <1>1, <1>2 DEF StoreInv
<1> HIDE DEF q
<1>6. Cardinality(Shelf!Contents(quiz)) < quizMaxQuotes
    <2>1. Cardinality(quizQuotes'[quiz]) <= quizMaxQuotes
        BY <1>1, <1>5 DEF IInv, QuizNeverOverfull
    <2>2. Cardinality(quizQuotes[quiz]) \in Nat
        BY <1>1, QuotesOfFinite DEF StoreInv, ListedIsPlayed
    <2> QED  BY <1>1, <1>3, <2>1, <2>2, ContentsAreListed, LimitsAssumption
<1>7. PICK e : e = [id |-> q, quiz |-> quiz, row |-> storedQuotes'[q]]
    OBVIOUS
<1>8. Listing' = Listing \cup {e}
    <2>1. ASSUME NEW z \in DOMAIN quizQuotes, NEW i \in quizQuotes[z]
          PROVE  i \in quizQuotes'[z] /\ storedQuotes'[i] = storedQuotes[i]
        BY <1>4, <1>5
    <2>2. ASSUME NEW z \in DOMAIN quizQuotes, NEW i \in quizQuotes'[z]
          PROVE  i \in quizQuotes[z] \/ (i = q /\ z = quiz)
        BY <1>5
    <2>3. Listing \subseteq Listing'
        BY <1>5, <2>1 DEF Listing
    <2>4. e \in Listing'
        BY <1>1, <1>5, <1>7 DEF Listing
    <2>5. Listing' \subseteq Listing \cup {e}
        BY <1>5, <1>7, <2>1, <2>2 DEF Listing
    <2> QED  BY <2>3, <2>4, <2>5
<1>9. e.id = q /\ e.quiz = quiz /\ q \notin Shelf!IDs
    BY <1>4, <1>7, ContentsAreListed
<1> QED
    BY <1>1, <1>3, <1>5, <1>6, <1>8, <1>9, SameCount DEF Shelf!Write

\* createEmptyQuiz: a quiz without quotes is the one being written
\* (QuizController.swift:163-180).
LEMMA StartOpens ==
    ASSUME IInv, StartButtonTapped
    PROVE  Shelf!Open
<1>1. quizQuotes \in Seq(SUBSET StoredQuoteIDs)
    BY DEF IInv, TypeOK
<1>2. PICK z : z = Len(quizQuotes) + 1
    OBVIOUS
<1>3. /\ quizQuotes' = Append(quizQuotes, {})
      /\ quiz' = z
      /\ screen = "NewQuiz" /\ screen' = "NewQuote"
      /\ storedQuotes' = storedQuotes
    BY <1>2 DEF StartButtonTapped, CreateEmptyQuiz, quoteControllerVars
<1>4. /\ DOMAIN quizQuotes' = DOMAIN quizQuotes \cup {z}
      /\ z \notin DOMAIN quizQuotes \cup {NoQuiz}
      /\ quizQuotes'[z] = {}
      /\ \A y \in DOMAIN quizQuotes : quizQuotes'[y] = quizQuotes[y]
    BY <1>1, <1>2, <1>3 DEF NoQuiz
<1>5. Listing' = Listing
    BY <1>3, <1>4 DEF Listing
<1> QED
    BY <1>3, <1>4, <1>5 DEF Shelf!Open

\* Every other step leaves Core Data alone, and opens no quiz.
LEMMA OtherStepsWriteNothing ==
    ASSUME [Next]_vars, ~StartButtonTapped, ~Finish, ~(Edit /\ SaveLatestQuote)
    PROVE  /\ UNCHANGED <<quizQuotes, storedQuotes>>
           /\ \/ screen' = screen /\ quiz' = quiz
              \/ screen' # "NewQuote"
<1> USE DEF quizControllerVars, quoteControllerVars
<1>1. CASE Navigate
    BY <1>1 DEF Navigate, Segues, BackButtons
<1>2. CASE Edit
    BY <1>2 DEF Edit, EditQuote, TextFieldEditingChanged, PrevButtonTapped, ReturnToDraft,
                ShowNextQuote
<1>3. CASE LeaveNewQuote \/ SelectQuiz \/ LeaveQuiz \/ LeaveQuote \/ ResultDone
    BY <1>3 DEF LeaveNewQuote, SelectQuiz, LeaveQuiz, LeaveQuote, ResultDone
<1>4. CASE StartQuiz \/ Select
    BY <1>4 DEF StartQuiz, OpenQuoteVC, SetupStart, Select, OptButtonTapped, AnswerQuote,
                TapWithoutQuote, ProcessSelection
<1>5. CASE Relaunch
    BY <1>5 DEF Relaunch
<1>6. CASE UNCHANGED vars
    BY <1>6 DEF vars
<1> QED
    BY <1>1, <1>2, <1>3, <1>4, <1>5, <1>6 DEF Next, Authoring, Playing

\* Writing implements the abstract library: a quote is added to the quiz on the screen
\* alone, once, while it has room, and nothing stored changes
\* (QuizController.swift:163-209, NewQuoteViewController.swift:109-147, 184-205).
THEOREM WritingIsALibrary == Spec => WritesALibrary
<1>1. Init => Shelf!Init
    BY DEF Init, QuizControllerInit, QuoteControllerInit, Listing, Shelf!Init
<1>2. IInv /\ IInv' /\ [Next]_vars => [Shelf!Next]_(Shelf!libraryVars)
    <2> SUFFICES ASSUME IInv, IInv', [Next]_vars
                 PROVE  [Shelf!Next]_(Shelf!libraryVars)
        OBVIOUS
    <2>1. CASE StartButtonTapped
        BY <2>1, StartOpens DEF Shelf!Next
    <2>2. CASE Finish
        <3>1. screen = "NewQuote" /\ SaveQuote /\ count(quotes) <= quizMaxQuotes
            BY <2>2, FinishFindsRoom DEF Finish
        <3> QED  BY <3>1, SavedQuoteIsWritten DEF Shelf!Next
    <2>3. CASE Edit /\ SaveLatestQuote
        <3>1. screen = "NewQuote" /\ SaveQuote /\ count(quotes) <= quizMaxQuotes
            BY <2>3 DEF Edit, SaveLatestQuote, canMoveToNext, quoteCountMax
        <3> QED  BY <3>1, SavedQuoteIsWritten DEF Shelf!Next
    <2>4. CASE ~StartButtonTapped /\ ~Finish /\ ~(Edit /\ SaveLatestQuote)
        <3>1. /\ UNCHANGED <<quizQuotes, storedQuotes>>
              /\ \/ screen' = screen /\ quiz' = quiz
                 \/ screen' # "NewQuote"
            BY <2>4, OtherStepsWriteNothing
        <3>2. DOMAIN quizQuotes' = DOMAIN quizQuotes /\ Listing' = Listing
            BY <3>1 DEF Listing
        <3> QED  BY <3>1, <3>2 DEF Shelf!Next, Shelf!Close, Shelf!libraryVars
    <2> QED  BY <2>1, <2>2, <2>3, <2>4
<1> QED
    BY <1>1, <1>2, Invariance, PTL DEF Spec, WritesALibrary, Shelf!Spec
=============================================================================
