---------------------------- MODULE StoreProofs ----------------------------
(***************************************************************************)
(* Proof that what is stored is an abstract library, for every limit and   *)
(* whichever saves, fetches, sign-ins and requests fail.                   *)
(***************************************************************************)
EXTENDS SyncProofs, FiniteSetTheorems

\* The library counts the quotes of a quiz the way createQuote does those cached.
LEMMA SameCount == \A S : Shelf!Cardinality(S) = Cardinality(S)
BY DEF Shelf!Cardinality, Cardinality

-----------------------------------------------------------------------------
\* What a step does to the store.

\* The quizzes and quotes that are stored were created, and no quote is of no quiz.
LEMMA StoredWereCreated ==
    ASSUME StoreInv
    PROVE  /\ StoredQuizzes \subseteq QuizIDs
           /\ \A e \in StoredQuotes : e.id \in QuoteIDs /\ e.quiz \in QuizIDs
           /\ None \notin QuizIDs /\ Detached \notin QuizIDs
<1>1. \A o \in store : Created(o)
  BY DEF StoreInv, SyncTypeOK
<1>2. StoredQuizzes \subseteq QuizIDs
  BY <1>1 DEF StoredQuizzes, Created
<1>3. ASSUME NEW o \in store, o.kind = "quote"
      PROVE  o.id \in QuoteIDs /\ o.parent \in QuizIDs
  <2>1. PICK z \in store : z.kind = "quiz" /\ z.id = o.parent
    BY <1>3 DEF StoreInv, StoreIsWhole, IsWhole
  <2> QED BY <1>1, <1>3, <2>1 DEF Created
<1>4. \A e \in StoredQuotes : e.id \in QuoteIDs /\ e.quiz \in QuizIDs
  BY <1>3 DEF StoredQuotes
<1>5. None \notin QuizIDs /\ Detached \notin QuizIDs
  BY DEF QuizIDs, None, Detached
<1> QED BY <1>2, <1>4, <1>5

\* A save stores its quizzes and quotes, and no other: nothing else is pending but
\* quizzes without an id.  A failed save stores nothing.
LEMMA SaveStores ==
    ASSUME StoreInv, NEW objects, NEW saved \in SaveOutcomes, Save(objects, saved),
           NEW o, o.kind \in {"quiz", "quote"}
    PROVE  /\ saved => (o \in store' <=> o \in store \cup objects)
           /\ ~saved => (o \in store' <=> o \in store)
<1>1. ASSUME saved
      PROVE  o \in store' <=> o \in store \cup objects
  <2>1. store' = context \cup objects
    BY <1>1 DEF Save
  <2>2. store \subseteq context /\ (o \in context => o \in store)
    BY DEF StoreInv
  <2> QED BY <2>1, <2>2
<1>2. ASSUME ~saved
      PROVE  store' = store
  BY <1>2 DEF Save
<1> QED BY <1>1, <1>2

\* The quizzes, or the quotes, that are stored depend on the objects of their kind.
LEMMA SameQuizzes ==
    ASSUME \A o : o.kind = "quiz" => (o \in store' <=> o \in store)
    PROVE  StoredQuizzes' = StoredQuizzes
<1>1. {o \in store' : o.kind = "quiz"} = {o \in store : o.kind = "quiz"}
  OBVIOUS
<1> QED BY <1>1 DEF StoredQuizzes

LEMMA SameQuotes ==
    ASSUME \A o : o.kind = "quote" => (o \in store' <=> o \in store)
    PROVE  StoredQuotes' = StoredQuotes
<1>1. {o \in store' : o.kind = "quote"} = {o \in store : o.kind = "quote"}
  OBVIOUS
<1> QED BY <1>1 DEF StoredQuotes

\* A quiz with an id was created; an object of no context has none.
LEMMA QuizWithIDWasCreated ==
    ASSUME StoreInv
    PROVE  \A z : HasID(z) => z \in QuizIDs /\ z # None /\ z # Detached
<1>1. ASSUME NEW z, HasID(z)
      PROVE  z \in QuizIDs
  <2>1. PICK o \in context : o.kind = "quiz" /\ o.id = z
    BY <1>1 DEF HasID
  <2> QED BY <2>1 DEF StoreInv, SyncTypeOK, Created
<1> QED BY <1>1, StoredWereCreated

\* Neither the quizzes nor the quotes stored change, and the quiz that was being
\* written still is, or none.
NothingWritten ==
    /\ UNCHANGED <<StoredQuizzes, StoredQuotes>>
    /\ \/ Written' = None
       \/ Written' = Written /\ quotes' = quotes

\* A new quiz is stored and written.
QuizOpened ==
    /\ Written = None
    /\ Written' \notin QuizIDs \cup {None}
    /\ StoredQuizzes' = StoredQuizzes \cup {Written'}
    /\ StoredQuotes' = StoredQuotes

\* A new quote is cached, and stored with the quiz being written.
QuoteWritten ==
    /\ CacheHasRoom
    /\ Written # None
    /\ Written' = Written
    /\ StoredQuizzes' = StoredQuizzes
    /\ \E q : /\ q \notin QuoteIDs
              /\ StoredQuotes' = StoredQuotes \cup {[id |-> q, quiz |-> Written]}
              /\ quotes' = quotes \cup {q}

\* Signing in stores no quiz and no quote, and takes the quiz being written when its
\* save fails (LogInViewController.swift:23-35, CoreDataStack.swift:34-43).
LEMMA SignInWritesNothing ==
    ASSUME StoreInv, SigningIn
    PROVE  NothingWritten
<1>1. CASE FindUser
  <2>1. UNCHANGED <<contextVars, quiz, quotes, screen>>
    BY <1>1 DEF FindUser, SigningIn, SignInSucceeds, SignInFails, screenVars
  <2> QED BY <2>1 DEF NothingWritten, Written, StoredQuizzes, StoredQuotes, HasID, contextVars
<1>2. ASSUME NEW saved \in SaveOutcomes, NewUser(saved)
      PROVE  NothingWritten
  <2>1. PICK objects : objects = {User(last.user + 1)}
    OBVIOUS
  <2>2. /\ Save(objects, saved) /\ quiz' = Kept(quiz, saved)
        /\ UNCHANGED <<quotes, screen>>
    BY <1>2, <2>1 DEF NewUser, SigningIn, SignInSucceeds, SignInFails, screenVars
  <2>3. \A o \in objects : o.kind = "user"
    BY <2>1 DEF User
  <2>4. \A o : o.kind \in {"quiz", "quote"} => (o \in store' <=> o \in store)
    BY <2>2, <2>3, SaveStores
  <2>5. StoredQuizzes' = StoredQuizzes /\ StoredQuotes' = StoredQuotes
    BY <2>4, SameQuizzes, SameQuotes
  <2>6. context' \subseteq context \cup objects
    BY <2>2 DEF Save, StoreInv
  <2>7. \A z : HasID(z)' => HasID(z)
    BY <2>3, <2>6 DEF HasID
  <2>8. Written' = None \/ Written' = Written
    <3>1. CASE quiz' = quiz
      BY <2>2, <2>7, <3>1 DEF Written, HasID
    <3>2. CASE quiz' = Detached
      BY <2>7, <3>2, QuizWithIDWasCreated DEF Written, HasID
    <3> QED BY <2>2, <3>1, <3>2 DEF Kept
  <2> QED BY <2>2, <2>5, <2>8 DEF NothingWritten
<1> QED BY <1>1, <1>2 DEF SigningIn, SignInSucceeds, SignInFails, CreateFetchedUser

\* createEmptyQuiz stores one quiz, when its save succeeds, and opens it
\* (QuizController.swift:163-180).
LEMMA StartOpensOrNothing ==
    ASSUME StoreInv, StartButtonTapped
    PROVE  NothingWritten \/ QuizOpened
<1>1. PICK z \in Nat : z = last.quiz + 1
  BY DEF StoreInv, SyncTypeOK
<1>2. z \notin QuizIDs /\ z # None /\ z # Detached /\ Written = None
  BY <1>1 DEF QuizIDs, None, Detached, StoreInv, SyncTypeOK, StartButtonTapped, Written
<1>3. screen' = "NewQuote" /\ quotes' = quotes
  BY DEF StartButtonTapped
<1>4. CASE user = Detached
  <2>1. PICK object : object = QuizWithoutID(z)
    OBVIOUS
  <2>2. context' = context \cup {object} /\ store' = store /\ quiz' = z
    BY <1>1, <1>4, <2>1 DEF StartButtonTapped, createEmptyQuiz, Insert
  <2>3. object.kind = "quizWithoutID"
    BY <2>1 DEF QuizWithoutID
  <2>4. ~HasID(z)
    BY <1>2, QuizWithIDWasCreated
  <2>5. Written' = None
    BY <2>2, <2>3, <2>4 DEF HasID, Written
  <2> QED BY <2>2, <2>5 DEF NothingWritten, StoredQuizzes, StoredQuotes
<1>5. CASE user # Detached
  <2>1. PICK object, objects : object = Quiz(z, user) /\ objects = {object}
    OBVIOUS
  <2>2. PICK saved \in SaveOutcomes : Save(objects, saved) /\ quiz' = Kept(z, saved)
    BY <1>1, <1>5, <2>1 DEF StartButtonTapped, createEmptyQuiz
  <2>3. object.kind = "quiz" /\ object.id = z
    BY <2>1 DEF Quiz
  <2>4. \A o : o.kind \in {"quiz", "quote"} =>
           /\ saved => (o \in store' <=> o \in store \cup {object})
           /\ ~saved => (o \in store' <=> o \in store)
    BY <2>1, <2>2, SaveStores
  <2>5. StoredQuotes' = StoredQuotes
    <3>1. \A o : o.kind = "quote" => (o \in store' <=> o \in store)
      BY <2>3, <2>4
    <3> QED BY <3>1, SameQuotes
  <2>6. CASE saved
    <3>1. StoredQuizzes' = StoredQuizzes \cup {z}
      <4>1. {o \in store' : o.kind = "quiz"}
               = {o \in store : o.kind = "quiz"} \cup {object}
        BY <2>3, <2>4, <2>6
      <4> QED BY <2>3, <4>1 DEF StoredQuizzes
    <3>2. quiz' = z /\ object \in context'
      BY <2>1, <2>2, <2>6 DEF Kept, Save
    <3>3. Written' = z
      BY <1>3, <2>3, <3>2 DEF Written, HasID
    <3> QED BY <1>2, <2>5, <3>1, <3>3 DEF QuizOpened
  <2>7. CASE ~saved
    <3>1. StoredQuizzes' = StoredQuizzes
      BY <2>4, <2>7, SameQuizzes
    <3>2. quiz' = Detached /\ context' = store
      BY <1>2, <2>2, <2>7 DEF Kept, Save
    <3>3. ~HasID(Detached)
      BY QuizWithIDWasCreated
    <3>4. Written' = None
      BY <3>2, <3>3 DEF Written, HasID, StoreInv
    <3> QED BY <2>5, <3>1, <3>4 DEF NothingWritten
  <2>8. saved \in BOOLEAN
    BY DEF SaveOutcomes
  <2> QED BY <2>6, <2>7, <2>8
<1> QED BY <1>4, <1>5

\* createQuote stores one quote of the quiz being written, when its save succeeds;
\* when it fails there is none any more (QuizController.swift:183-209).
LEMMA QuoteIsWrittenOrNothing ==
    ASSUME StoreInv, CreateQuote
    PROVE  NothingWritten \/ QuoteWritten
<1>1. PICK q, z : q \in Nat /\ q = last.quote + 1 /\ z = quiz
  BY DEF StoreInv, SyncTypeOK
<1>2. q \notin QuoteIDs /\ HasID(z) /\ Written = z /\ screen' = screen
  BY <1>1 DEF QuoteIDs, StoreInv, SyncTypeOK, CreateQuote, Written, screenVars
<1>3. z \in QuizIDs /\ z # None /\ z # Detached
  BY <1>2, QuizWithIDWasCreated
<1>4. user \in UserIDs /\ user # Detached
  BY <1>1, <1>2, <1>3 DEF StoreInv, UserIDs, Detached
<1>5. PICK object, link, objects :
         object = Quote(q, z) /\ link = Link(q, z) /\ objects = {object, link}
  OBVIOUS
<1>6. PICK saved \in SaveOutcomes :
         /\ Save(objects, saved)
         /\ quiz' = Kept(z, saved)
         /\ quotes' = quotes \cup {q}
  BY <1>1, <1>4, <1>5 DEF CreateQuote
<1>7. object.kind = "quote" /\ object.id = q /\ object.parent = z /\ link.kind = "link"
  BY <1>5 DEF Quote, Link
<1>8. \A o : o.kind \in {"quiz", "quote"} =>
         /\ saved => (o \in store' <=> o \in store \cup {object})
         /\ ~saved => (o \in store' <=> o \in store)
  BY <1>5, <1>6, <1>7, SaveStores
<1>9. StoredQuizzes' = StoredQuizzes
  <2>1. \A o : o.kind = "quiz" => (o \in store' <=> o \in store)
    BY <1>7, <1>8
  <2> QED BY <2>1, SameQuizzes
<1>10. CASE saved
  <2>1. PICK e : e = [id |-> q, quiz |-> z]
    OBVIOUS
  <2>2. StoredQuotes' = StoredQuotes \cup {e}
    <3>1. {o \in store' : o.kind = "quote"}
             = {o \in store : o.kind = "quote"} \cup {object}
      BY <1>7, <1>8, <1>10
    <3> QED BY <1>7, <2>1, <3>1 DEF StoredQuotes
  <2>3. quiz' = z /\ context \subseteq context'
    BY <1>6, <1>10 DEF Kept, Save
  <2>4. Written' = z
    BY <1>2, <2>3 DEF Written, HasID, CreateQuote
  <2> QED BY <1>2, <1>3, <1>6, <1>9, <2>1, <2>2, <2>4 DEF QuoteWritten, CreateQuote
<1>11. CASE ~saved
  <2>1. StoredQuotes' = StoredQuotes
    BY <1>8, <1>11, SameQuotes
  <2>2. quiz' = Detached /\ context' = store
    BY <1>3, <1>6, <1>11 DEF Kept, Save
  <2>3. ~HasID(Detached)
    BY QuizWithIDWasCreated
  <2>4. Written' = None
    BY <2>2, <2>3 DEF Written, HasID, StoreInv
  <2> QED BY <1>9, <2>1, <2>4 DEF NothingWritten
<1> QED BY <1>10, <1>11 DEF SaveOutcomes

\* The other steps leave the store alone, and no other opens the screen for quotes.
LEMMA OtherStepsWriteNothing ==
    ASSUME StoreInv,
           Play \/ Leave \/ Relaunch \/ RequestArrives \/ RequestIsLost \/ UNCHANGED vars
    PROVE  NothingWritten
<1>1. store' = store
  BY DEF Play, Leave, Relaunch, Reopen, RequestArrives, RequestIsLost, vars, contextVars
<1>2. StoredQuizzes' = StoredQuizzes /\ StoredQuotes' = StoredQuotes
  BY <1>1 DEF StoredQuizzes, StoredQuotes
<1>3. \/ screen' # "NewQuote"
      \/ UNCHANGED <<context, quiz, quotes, screen>>
  BY DEF Play, Leave, Relaunch, RequestArrives, RequestIsLost, vars, contextVars,
         controllerVars, screenVars
<1>4. Written' = None \/ (Written' = Written /\ quotes' = quotes)
  <2>1. CASE screen' # "NewQuote"
    BY <2>1 DEF Written
  <2>2. CASE UNCHANGED <<context, quiz, quotes, screen>>
    BY <2>2 DEF Written, HasID
  <2> QED BY <1>3, <2>1, <2>2
<1> QED BY <1>2, <1>4 DEF NothingWritten

LEMMA StepsOfWriting ==
    ASSUME StoreInv, [Next]_vars
    PROVE  NothingWritten \/ QuizOpened \/ QuoteWritten
BY SignInWritesNothing, StartOpensOrNothing, QuoteIsWrittenOrNothing, OtherStepsWriteNothing
   DEF Next, UserActs

-----------------------------------------------------------------------------
\* The cache has what the quiz being written has.

LEMMA InitIsCached == Init => WrittenIsCached
BY DEF Init, ContextInit, WrittenIsCached, StoredQuotes

LEMMA NextKeepsCached ==
    ASSUME StoreInv, StoreInv', WrittenIsCached, [Next]_vars
    PROVE  WrittenIsCached'
<1>1. \A e \in StoredQuotes : e.quiz \in QuizIDs /\ e.quiz # None
  BY StoredWereCreated
<1>2. CASE NothingWritten
  BY <1>1, <1>2 DEF NothingWritten, WrittenIsCached
<1>3. CASE QuizOpened
  BY <1>1, <1>3 DEF QuizOpened, WrittenIsCached
<1>4. CASE QuoteWritten
  BY <1>4 DEF QuoteWritten, WrittenIsCached
<1> QED BY <1>2, <1>3, <1>4, StepsOfWriting

LEMMA CacheInvariance == Spec => [](StoreInv /\ WrittenIsCached)
<1>1. Init => StoreInv /\ WrittenIsCached
  BY InitEstablishesInv DEF SyncInv
<1>2. StoreInv /\ WrittenIsCached /\ [Next]_vars => (StoreInv /\ WrittenIsCached)'
  BY NextKeepsStoreInv, NextKeepsCached
<1> QED BY <1>1, <1>2, PTL DEF Spec

-----------------------------------------------------------------------------
\* The library.

\* A quote is only written when its quiz has room: all it has is cached, and the
\* cache has room (NewQuoteViewController.swift:197-205, QuizController.swift:183-190).
LEMMA RoomInTheQuiz ==
    ASSUME StoreInv, WrittenIsCached, CacheHasRoom
    PROVE  Shelf!Cardinality(Shelf!Contents(Written)) < quizMaxQuotes + 1
<1>1. Shelf!Contents(Written) \subseteq quotes
  BY DEF Shelf!Contents, WrittenIsCached
<1>2. last.quote \in Nat /\ quotes \subseteq 1 .. last.quote
  BY DEF StoreInv, SyncTypeOK, QuoteIDs
<1>3. IsFiniteSet(quotes)
  <2>1. IsFiniteSet(1 .. last.quote)
    BY <1>2, FS_Interval
  <2> QED BY <1>2, <2>1, FS_Subset
<1>4. /\ Cardinality(Shelf!Contents(Written)) <= Cardinality(quotes)
      /\ Cardinality(Shelf!Contents(Written)) \in Nat
      /\ Cardinality(quotes) \in Nat
  BY <1>1, <1>3, FS_Subset, FS_CardinalityType
<1> QED BY <1>4, SameCount, SyncAssumption DEF CacheHasRoom

LEMMA StepOfLibrary ==
    ASSUME StoreInv, WrittenIsCached, [Next]_vars
    PROVE  [Shelf!Next]_(Shelf!libraryVars)
<1>1. CASE NothingWritten
  BY <1>1 DEF NothingWritten, Shelf!Next, Shelf!Close, Shelf!libraryVars
<1>2. CASE QuizOpened
  BY <1>2, StoredWereCreated DEF QuizOpened, Shelf!Next, Shelf!Open
<1>3. CASE QuoteWritten
  <2>1. Shelf!Cardinality(Shelf!Contents(Written)) < quizMaxQuotes + 1
    BY <1>3, RoomInTheQuiz DEF QuoteWritten
  <2>2. PICK q : /\ q \notin QuoteIDs
                 /\ StoredQuotes' = StoredQuotes \cup {[id |-> q, quiz |-> Written]}
    BY <1>3 DEF QuoteWritten
  <2>3. PICK e : e = [id |-> q, quiz |-> Written]
    OBVIOUS
  <2>4. e.id = q /\ e.quiz = Written /\ StoredQuotes' = StoredQuotes \cup {e}
    BY <2>2, <2>3
  <2>5. q \notin Shelf!IDs
    BY <2>2, StoredWereCreated DEF Shelf!IDs
  <2> QED BY <1>3, <2>1, <2>4, <2>5 DEF QuoteWritten, Shelf!Next, Shelf!Write
<1> QED BY <1>1, <1>2, <1>3, StepsOfWriting

\* What is stored is a library, whichever saves, fetches and sign-ins fail and
\* whenever the app is launched again: quotes are added to the quiz on the screen
\* alone, while it has room, and what is stored stays as it is
\* (QuizController.swift:163-209, CoreDataStack.swift:34-43).
THEOREM StoreImplementsLibrary == Spec => StoreIsALibrary
<1>1. Init => Shelf!Init
  BY DEF Init, ContextInit, StoredQuizzes, StoredQuotes, Written, Shelf!Init
<1>2. StoreInv /\ WrittenIsCached /\ [Next]_vars => [Shelf!Next]_(Shelf!libraryVars)
  BY StepOfLibrary
<1> QED
  BY <1>1, <1>2, CacheInvariance, PTL DEF Spec, StoreIsALibrary, Shelf!Spec
=============================================================================
