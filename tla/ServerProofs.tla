---------------------------- MODULE ServerProofs ----------------------------
(***************************************************************************)
(* Proofs about the server: as long as requests arrive in order only users *)
(* erase, and when nothing but fetches from Core Data fails each step is   *)
(* one of a replica.                                                       *)
(***************************************************************************)
EXTENDS StoreProofs

-----------------------------------------------------------------------------
\* Requests that replace nothing.

\* When a request is sent, those before it replace what they replaced.
LEMMA SendKeepsRequests ==
    ASSUME requests \in Seq(Object), NEW object \in Object, Send(object),
           NEW i \in DOMAIN requests'
    PROVE  \/ /\ i \in DOMAIN requests /\ requests'[i] = requests[i]
              /\ ReplacesNothing(i) => ReplacesNothing(i)'
           \/ /\ requests'[i] = object
              /\ (\A n \in server \cup Range(requests) : ~IsAtOrBelow(n, object))
                    => ReplacesNothing(i)'
<1>1. server' = server /\ requests' = Append(requests, object)
  BY DEF Send
<1>2. PICK m \in Nat : m = Len(requests)
  OBVIOUS
<1>3. /\ DOMAIN requests = 1 .. m
      /\ DOMAIN requests' = 1 .. m + 1
      /\ \A j \in 1 .. m : requests'[j] = requests[j]
      /\ requests'[m + 1] = object
  BY <1>1, <1>2, AppendedRequest
<1>4. \A j \in DOMAIN requests' : j < i => j \in 1 .. m
  BY <1>2, <1>3
<1>5. CASE i = m + 1
  <2>1. \A j \in 1 .. m : requests'[j] \in Range(requests)
    BY <1>3 DEF Range
  <2> QED BY <1>1, <1>3, <1>4, <1>5, <2>1 DEF ReplacesNothing
<1>6. CASE i \in 1 .. m
  BY <1>1, <1>3, <1>4, <1>6 DEF ReplacesNothing
<1> QED BY <1>2, <1>3, <1>5, <1>6

\* When a request is taken away, or the first one arrives, the others replace
\* nothing that they did not replace before.
LEMMA RemovalKeepsRequests ==
    ASSUME requests \in Seq(Object), NEW k \in DOMAIN requests,
           requests' = RemoveAt(requests, k),
           server' = server \/ (k = 1 /\ server' \subseteq server \cup {requests[1]}),
           NEW i \in DOMAIN requests'
    PROVE  \E m \in DOMAIN requests :
              /\ requests'[i] = requests[m]
              /\ ReplacesNothing(m) => ReplacesNothing(i)'
<1>1. PICK l \in Nat : l = Len(requests)
  OBVIOUS
<1>2. DOMAIN requests = 1 .. l /\ k \in 1 .. l /\ k \in Nat
  BY <1>1
<1>3. /\ DOMAIN requests' = 1 .. l - 1
      /\ \A j \in 1 .. l - 1 :
            requests'[j] = IF j < k THEN requests[j] ELSE requests[j + 1]
  <2>1. k \in 1 .. Len(requests)
    BY <1>1, <1>2
  <2> QED BY <1>1, <2>1, RemovedRequest
<1> DEFINE From(j) == IF j < k THEN j ELSE j + 1
<1>4. \A j \in 1 .. l - 1 : From(j) \in 1 .. l /\ requests'[j] = requests[From(j)]
  BY <1>1, <1>2, <1>3
<1>5. \A j \in 1 .. l - 1 : j < i => From(j) < From(i)
  BY <1>1, <1>2, <1>3
<1>6. k = 1 => 1 < From(i)
  BY <1>2, <1>3
<1> HIDE DEF From
<1>7. ASSUME ReplacesNothing(From(i))
      PROVE  ReplacesNothing(i)'
  <2>1. \A n \in server' : ~IsAtOrBelow(n, requests[From(i)])
    <3>1. CASE server' = server
      BY <1>7, <3>1 DEF ReplacesNothing
    <3>2. CASE k = 1 /\ server' \subseteq server \cup {requests[1]}
      BY <1>2, <1>6, <1>7, <3>2 DEF ReplacesNothing
    <3> QED BY <3>1, <3>2
  <2>2. \A j \in 1 .. l - 1 :
           j < i => ~IsAtOrBelow(requests[From(j)], requests[From(i)])
    BY <1>2, <1>4, <1>5, <1>7 DEF ReplacesNothing
  <2> QED BY <1>3, <1>4, <2>1, <2>2 DEF ReplacesNothing
<1> QED BY <1>2, <1>3, <1>4, <1>7

-----------------------------------------------------------------------------
\* What is sent.

\* Starting to write a quiz sends that quiz, with a new number, or nothing.
LEMMA StartSendsNewQuiz ==
    ASSUME StoreInv, StartButtonTapped
    PROVE  \/ user = Detached /\ UNCHANGED serverVars
           \/ /\ user \in UserIDs
              /\ \E object \in Object :
                    /\ Send(object)
                    /\ object.kind = "quiz" /\ object.id \notin QuizIDs
<1>1. PICK z, u : z = last.quiz + 1 /\ u = user
  OBVIOUS
<1>2. z \in Nat /\ z \notin QuizIDs /\ u \in UserIDs \cup {Detached}
  BY <1>1 DEF StartButtonTapped, StoreInv, SyncTypeOK, QuizIDs
<1>3. CASE u = Detached
  BY <1>1, <1>3 DEF StartButtonTapped, createEmptyQuiz
<1>4. CASE u # Detached
  <2>1. PICK object : object = Quiz(z, u)
    OBVIOUS
  <2>2. u \in UserIDs /\ u \in Nat
    BY <1>2, <1>4 DEF UserIDs
  <2>3. object \in Object /\ object.kind = "quiz" /\ object.id = z
    BY <1>2, <2>1, <2>2 DEF Quiz, Object, Entities
  <2>4. Send(object)
    BY <1>1, <1>4, <2>1 DEF StartButtonTapped, createEmptyQuiz
  <2> QED BY <1>1, <1>2, <2>2, <2>3, <2>4
<1> QED BY <1>3, <1>4

\* Writing a quote sends it, with a new number.
LEMMA QuoteIsSent ==
    ASSUME StoreInv, CreateQuote
    PROVE  /\ user \in UserIDs
           /\ \E object \in Object :
                 /\ Send(object)
                 /\ object.kind = "quote" /\ object.id \notin QuoteIDs
                 /\ object.parent \in QuizIDs
<1>1. PICK q, z : q = last.quote + 1 /\ z = quiz
  OBVIOUS
<1>2. q \in Nat /\ q \notin QuoteIDs
  BY <1>1 DEF StoreInv, SyncTypeOK, QuoteIDs
<1>3. z \in QuizIDs /\ z \in Nat
  BY <1>1, QuizWithIDWasCreated DEF CreateQuote, QuizIDs
<1>4. user \in UserIDs /\ user # Detached
  BY <1>1, <1>3 DEF CreateQuote, StoreInv, UserIDs, Detached
<1>5. PICK object : object = Quote(q, z)
  OBVIOUS
<1>6. /\ object \in Object /\ object.kind = "quote" /\ object.id = q
      /\ object.parent = z
  BY <1>2, <1>3, <1>5 DEF Quote, Object, Entities
<1>7. Send(object)
  BY <1>1, <1>4, <1>5 DEF CreateQuote
<1> QED BY <1>2, <1>3, <1>4, <1>6, <1>7

\* Signing in sends a user, or nothing.
LEMMA SignInSendsUser ==
    ASSUME StoreInv, SigningIn
    PROVE  \/ UNCHANGED serverVars
           \/ \E object \in Object : Send(object) /\ object.kind = "user"
<1>1. User(last.user + 1) \in Object /\ User(last.user + 1).kind = "user"
  BY DEF StoreInv, SyncTypeOK, User, Object, Entities
<1> QED BY <1>1 DEF SigningIn, SignInSucceeds, SignInFails

LEMMA NumbersAreGivenOut ==
    ASSUME StoreInv, [Next]_vars
    PROVE  QuizIDs \subseteq QuizIDs'
<1>1. last.quiz \in Nat /\ last.quiz <= last'.quiz /\ last'.quiz \in Nat
  BY DEF StoreInv, SyncTypeOK, Next, UserActs, SigningIn, SignInSucceeds, SignInFails,
         FindUser, CreateFetchedUser, NewUser, StartButtonTapped, CreateQuote, Play, Leave,
         Relaunch, RequestArrives, RequestIsLost, vars
<1> QED BY <1>1 DEF QuizIDs

\* A new quiz or quote replaces nothing.
LEMMA NothingAtOrBelowNew ==
    ASSUME StoreInv, OnlyUsersReplace, NEW object,
           \/ object.kind = "quiz" /\ object.id \notin QuizIDs
           \/ object.kind = "quote" /\ object.id \notin QuoteIDs,
           NEW n \in server \cup Range(requests)
    PROVE  ~IsAtOrBelow(n, object)
<1>1. Created(n)
  BY DEF StoreInv, SyncTypeOK
<1>2. n.kind = "quote" => n.parent \in QuizIDs
  BY DEF OnlyUsersReplace
<1> QED BY <1>1, <1>2 DEF IsAtOrBelow, Created

-----------------------------------------------------------------------------
\* As long as requests arrive in order, those of quizzes and quotes replace nothing.

LEMMA SendKeepsOnlyUsersReplace ==
    ASSUME StoreInv, OnlyUsersReplace, QuizIDs \subseteq QuizIDs',
           NEW object \in Object, Send(object),
           \/ object.kind = "user"
           \/ \A n \in server \cup Range(requests) : ~IsAtOrBelow(n, object),
           object.kind = "quote" => object.parent \in QuizIDs
    PROVE  OnlyUsersReplace'
<1>1. requests \in Seq(Object) /\ server' = server /\ delivery' = delivery
  BY DEF Send, StoreInv, SyncTypeOK
<1>2. ASSUME NEW i \in DOMAIN requests'
      PROVE  /\ requests'[i] \in Range(requests) \cup {object}
             /\ delivery = "ordered" /\ requests'[i].kind # "user" => ReplacesNothing(i)'
  BY <1>1, SendKeepsRequests DEF OnlyUsersReplace, Range
<1>3. Range(requests') \subseteq Range(requests) \cup {object}
  BY <1>2 DEF Range
<1>4. \A o \in server' \cup Range(requests') : o.kind = "quote" => o.parent \in QuizIDs'
  BY <1>1, <1>3 DEF OnlyUsersReplace
<1> QED BY <1>1, <1>2, <1>4 DEF OnlyUsersReplace

LEMMA NothingSentKeepsOnlyUsersReplace ==
    ASSUME OnlyUsersReplace, QuizIDs \subseteq QuizIDs', UNCHANGED serverVars
    PROVE  OnlyUsersReplace'
BY DEF OnlyUsersReplace, ReplacesNothing, serverVars, Range

\* Of the requests that arrive in order, the first is next.
LEMMA NetworkKeepsOnlyUsersReplace ==
    ASSUME StoreInv, OnlyUsersReplace, QuizIDs \subseteq QuizIDs',
           NEW k \in DOMAIN requests, Arrive(k) \/ Lose(k)
    PROVE  OnlyUsersReplace'
<1>1. requests \in Seq(Object) /\ requests' = RemoveAt(requests, k)
  BY DEF Arrive, Lose, StoreInv, SyncTypeOK
<1>2. server' \subseteq server \cup {requests[k]}
  BY DEF Arrive, Lose, Replace
<1>3. delivery' = "ordered" =>
         /\ delivery = "ordered"
         /\ server' = server \/ (k = 1 /\ server' \subseteq server \cup {requests[1]})
  BY <1>2 DEF Arrive, Lose
<1>4. ASSUME NEW i \in DOMAIN requests'
      PROVE  /\ requests'[i] \in Range(requests)
             /\ delivery' = "ordered" /\ requests'[i].kind # "user" => ReplacesNothing(i)'
  <2>1. requests'[i] \in Range(requests)
    BY <1>1, RemovedFromRange
  <2>2. ASSUME delivery' = "ordered", requests'[i].kind # "user"
        PROVE  ReplacesNothing(i)'
    <3>1. PICK m \in DOMAIN requests :
             /\ requests'[i] = requests[m]
             /\ ReplacesNothing(m) => ReplacesNothing(i)'
      BY <1>1, <1>3, <2>2, RemovalKeepsRequests
    <3> QED BY <1>3, <2>2, <3>1 DEF OnlyUsersReplace
  <2> QED BY <2>1, <2>2
<1>5. requests[k] \in Range(requests) /\ Range(requests') \subseteq Range(requests)
  BY <1>4 DEF Range
<1>6. \A o \in server' \cup Range(requests') : o.kind = "quote" => o.parent \in QuizIDs'
  BY <1>2, <1>5 DEF OnlyUsersReplace
<1> QED BY <1>4, <1>6 DEF OnlyUsersReplace

LEMMA NextKeepsOnlyUsersReplace ==
    ASSUME StoreInv, OnlyUsersReplace, [Next]_vars
    PROVE  OnlyUsersReplace'
<1>1. QuizIDs \subseteq QuizIDs'
  BY NumbersAreGivenOut
<1>2. CASE SigningIn
  BY <1>1, <1>2, SignInSendsUser, SendKeepsOnlyUsersReplace, NothingSentKeepsOnlyUsersReplace
<1>3. CASE StartButtonTapped
  <2>1. CASE UNCHANGED serverVars
    BY <1>1, <2>1, NothingSentKeepsOnlyUsersReplace
  <2>2. ASSUME NEW object \in Object, Send(object),
               object.kind = "quiz", object.id \notin QuizIDs
        PROVE  OnlyUsersReplace'
    <3>1. \A n \in server \cup Range(requests) : ~IsAtOrBelow(n, object)
      BY <2>2, NothingAtOrBelowNew
    <3> QED BY <1>1, <2>2, <3>1, SendKeepsOnlyUsersReplace
  <2> QED BY <1>3, <2>1, <2>2, StartSendsNewQuiz
<1>4. CASE CreateQuote
  <2>1. PICK object \in Object :
           /\ Send(object)
           /\ object.kind = "quote" /\ object.id \notin QuoteIDs
           /\ object.parent \in QuizIDs
    BY <1>4, QuoteIsSent
  <2>2. \A n \in server \cup Range(requests) : ~IsAtOrBelow(n, object)
    BY <2>1, NothingAtOrBelowNew
  <2> QED BY <1>1, <2>1, <2>2, SendKeepsOnlyUsersReplace
<1>5. CASE RequestArrives \/ RequestIsLost
  BY <1>1, <1>5, NetworkKeepsOnlyUsersReplace DEF RequestArrives, RequestIsLost, Lose
<1>6. CASE Play \/ Leave \/ Relaunch \/ UNCHANGED vars
  <2>1. UNCHANGED serverVars
    BY <1>6 DEF Play, Leave, Relaunch, vars
  <2> QED BY <1>1, <2>1, NothingSentKeepsOnlyUsersReplace
<1> QED
  BY <1>2, <1>3, <1>4, <1>5, <1>6 DEF Next, UserActs

LEMMA DeliveryInvariance == Spec => [](StoreInv /\ OnlyUsersReplace)
<1>1. Init => StoreInv /\ OnlyUsersReplace
  BY InitEstablishesInv DEF SyncInv
<1>2. StoreInv /\ OnlyUsersReplace /\ [Next]_vars => (StoreInv /\ OnlyUsersReplace)'
  BY NextKeepsStoreInv, NextKeepsOnlyUsersReplace
<1> QED BY <1>1, <1>2, PTL DEF Spec

\* Only an arrival changes the server, and then one of a user replaces everything and
\* another nothing.
LEMMA StepErasesWithUser ==
    ASSUME StoreInv, OnlyUsersReplace, [Next]_vars,
           delivery' = "ordered", ~(server \subseteq server')
    PROVE  \E u \in UserIDs : server' = {User(u)}
<1>1. RequestArrives
  BY DEF Next, UserActs, SigningIn, SignInSucceeds, SignInFails, StartButtonTapped,
         createEmptyQuiz, CreateQuote, Play, Leave, Relaunch, RequestIsLost, Lose, Send,
         vars, serverVars
<1>2. /\ 1 \in DOMAIN requests /\ delivery = "ordered"
      /\ server' = Replace(server, requests[1])
  BY <1>1 DEF RequestArrives, Arrive
<1>3. PICK put : put = requests[1]
  OBVIOUS
<1>4. put \in Object /\ Created(put)
  BY <1>2, <1>3 DEF StoreInv, SyncTypeOK, Range, Created
<1>5. put.kind = "user"
  <2>1. ASSUME put.kind # "user"
        PROVE  \A n \in server : ~IsAtOrBelow(n, put)
    BY <1>2, <1>3, <2>1 DEF OnlyUsersReplace, ReplacesNothing
  <2> QED BY <1>2, <1>3, <2>1 DEF Replace
<1>6. server' = {put}
  BY <1>2, <1>3, <1>5 DEF Replace, IsAtOrBelow
<1>7. put = User(put.id) /\ put.id \in UserIDs
  BY <1>4, <1>5 DEF Created, Object, User
<1> QED BY <1>6, <1>7

\* Whichever saves, sign-ins and requests fail and however often the app is launched,
\* a quiz that arrives takes no quote from the server and a quote no other one, as
\* long as requests arrive in order; a user takes everything
\* (QuizController.swift:127-158, KQController.swift:32-43).
THEOREM OnlyUsersEraseInOrder == Spec => OnlyUsersErase
<1>1. StoreInv /\ OnlyUsersReplace /\ [Next]_vars
        => [delivery' = "ordered" /\ ~(server \subseteq server')
                => \E u \in UserIDs : server' = {User(u)}]_vars
  BY StepErasesWithUser
<1> QED BY <1>1, DeliveryInvariance, PTL DEF Spec, OnlyUsersErase

-----------------------------------------------------------------------------
\* When nothing goes wrong, but for fetches from Core Data, requests do not get in
\* each other's way.

\* A request that is at or above nothing, and a user first of all
LEMMA SendKeepsInOrder ==
    ASSUME StoreInv, InOrder, NEW object \in Object, Send(object),
           \A n \in server \cup Range(requests) : ~IsAtOrBelow(n, object),
           object.kind = "user" \/ HasUser(server) \/ requests # <<>>,
           signIn' = "done"
    PROVE  InOrder'
<1>1. requests \in Seq(Object) /\ server' = server /\ requests' = Append(requests, object)
  BY DEF Send, StoreInv, SyncTypeOK
<1>2. \A i \in DOMAIN requests' : ReplacesNothing(i)'
  BY <1>1, SendKeepsRequests DEF InOrder
<1>3. requests' # <<>>
  BY <1>1
<1>4. ~HasUser(server) => requests'[1].kind = "user"
  <2>1. CASE requests = <<>>
    <3>1. requests'[1] = object
      BY <1>1, <2>1
    <3> QED BY <2>1, <3>1
  <2>2. CASE requests # <<>>
    <3>1. requests'[1] = requests[1]
      BY <1>1, <2>2
    <3> QED BY <2>2, <3>1 DEF InOrder
  <2> QED BY <2>1, <2>2
<1> QED
  BY <1>1, <1>2, <1>3, <1>4 DEF InOrder, HasUser

\* Nothing is pending when no save fails.
LEMMA ContextIsStore ==
    ASSUME StoreInv, Faults \subseteq {"fetch"}
    PROVE  context = store
BY DEF StoreInv

\* Signing in sends a user when the server has none, and nothing is on its way.
LEMMA SignInWhenNothingFails ==
    ASSUME StoreInv, InOrder, Faults \subseteq {"fetch"}, SigningIn
    PROVE  /\ requests = <<>> /\ signIn' = "done"
           /\ \/ FindUser /\ UNCHANGED serverVars /\ HasUser(server)
              \/ NewUser(TRUE) /\ UNCHANGED serverVars /\ HasUser(server)
              \/ NewUser(TRUE) /\ Send(User(last.user + 1)) /\ server = {}
<1>1. \A saved \in SaveOutcomes : saved = TRUE
  BY DEF SaveOutcomes
<1>2. CASE SignInSucceeds
  BY <1>1, <1>2 DEF SignInSucceeds, CreateFetchedUser, InOrder
<1>3. CASE SignInFails
  <2>1. signIn = "waiting" /\ ~HasUser(server) /\ signIn' = "done"
    BY <1>3 DEF SignInFails, InOrder, StoreInv, SyncTypeOK
  <2> QED BY <1>1, <1>3, <2>1 DEF SignInFails, InOrder
<1> QED BY <1>2, <1>3 DEF SigningIn

LEMMA SignInKeepsInOrder ==
    ASSUME StoreInv, InOrder, Faults \subseteq {"fetch"}, SigningIn
    PROVE  InOrder'
<1>1. requests = <<>> /\ signIn' = "done"
  BY SignInWhenNothingFails
<1>2. CASE UNCHANGED serverVars /\ HasUser(server)
  BY <1>1, <1>2 DEF InOrder, ReplacesNothing, HasUser, serverVars
<1>3. CASE server = {} /\ Send(User(last.user + 1))
  <2>1. PICK object : object = User(last.user + 1)
    OBVIOUS
  <2>2. object \in Object /\ object.kind = "user" /\ Send(object)
    BY <1>3, <2>1 DEF StoreInv, SyncTypeOK, User, Object, Entities
  <2>3. server \cup Range(requests) = {}
    BY <1>1, <1>3 DEF Range
  <2> QED BY <1>1, <2>2, <2>3, SendKeepsInOrder
<1> QED BY <1>2, <1>3, SignInWhenNothingFails

\* Whoever creates has signed in, and the user sent then is ahead.
LEMMA CreatorSignedIn ==
    ASSUME StoreInv, InOrder, user \in UserIDs
    PROVE  signIn = "done" /\ (HasUser(server) \/ requests # <<>>)
<1>1. user # None
  BY DEF UserIDs, None
<1> QED BY <1>1 DEF InOrder, StoreInv, SyncTypeOK

LEMMA StartKeepsInOrder ==
    ASSUME StoreInv, OnlyUsersReplace, InOrder, Faults \subseteq {"fetch"}, StartButtonTapped
    PROVE  InOrder'
<1>1. user # Detached
  BY DEF StoreInv
<1>2. user \in UserIDs
  BY <1>1, StartSendsNewQuiz
<1>3. PICK object \in Object :
         Send(object) /\ object.kind = "quiz" /\ object.id \notin QuizIDs
  BY <1>1, StartSendsNewQuiz
<1>4. \A n \in server \cup Range(requests) : ~IsAtOrBelow(n, object)
  BY <1>3, NothingAtOrBelowNew
<1>5. signIn' = "done" /\ (HasUser(server) \/ requests # <<>>)
  BY <1>2, CreatorSignedIn DEF StartButtonTapped
<1> QED BY <1>3, <1>4, <1>5, SendKeepsInOrder

LEMMA QuoteKeepsInOrder ==
    ASSUME StoreInv, OnlyUsersReplace, InOrder, Faults \subseteq {"fetch"}, CreateQuote
    PROVE  InOrder'
<1>1. user \in UserIDs
  BY QuoteIsSent
<1>2. PICK object \in Object :
         Send(object) /\ object.kind = "quote" /\ object.id \notin QuoteIDs
  BY QuoteIsSent
<1>3. \A n \in server \cup Range(requests) : ~IsAtOrBelow(n, object)
  BY <1>2, NothingAtOrBelowNew
<1>4. signIn' = "done" /\ (HasUser(server) \/ requests # <<>>)
  BY <1>1, CreatorSignedIn DEF CreateQuote
<1> QED BY <1>2, <1>3, <1>4, SendKeepsInOrder

\* The first request replaces nothing.
LEMMA FirstArrives ==
    ASSUME StoreInv, InOrder, Faults \subseteq {"fetch"}, RequestArrives
    PROVE  /\ 1 \in DOMAIN requests
           /\ server' = server \cup {requests[1]}
           /\ requests' = RemoveAt(requests, 1)
           /\ requests[1] \notin server
           /\ UNCHANGED <<contextVars, controllerVars, signIn>>
<1>1. /\ 1 \in DOMAIN requests
      /\ server' = Replace(server, requests[1])
      /\ requests' = RemoveAt(requests, 1)
      /\ UNCHANGED <<contextVars, controllerVars, signIn>>
  BY DEF RequestArrives, Arrive
<1>2. \A n \in server : ~IsAtOrBelow(n, requests[1])
  BY <1>1 DEF InOrder, ReplacesNothing
<1> QED BY <1>1, <1>2 DEF Replace, IsAtOrBelow

LEMMA ArrivalKeepsInOrder ==
    ASSUME StoreInv, InOrder, Faults \subseteq {"fetch"}, RequestArrives
    PROVE  InOrder'
<1>1. /\ 1 \in DOMAIN requests
      /\ server' = server \cup {requests[1]}
      /\ requests' = RemoveAt(requests, 1)
      /\ UNCHANGED <<contextVars, controllerVars, signIn>>
  BY FirstArrives
<1>2. requests \in Seq(Object)
  BY DEF StoreInv, SyncTypeOK
<1>3. \A i \in DOMAIN requests' : ReplacesNothing(i)'
  BY <1>1, <1>2, RemovalKeepsRequests DEF InOrder
<1>4. HasUser(server')
  <2>1. requests # <<>>
    BY <1>1
  <2> QED BY <1>1, <2>1 DEF InOrder, HasUser
<1>5. signIn' # "again" /\ signIn' # "waiting"
  BY <1>1 DEF InOrder
<1> QED
  BY <1>3, <1>4, <1>5 DEF InOrder, HasUser

LEMMA OtherStepsKeepInOrder ==
    ASSUME InOrder, Faults \subseteq {"fetch"}, Play \/ Leave \/ Relaunch \/ RequestIsLost \/ UNCHANGED vars
    PROVE  InOrder'
<1> USE DEF InOrder, ReplacesNothing, HasUser, serverVars, controllerVars
<1>1. CASE Play
  BY <1>1 DEF Play
<1>2. CASE Leave
  BY <1>2 DEF Leave
<1>3. CASE Relaunch
  BY <1>3 DEF Relaunch
<1>4. CASE RequestIsLost
  BY <1>4 DEF RequestIsLost
<1>5. CASE UNCHANGED vars
  BY <1>5 DEF vars
<1> QED BY <1>1, <1>2, <1>3, <1>4, <1>5

LEMMA NextKeepsInv == SyncInv /\ [Next]_vars => SyncInv'
<1> SUFFICES ASSUME SyncInv, [Next]_vars
             PROVE  SyncInv'
  OBVIOUS
<1>1. StoreInv /\ StoreInv'
  BY NextKeepsStoreInv DEF SyncInv
<1>2. OnlyUsersReplace /\ OnlyUsersReplace'
  BY <1>1, NextKeepsOnlyUsersReplace DEF SyncInv
<1>3. WrittenIsCached'
  BY <1>1, NextKeepsCached DEF SyncInv
<1>4. ASSUME Faults \subseteq {"fetch"}
      PROVE  InOrder'
  <2>1. InOrder
    BY <1>4 DEF SyncInv
  <2>2. CASE SigningIn
    BY <1>1, <1>4, <2>1, <2>2, SignInKeepsInOrder
  <2>3. CASE StartButtonTapped
    BY <1>1, <1>2, <1>4, <2>1, <2>3, StartKeepsInOrder
  <2>4. CASE CreateQuote
    BY <1>1, <1>2, <1>4, <2>1, <2>4, QuoteKeepsInOrder
  <2>5. CASE RequestArrives
    BY <1>1, <1>4, <2>1, <2>5, ArrivalKeepsInOrder
  <2>6. CASE Play \/ Leave \/ Relaunch \/ RequestIsLost \/ UNCHANGED vars
    BY <1>4, <2>1, <2>6, OtherStepsKeepInOrder
  <2> QED
    BY <2>2, <2>3, <2>4, <2>5, <2>6 DEF Next, UserActs
<1> QED BY <1>1, <1>2, <1>3, <1>4 DEF SyncInv

\* The whole inductive invariant: whatever goes wrong, as long as requests arrive in
\* order only those of users would replace anything, and the cache has what the quiz
\* being written has; when nothing but fetches from Core Data goes wrong, no request
\* would replace anything (QuizController.swift:127-158, KQController.swift:32-43).
THEOREM SyncInvariance == Spec => []SyncInv
BY InitEstablishesInv, NextKeepsInv, PTL DEF Spec

-----------------------------------------------------------------------------
\* The server as a replica of the store.

\* What a save without failures adds
LEMMA SavedIsSent ==
    ASSUME StoreInv, Faults \subseteq {"fetch"}, NEW objects, Save(objects, TRUE), UNCHANGED server,
           NEW object \in objects, object.kind \in SentKinds, object \notin store,
           \A o \in objects : o = object \/ o.kind \notin SentKinds
    PROVE  Mirror!Next
<1>1. store' = store \cup objects
  BY ContextIsStore DEF Save
<1>2. Sent' = Sent \cup {object} /\ object \notin Sent
  BY <1>1 DEF Sent
<1> QED
  BY <1>2 DEF Mirror!Next, Mirror!Writes, Mirror!Write

LEMMA StepOfReplica ==
    ASSUME Faults \subseteq {"fetch"}, SyncInv, [Next]_vars
    PROVE  [Mirror!Next]_(Mirror!replicaVars)
<1>1. StoreInv /\ InOrder
  BY DEF SyncInv
<1>2. SaveOutcomes = {TRUE}
  BY DEF SaveOutcomes
<1>3. last.user \in Nat /\ last.quiz \in Nat /\ last.quote \in Nat
  BY <1>1 DEF StoreInv, SyncTypeOK
<1>4. \A o \in store : Created(o)
  BY <1>1 DEF StoreInv, SyncTypeOK
<1>5. CASE SigningIn
  <2>1. CASE FindUser /\ UNCHANGED serverVars
    BY <2>1 DEF FindUser, contextVars, serverVars, Sent, Mirror!replicaVars
  <2>2. CASE NewUser(TRUE) /\ UNCHANGED server
    <3>1. PICK object, objects : object = User(last.user + 1) /\ objects = {object}
      OBVIOUS
    <3>2. Save(objects, TRUE) /\ UNCHANGED server
      BY <2>2, <3>1 DEF NewUser
    <3>3. object.kind = "user" /\ object.id = last.user + 1
      BY <3>1 DEF User
    <3>4. object \notin store
      BY <1>3, <1>4, <3>3 DEF Created, UserIDs
    <3>5. object.kind \in SentKinds
      BY <3>3 DEF SentKinds
    <3>6. object \in objects /\ \A o \in objects : o = object \/ o.kind \notin SentKinds
      BY <3>1
    <3>7. Mirror!Next
      BY <1>1, <3>2, <3>4, <3>5, <3>6, SavedIsSent
    <3> QED BY <3>7
  <2> QED BY <1>1, <1>5, <2>1, <2>2, SignInWhenNothingFails DEF Send, serverVars
<1>6. CASE StartButtonTapped
  <2>1. user # Detached
    BY <1>1 DEF StoreInv
  <2>2. PICK object, objects : object = Quiz(last.quiz + 1, user) /\ objects = {object}
    OBVIOUS
  <2>3. Save(objects, TRUE) /\ UNCHANGED server
    BY <1>2, <1>6, <2>1, <2>2 DEF StartButtonTapped, createEmptyQuiz, Send
  <2>4. object.kind = "quiz" /\ object.id = last.quiz + 1
    BY <2>2 DEF Quiz
  <2>5. object \notin store
    BY <1>3, <1>4, <2>4 DEF Created, QuizIDs
  <2>6. object.kind \in SentKinds
    BY <2>4 DEF SentKinds
  <2>7. object \in objects /\ \A o \in objects : o = object \/ o.kind \notin SentKinds
    BY <2>2, <2>6
  <2>8. Mirror!Next
    BY <1>1, <2>3, <2>5, <2>6, <2>7, SavedIsSent
  <2> QED BY <2>8
<1>7. CASE CreateQuote
  <2>1. user # Detached
    BY <1>1 DEF StoreInv
  <2>2. PICK object, link, objects : /\ object = Quote(last.quote + 1, quiz)
                                     /\ link = Link(last.quote + 1, quiz)
                                     /\ objects = {object, link}
    OBVIOUS
  <2>3. Save(objects, TRUE) /\ UNCHANGED server
    BY <1>2, <1>7, <2>1, <2>2 DEF CreateQuote, Send
  <2>4. object.kind = "quote" /\ object.id = last.quote + 1 /\ link.kind = "link"
    BY <2>2 DEF Quote, Link
  <2>5. object \notin store
    BY <1>3, <1>4, <2>4 DEF Created, QuoteIDs
  <2>6. object.kind \in SentKinds /\ link.kind \notin SentKinds
    BY <2>4 DEF SentKinds
  <2>7. object \in objects /\ \A o \in objects : o = object \/ o.kind \notin SentKinds
    BY <2>2, <2>6
  <2>8. Mirror!Next
    BY <1>1, <2>3, <2>5, <2>6, <2>7, SavedIsSent
  <2> QED BY <2>8
<1>8. CASE RequestArrives
  <2>1. PICK object : object = requests[1]
    OBVIOUS
  <2>2. /\ 1 \in DOMAIN requests
        /\ server' = server \cup {object} /\ object \notin server
        /\ store' = store
    BY <1>1, <1>8, <2>1, FirstArrives DEF contextVars
  <2>3. object \in Sent
    BY <1>1, <2>1, <2>2 DEF StoreInv, SyncTypeOK, ServerWithinStore, Range, Sent
  <2>4. Sent' = Sent
    BY <2>2 DEF Sent
  <2> QED
    BY <2>2, <2>3, <2>4 DEF Mirror!Next, Mirror!Replicates, Mirror!Replicate
<1>9. CASE Play \/ Leave \/ Relaunch \/ RequestIsLost \/ UNCHANGED vars
  <2>1. store' = store /\ server' = server
    BY <1>9 DEF Play, Leave, Relaunch, Reopen, RequestIsLost, vars, contextVars, serverVars
  <2> QED BY <2>1 DEF Sent, Mirror!replicaVars
<1> QED
  BY <1>5, <1>6, <1>7, <1>8, <1>9 DEF Next, UserActs

\* As long as nothing but fetches from Core Data goes wrong, each step writes to the
\* store, or replicates on the server something that is only in the store, or does
\* neither: nothing the server has is ever replaced (QuizController.swift:127-158, 163-180, 194-205).
THEOREM ServerIsReplica ==
    ASSUME Faults \subseteq {"fetch"}
    PROVE  Spec => Mirror!Init /\ [][Mirror!Next]_(Mirror!replicaVars)
<1>1. Init => Mirror!Init
  BY DEF Init, ContextInit, ServerInit, Sent, Mirror!Init
<1>2. SyncInv /\ [Next]_vars => [Mirror!Next]_(Mirror!replicaVars)
  BY StepOfReplica
<1> QED BY <1>1, <1>2, SyncInvariance, PTL DEF Spec

=============================================================================
