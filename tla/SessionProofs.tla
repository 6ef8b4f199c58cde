---------------------------- MODULE SessionProofs ----------------------------
(***************************************************************************)
(* Proofs of the safety properties of signing in, for any number of        *)
(* launches and of quizzes.                                                *)
(***************************************************************************)
EXTENDS SessionProperties, TLAPS

LEMMA InitEstablishesInv == SessionInit => SessionInv
BY DEF SessionInit, SessionInv, SessionTypeOK, KnownUsersAreSaved, CallbackInv,
       Users, SavedUsers, NoUser, Owners, Answers, NoAnswer, PartsAgree

\* What Firebase does changes neither the store nor who has which user.
LEMMA ServerKeepsInv ==
    ASSUME SessionInv,
           ServerReplies \/ PutArrives \/ PutIsLost
    PROVE  SessionInv'
<1> USE DEF SessionInv, SessionTypeOK, KnownUsersAreSaved, CallbackInv, PartsAgree,
            Users, SavedUsers, NoUser, Owners, SignedInParts, Answers,
            storeVars, serverVars, callbackVars, mainVars
<1>1. CASE ServerReplies
  BY <1>1 DEF ServerReplies
<1>2. CASE PutArrives
  BY <1>2 DEF PutArrives
<1>3. CASE PutIsLost
  BY <1>3 DEF PutIsLost
<1> QED BY <1>1, <1>2, <1>3

\* The completion of fetch, statement by statement.
LEMMA CallbackKeepsInv ==
    ASSUME SessionInv, Callback
    PROVE  SessionInv'
<1> USE DEF SessionInv, SessionTypeOK, KnownUsersAreSaved, CallbackInv, PartsAgree,
            Users, SavedUsers, NoUser, Owners, SignedInParts, Answers,
            storeVars, serverVars, callbackVars, mainVars
<1>1. CASE CheckError
  BY <1>1 DEF CheckError, Fail
<1>2. CASE CheckData
  BY <1>2 DEF CheckData, Fail
<1>3. CASE CheckStatus
  BY <1>3 DEF CheckStatus, Fail
<1>4. CASE FindUser
  <2>1. PICK u \in 1 .. users :
              userOf' = [userOf EXCEPT !["UserController"] = u]
    BY <1>4 DEF FindUser
  <2>2. u \in SavedUsers
    BY <1>4 DEF FindUser
  <2> QED BY <1>4, <2>1, <2>2 DEF FindUser, Succeed
<1>5. CASE CreateFetchedUser
  BY <1>5 DEF CreateFetchedUser, NewUser
<1>6. CASE CreateUser
  BY <1>6 DEF CreateUser, NewUser
<1>7. CASE SaveUser
  BY <1>7 DEF SaveUser
<1>8. CASE SendUser
  <2>1. userOf["UserController"] \in 1 .. saved
    BY <1>8 DEF SendUser
  <2>2. puts' \subseteq 1 .. saved
    BY <1>8, <2>1 DEF SendUser
  <2> QED BY <1>8, <2>1, <2>2 DEF SendUser
<1>9. CASE SyncUser
  BY <1>9 DEF SyncUser
<1>10. CASE SyncQuizUser
  BY <1>10 DEF SyncQuizUser
<1>11. CASE ShowUser
  BY <1>11 DEF ShowUser
<1> QED BY <1>1, <1>2, <1>3, <1>4, <1>5, <1>6, <1>7, <1>8, <1>9, <1>10, <1>11 DEF Callback

\* The screens only copy a user, and what they store is created by a saved one.
LEMMA MainThreadKeepsInv ==
    ASSUME SessionInv, MainThread
    PROVE  SessionInv'
<1> USE DEF SessionInv, SessionTypeOK, KnownUsersAreSaved, CallbackInv, PartsAgree,
            Users, SavedUsers, NoUser, Owners, SignedInParts, Answers,
            storeVars, serverVars, callbackVars, mainVars
<1>1. CASE ShowHome
  BY <1>1 DEF ShowHome
<1>2. CASE LeaveHome
  BY <1>2 DEF LeaveHome
<1>3. CASE Navigate
  BY <1>3 DEF Navigate
<1>4. CASE StartButtonTapped
  <2> DEFINE creator == userOf["QuizController"]
  <2>1. CASE creator = NoUser
    BY <1>4, <2>1 DEF StartButtonTapped, CreateEmptyQuiz
  <2>2. CASE creator # NoUser
    <3>1. creators' = Append(creators, creator) /\ creator \in 1 .. saved
      BY <1>4, <2>2 DEF StartButtonTapped, CreateEmptyQuiz
    <3>2. creators' \in Seq(Nat) /\ \A z \in DOMAIN creators' : creators'[z] \in 1 .. saved
      BY <3>1
    <3>3. saved' = users
      BY <1>4, <2>2 DEF StartButtonTapped, CreateEmptyQuiz
    <3>4. /\ UNCHANGED <<users, userOf, serverUser, puts, answer, pc, back, result, launches>>
          /\ screen' = "NewQuote"
      BY <1>4, <2>2 DEF StartButtonTapped, CreateEmptyQuiz
    <3>5. saved \in 0 .. users
      OBVIOUS
    <3>6. KnownUsersAreSaved'
      BY <3>2, <3>3, <3>4, <3>5
    <3>7. CallbackInv'
      BY <3>3, <3>4, <3>5
    <3> QED BY <3>2, <3>3, <3>4, <3>6, <3>7
  <2> QED BY <2>1, <2>2
<1> QED BY <1>1, <1>2, <1>3, <1>4 DEF MainThread

\* The end of the process loses the users that were not saved, which nobody knows.
LEMMA RelaunchKeepsInv ==
    ASSUME SessionInv, Relaunch
    PROVE  SessionInv'
BY DEF Relaunch, SessionInv, SessionTypeOK, KnownUsersAreSaved, CallbackInv, PartsAgree,
       Users, SavedUsers, NoUser, Owners, SignedInParts, Answers, NoAnswer,
       storeVars, serverVars

LEMMA StutterKeepsInv ==
    ASSUME SessionInv, UNCHANGED vars
    PROVE  SessionInv'
BY DEF vars, SessionInv, SessionTypeOK, KnownUsersAreSaved, CallbackInv, PartsAgree,
       Users, SavedUsers, NoUser, Owners, SignedInParts, Answers,
       storeVars, serverVars, callbackVars, mainVars

\* The inductive invariant: what the completion of fetch has established at each of
\* its statements (UserController.swift:80-111), whatever the main thread and the
\* server do between two of them.
THEOREM SessionInvariance == SessionSpec => []SessionInv
<1>1. SessionInit => SessionInv
  BY InitEstablishesInv
<1>2. SessionInv /\ [SessionNext]_vars => SessionInv'
  BY ServerKeepsInv, CallbackKeepsInv, MainThreadKeepsInv, RelaunchKeepsInv,
     StutterKeepsInv DEF SessionNext
<1> QED BY <1>1, <1>2, PTL DEF SessionSpec

\* Every variable keeps its type.
THEOREM SessionTypeCorrect == SessionSpec => []SessionTypeOK
<1>1. SessionInv => SessionTypeOK
  BY DEF SessionInv
<1> QED BY <1>1, SessionInvariance, PTL

\* The controllers and the log-in screen have one and the same stored user once the
\* completion of fetch has returned (KQController.swift:32-37).
THEOREM SignedInPartsAgree == SessionSpec => []UsersAgree
<1>1. SessionInv => UsersAgree
  BY DEF SessionInv, CallbackInv, UsersAgree
<1> QED BY <1>1, SessionInvariance, PTL

\* Nobody but UserController ever knows a user whom the end of the process would
\* lose (UserController.swift:45-64, 96-98, 119-132).
THEOREM KnownUsersSurvive == SessionSpec => []KnownUsersAreSaved
<1>1. SessionInv => KnownUsersAreSaved
  BY DEF SessionInv
<1> QED BY <1>1, SessionInvariance, PTL

-----------------------------------------------------------------------------
\* The app as an account that somebody signs in with.

\* A step that stores no user and no quiz at most ends the sign-in, which then is
\* with a stored user.
LEMMA UnsavedStep ==
    ASSUME SessionInv', NoUser \notin SavedUsers,
           UNCHANGED <<saved, creators>>,
           pc = "returned" => UNCHANGED userOf["UserController"] /\ pc' = pc
    PROVE  [Slot!Next]_(Slot!accountVars)
<1>1. SavedUsers' = SavedUsers
  BY DEF SavedUsers
<1>2. pc' = "returned" => userOf["UserController"]' \in SavedUsers
  BY <1>1 DEF SessionInv, CallbackInv, PartsAgree
<1>3. CASE pc = "returned" \/ pc' # "returned"
  BY <1>1, <1>3 DEF Slot!accountVars
<1>4. CASE pc # "returned" /\ pc' = "returned"
  BY <1>1, <1>2, <1>4 DEF Slot!Next, Slot!SignIn
<1> QED BY <1>3, <1>4

\* What a save of the background queue stores was created by it.
LEMMA SaveRegisters ==
    ASSUME SessionInv, SaveUser
    PROVE  [Slot!Next]_(Slot!accountVars)
<1>1. pc = "save" /\ pc' # "returned" /\ saved' = users /\ creators' = creators
  BY DEF SaveUser
<1>2. SavedUsers \subseteq SavedUsers'
  BY <1>1 DEF SessionInv, SessionTypeOK, SavedUsers
<1> QED BY <1>1, <1>2 DEF Slot!Next, Slot!Register

\* A quiz is created by a stored user, by the one who signed in once somebody has;
\* then no user is pending.
LEMMA StartCreates ==
    ASSUME SessionInv, StartButtonTapped
    PROVE  [Slot!Next]_(Slot!accountVars)
<1>1. UNCHANGED <<userOf, pc>>
  BY DEF StartButtonTapped, callbackVars
<1>2. CASE userOf["QuizController"] = NoUser
  <2>1. UNCHANGED <<saved, creators>>
    BY <1>2 DEF StartButtonTapped, CreateEmptyQuiz, storeVars
  <2> QED BY <1>1, <2>1 DEF SavedUsers, Slot!accountVars
<1>3. CASE userOf["QuizController"] # NoUser
  <2>1. PICK creator : creator = userOf["QuizController"]
    OBVIOUS
  <2>2. creators' = Append(creators, creator) /\ saved' = users
    BY <1>3, <2>1 DEF StartButtonTapped, CreateEmptyQuiz
  <2>3. creator \in SavedUsers
    BY <1>3, <2>1 DEF SessionInv, KnownUsersAreSaved, Owners
  <2>4. pc = "returned" => creator = userOf["UserController"] /\ saved = users
    BY <2>1 DEF SessionInv, CallbackInv, PartsAgree, SignedInParts, Owners
  <2>5. SavedUsers \subseteq SavedUsers'
    BY <2>2 DEF SessionInv, SessionTypeOK, SavedUsers
  <2>6. pc = "returned" => SavedUsers' = SavedUsers
    BY <2>2, <2>4 DEF SavedUsers
  <2>7. pc = "returned" => userOf["UserController"] # NoUser
    BY <1>3, <2>1, <2>4
  <2> QED BY <1>1, <2>2, <2>3, <2>4, <2>5, <2>6, <2>7 DEF Slot!Next, Slot!Create
<1> QED BY <1>2, <1>3

\* The next process has signed in as nobody yet.
LEMMA RelaunchQuits ==
    ASSUME Relaunch
    PROVE  [Slot!Next]_(Slot!accountVars)
<1>1. UNCHANGED <<saved, creators>> /\ pc' # "returned"
  BY DEF Relaunch
<1> QED BY <1>1 DEF SavedUsers, Slot!Next, Slot!Quit

\* All other steps store nothing, and none goes on after the return.
LEMMA OtherStepsAreUnsaved ==
    ASSUME SessionInv, [SessionNext]_vars,
           ~SaveUser, ~StartButtonTapped, ~Relaunch
    PROVE  /\ UNCHANGED <<saved, creators>>
           /\ pc = "returned" => UNCHANGED userOf["UserController"] /\ pc' = pc
<1> USE DEF storeVars, serverVars, callbackVars, mainVars, Owners
<1>1. CASE ServerReplies \/ PutArrives \/ PutIsLost
  BY <1>1 DEF ServerReplies, PutArrives, PutIsLost
<1>2. CASE Callback
  BY <1>2 DEF Callback, CheckError, CheckData, CheckStatus, FindUser, CreateFetchedUser,
              CreateUser, NewUser, SendUser, SyncUser, SyncQuizUser, ShowUser
<1>3. CASE ShowHome \/ LeaveHome \/ Navigate
  BY <1>3 DEF ShowHome, LeaveHome, Navigate, SessionInv, SessionTypeOK
<1>4. CASE UNCHANGED vars
  BY <1>4 DEF vars
<1> QED BY <1>1, <1>2, <1>3, <1>4 DEF SessionNext, MainThread

\* From the return of the completion to the end of the process the app runs for one
\* stored user, the creator of every quiz, and no user is added or lost
\* (UserController.swift:80-133, QuizController.swift:163-175).
THEOREM SigningInServesOneAccount == SessionSpec => ServesOneAccount
<1>1. SessionInit => Slot!Init
  BY DEF SessionInit, SavedUsers, Slot!Init
<1>2. NoUser \notin SavedUsers
  BY DEF NoUser, SavedUsers
<1>3. SessionInv /\ SessionInv' /\ [SessionNext]_vars => [Slot!Next]_(Slot!accountVars)
  BY <1>2, UnsavedStep, SaveRegisters, StartCreates, RelaunchQuits, OtherStepsAreUnsaved
<1> QED
  BY <1>1, <1>3, SessionInvariance, PTL DEF SessionSpec, ServesOneAccount, Slot!Spec
=============================================================================
