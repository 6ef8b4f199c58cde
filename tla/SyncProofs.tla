----------------------------- MODULE SyncProofs -----------------------------
(***************************************************************************)
(* Proofs about creating users, quizzes and quotes: whatever fails the     *)
(* store is whole, and when no save fails the server has nothing but what  *)
(* is stored.  StoreProofs and ServerProofs go on from here.               *)
(***************************************************************************)
EXTENDS SyncProperties, TLAPS

-----------------------------------------------------------------------------
\* Requests on their way.

LEMMA AppendedRequest ==
    ASSUME NEW S, NEW s \in Seq(S), NEW e \in S
    PROVE  /\ Append(s, e) \in Seq(S)
           /\ Len(Append(s, e)) = Len(s) + 1
           /\ DOMAIN Append(s, e) = 1 .. Len(s) + 1
           /\ \A j \in 1 .. Len(s) : Append(s, e)[j] = s[j]
           /\ Append(s, e)[Len(s) + 1] = e
OBVIOUS

LEMMA JoinedSequences ==
    ASSUME NEW S, NEW a \in Seq(S), NEW b \in Seq(S)
    PROVE  /\ a \o b \in Seq(S)
           /\ Len(a \o b) = Len(a) + Len(b)
           /\ \A j \in 1 .. Len(a) + Len(b) :
                 (a \o b)[j] = IF j <= Len(a) THEN a[j] ELSE b[j - Len(a)]
OBVIOUS

LEMMA RemovedRequest ==
    ASSUME NEW S, NEW s \in Seq(S), NEW i \in 1 .. Len(s)
    PROVE  /\ RemoveAt(s, i) \in Seq(S)
           /\ Len(RemoveAt(s, i)) = Len(s) - 1
           /\ DOMAIN RemoveAt(s, i) = 1 .. Len(s) - 1
           /\ \A j \in 1 .. Len(s) - 1 :
                 RemoveAt(s, i)[j] = IF j < i THEN s[j] ELSE s[j + 1]
<1> DEFINE a == SubSeq(s, 1, i - 1)
           b == SubSeq(s, i + 1, Len(s))
<1>1. a \in Seq(S) /\ Len(a) = i - 1 /\ \A j \in 1 .. i - 1 : a[j] = s[j]
  OBVIOUS
<1>2. b \in Seq(S) /\ Len(b) = Len(s) - i /\ \A j \in 1 .. Len(s) - i : b[j] = s[j + i]
  <2>1. b \in Seq(S) /\ Len(b) = Len(s) - i
    OBVIOUS
  <2>2. ASSUME NEW j \in 1 .. Len(s) - i
        PROVE  b[j] = s[j + i]
    OBVIOUS
  <2> QED BY <2>1, <2>2
<1> HIDE DEF a, b
<1>0. Len(s) \in Nat /\ i \in Nat
  OBVIOUS
<1>3. /\ a \o b \in Seq(S)
      /\ Len(a \o b) = Len(s) - 1
      /\ \A j \in 1 .. Len(s) - 1 :
            (a \o b)[j] = IF j <= i - 1 THEN a[j] ELSE b[j - (i - 1)]
  <2>1. Len(a) + Len(b) = Len(s) - 1
    BY <1>0, <1>1, <1>2
  <2>2. /\ a \o b \in Seq(S)
        /\ Len(a \o b) = Len(a) + Len(b)
        /\ \A j \in 1 .. Len(a) + Len(b) :
              (a \o b)[j] = IF j <= Len(a) THEN a[j] ELSE b[j - Len(a)]
    BY <1>1, <1>2, JoinedSequences
  <2> QED BY <1>1, <2>1, <2>2
<1>4. ASSUME NEW j \in 1 .. Len(s) - 1
      PROVE  (a \o b)[j] = IF j < i THEN s[j] ELSE s[j + 1]
  <2>1. CASE j < i
    BY <1>0, <1>1, <1>3, <2>1
  <2>2. CASE j >= i
    <3>1. (a \o b)[j] = b[j - (i - 1)]
      BY <1>0, <1>3, <2>2
    <3>2. j - (i - 1) \in 1 .. Len(s) - i
      BY <1>0, <2>2
    <3> QED BY <1>0, <1>2, <2>2, <3>1, <3>2
  <2>3. j \in Nat
    BY <1>0
  <2>4. j < i \/ j >= i
    BY <1>0, <2>3
  <2> QED BY <2>1, <2>2, <2>4
<1>5. RemoveAt(s, i) = a \o b
  BY DEF RemoveAt, a, b
<1>6. Len(s) - 1 \in Nat
  BY <1>0
<1> QED BY <1>3, <1>4, <1>5, <1>6

LEMMA RemovedFromRange ==
    ASSUME NEW S, NEW s \in Seq(S), NEW i \in DOMAIN s, NEW j \in DOMAIN RemoveAt(s, i)
    PROVE  RemoveAt(s, i)[j] \in Range(s)
<1>1. i \in 1 .. Len(s)
  OBVIOUS
<1>2. /\ DOMAIN RemoveAt(s, i) = 1 .. Len(s) - 1
      /\ \A k \in 1 .. Len(s) - 1 :
            RemoveAt(s, i)[k] = IF k < i THEN s[k] ELSE s[k + 1]
  BY <1>1, RemovedRequest
<1>3. j \in DOMAIN s /\ j + 1 \in DOMAIN s
  BY <1>2
<1> QED BY <1>2, <1>3 DEF Range

-----------------------------------------------------------------------------
LEMMA InitEstablishesInv == Init => SyncInv
BY DEF Init, SyncInv, StoreInv, SyncTypeOK, StoreIsWhole, IsWhole, ContextInit, ServerInit, Created,
       Object, Entities, SentKinds, UserIDs, QuizIDs, QuoteIDs, None, Detached, Listed,
       ServerWithinStore, PlaysOwnQuotes, NoSaveFailed, InOrder, Range, HasID, HasUser,
       OnlyUsersReplace, ReplacesNothing, WrittenIsCached, StoredQuotes

-----------------------------------------------------------------------------
\* Sets of objects that stay whole.

\* An object that needs no other
LEMMA WholeWithOne ==
    ASSUME NEW S, IsWhole(S), NEW object,
           object.kind \notin {"quote", "link"},
           object.kind = "quiz" => User(object.parent) \in S
    PROVE  IsWhole(S \cup {object})
<1> DEFINE T == S \cup {object}
<1>1. S \subseteq T /\ \A o \in T : o \in S \/ o = object
  OBVIOUS
<1> HIDE DEF T
<1>2. IsWhole(T)
  BY <1>1 DEF IsWhole
<1> QED BY <1>2 DEF T

LEMMA WholeWithQuote ==
    ASSUME NEW S, IsWhole(S), NEW q, NEW z,
           \E o \in S : o.kind = "quiz" /\ o.id = z
    PROVE  IsWhole(S \cup {Quote(q, z), Link(q, z)})
<1> DEFINE T == S \cup {Quote(q, z), Link(q, z)}
<1>1. ASSUME NEW o \in S
      PROVE  /\ o.kind = "quote" => Link(o.id, o.parent) \in T
             /\ o.kind = "link" => Quote(o.id, o.parent) \in T
             /\ o.kind \in {"quote", "link"} =>
                     \E y \in T : y.kind = "quiz" /\ y.id = o.parent
             /\ o.kind = "quiz" => User(o.parent) \in T
  BY DEF IsWhole
<1>2. \E y \in T : y.kind = "quiz" /\ y.id = z
  OBVIOUS
<1>3. /\ Quote(q, z).kind = "quote" /\ Quote(q, z).id = q /\ Quote(q, z).parent = z
      /\ Link(q, z).kind = "link" /\ Link(q, z).id = q /\ Link(q, z).parent = z
  BY DEF Quote, Link
<1>4. Quote(q, z) \in T /\ Link(q, z) \in T
  OBVIOUS
<1> HIDE DEF T
<1>5. \A o \in T : o \in S \/ o = Quote(q, z) \/ o = Link(q, z)
  BY DEF T
<1>6. IsWhole(T)
  BY <1>1, <1>2, <1>3, <1>4, <1>5 DEF IsWhole
<1> QED BY <1>6 DEF T

\* Numbers are only ever given out.
Grows ==
    /\ last' \in [user : Nat, quiz : Nat, quote : Nat]
    /\ last.user <= last'.user
    /\ last.quiz <= last'.quiz
    /\ last.quote <= last'.quote

LEMMA CreatedStays ==
    ASSUME last \in [user : Nat, quiz : Nat, quote : Nat], Grows, NEW o, Created(o)
    PROVE  Created(o)'
BY DEF Grows, Created, UserIDs, QuizIDs, QuoteIDs

\* What Core Data has after a save or a reset.
LEMMA SaveKeepsContext ==
    ASSUME StoreInv, Grows,
           NEW objects, NEW saved \in SaveOutcomes, Save(objects, saved),
           \A o \in objects : Created(o)' /\ o.kind # "quizWithoutID",
           IsWhole(context \cup objects)
    PROVE  /\ \A o \in context' \cup store' : Created(o)'
           /\ StoreIsWhole'
           /\ context' = store'
           /\ NoSaveFailed' =>
                /\ NoSaveFailed /\ saved
                /\ context' = context \cup objects
                /\ store \subseteq store'
                /\ \A o \in context' : o.kind # "quizWithoutID"
           /\ NoSaveFailed' \/ "save" \in Faults
           /\ saves' \in {"succeeded", "failed"}
           /\ saved => context' = context \cup objects
           /\ ~saved => context' = store
<1>1. \A o \in context \cup store : Created(o)'
  BY CreatedStays DEF StoreInv, SyncTypeOK
<1>2. saved \in BOOLEAN /\ (saved \/ "save" \in Faults)
  BY DEF SaveOutcomes
<1>3. CASE saved
  <2>1. context' = context \cup objects /\ store' = context' /\ saves' = saves
    BY <1>3 DEF Save
  <2> QED BY <1>1, <1>3, <2>1 DEF StoreInv, SyncTypeOK, StoreIsWhole, IsWhole, NoSaveFailed
<1>4. CASE ~saved
  <2>1. context' = store /\ store' = context' /\ saves' = "failed"
    BY <1>4 DEF Save
  <2> QED BY <1>1, <1>2, <1>4, <2>1 DEF StoreInv, StoreIsWhole, IsWhole, NoSaveFailed
<1> QED BY <1>2, <1>3, <1>4

\* What the server has, and is sent, when one more object is.
LEMMA SendKeepsServer ==
    ASSUME StoreInv, Grows, NEW object, Send(object),
           Created(object)', object.kind \in SentKinds,
           NoSaveFailed' => NoSaveFailed /\ store \subseteq store' /\ object \in store'
    PROVE  /\ requests' \in Seq(Object)
           /\ delivery' \in {"ordered", "overtaken"}
           /\ \A o \in server' \cup Range(requests') : Created(o)' /\ o.kind \in SentKinds
           /\ ServerWithinStore'
<1>1. /\ requests' = Append(requests, object)
      /\ server' = server
  BY DEF Send
<1>2. requests \in Seq(Object) /\ object \in Object
  BY DEF StoreInv, SyncTypeOK, Created
<1>3. /\ requests' \in Seq(Object)
      /\ DOMAIN requests' = 1 .. Len(requests) + 1
      /\ \A j \in 1 .. Len(requests) : requests'[j] = requests[j]
      /\ requests'[Len(requests) + 1] = object
  BY <1>1, <1>2, AppendedRequest
<1>4. Range(requests') \subseteq Range(requests) \cup {object}
  BY <1>2, <1>3 DEF Range
<1>5. \A o \in server \cup Range(requests) : Created(o)' /\ o.kind \in SentKinds
  BY CreatedStays DEF StoreInv, SyncTypeOK
<1>6. ServerWithinStore'
  BY <1>1, <1>4 DEF StoreInv, ServerWithinStore
<1>7. delivery' \in {"ordered", "overtaken"}
  BY DEF Send, StoreInv, SyncTypeOK
<1> QED BY <1>1, <1>3, <1>4, <1>5, <1>6, <1>7

\* The same when nothing is sent or when requests are taken away
LEMMA NothingSentKeepsServer ==
    ASSUME StoreInv, Grows, UNCHANGED serverVars,
           NoSaveFailed' => NoSaveFailed /\ store \subseteq store'
    PROVE  /\ requests' \in Seq(Object)
           /\ delivery' \in {"ordered", "overtaken"}
           /\ \A o \in server' \cup Range(requests') : Created(o)' /\ o.kind \in SentKinds
           /\ ServerWithinStore'
<1>1. \A o \in server \cup Range(requests) : Created(o)' /\ o.kind \in SentKinds
  BY CreatedStays DEF StoreInv, SyncTypeOK
<1> QED BY <1>1 DEF StoreInv, SyncTypeOK, ServerWithinStore, serverVars

-----------------------------------------------------------------------------
\* The steps of StoreInv.

\* A new user, saved or not; its request may be sent.
LEMMA NewUserKeepsStoreInv ==
    ASSUME StoreInv, NEW saved \in SaveOutcomes, NewUser(saved),
           UNCHANGED <<quotes, screenVars>>,
           signIn' \in {"waiting", "again", "done"},
           UNCHANGED serverVars \/ Send(User(last.user + 1))
    PROVE  StoreInv'
<1>0. PICK n : n = last.user + 1
  OBVIOUS
<1>1. /\ n \in Nat /\ n \in UserIDs' /\ n > 0 /\ Grows
      /\ UserIDs \subseteq UserIDs' /\ QuizIDs' = QuizIDs /\ QuoteIDs' = QuoteIDs
      /\ last \in [user : Nat, quiz : Nat, quote : Nat]
  BY <1>0 DEF NewUser, StoreInv, SyncTypeOK, Grows, UserIDs, QuizIDs, QuoteIDs
<1>2. \A o \in {User(n)} :
         Created(o)' /\ o.kind = "user" /\ o.kind # "quizWithoutID" /\ o.kind \in SentKinds
  BY <1>1 DEF Created, Object, Entities, SentKinds, User
<1>3. IsWhole(context \cup {User(n)})
  BY <1>2, WholeWithOne DEF StoreInv, StoreIsWhole
<1>4. /\ Save({User(n)}, saved)
      /\ user' = Kept(n, saved)
      /\ quiz' = Kept(quiz, saved)
  BY <1>0 DEF NewUser
<1>5. /\ \A o \in context' \cup store' : Created(o)'
      /\ StoreIsWhole'
      /\ context' = store'
      /\ NoSaveFailed' =>
           /\ NoSaveFailed /\ saved
           /\ context' = context \cup {User(n)}
           /\ store \subseteq store'
           /\ \A o \in context' : o.kind # "quizWithoutID"
      /\ NoSaveFailed' \/ "save" \in Faults
      /\ saves' \in {"succeeded", "failed"}
      /\ saved => context' = context \cup {User(n)}
  <2>1. PICK objects : objects = {User(n)}
    OBVIOUS
  <2>2. \A o \in objects : Created(o)' /\ o.kind # "quizWithoutID"
    BY <1>2, <2>1
  <2>3. Save(objects, saved) /\ IsWhole(context \cup objects)
    BY <1>3, <1>4, <2>1
  <2>4. Grows
    BY <1>1
  <2>5. /\ \A o \in context' \cup store' : Created(o)'
        /\ StoreIsWhole'
        /\ context' = store'
        /\ NoSaveFailed' =>
             /\ NoSaveFailed /\ saved
             /\ context' = context \cup objects
             /\ store \subseteq store'
             /\ \A o \in context' : o.kind # "quizWithoutID"
        /\ NoSaveFailed' \/ "save" \in Faults
        /\ saves' \in {"succeeded", "failed"}
        /\ saved => context' = context \cup objects
    BY <2>2, <2>3, <2>4, SaveKeepsContext
  <2> QED BY <2>1, <2>5
<1>6. /\ requests' \in Seq(Object)
      /\ delivery' \in {"ordered", "overtaken"}
      /\ \A o \in server' \cup Range(requests') : Created(o)' /\ o.kind \in SentKinds
      /\ ServerWithinStore'
  <2>1. CASE UNCHANGED serverVars
    BY <1>1, <1>5, <2>1, NothingSentKeepsServer
  <2>2. CASE Send(User(n))
    BY <1>1, <1>2, <1>5, <2>2, SendKeepsServer
  <2> QED BY <1>0, <2>1, <2>2
<1>7. saved \in BOOLEAN /\ (NoSaveFailed' => saved)
  BY <1>5 DEF SaveOutcomes
<1>8. /\ user' \in UserIDs' \cup {None, Detached}
      /\ quiz' \in QuizIDs' \cup {None, Detached}
      /\ user' \in UserIDs' => User(user') \in context'
      /\ quiz' \in QuizIDs' => user' \in UserIDs' /\ \E o \in Listed' : o.id = quiz'
      /\ NoSaveFailed' => user' # Detached
  <2>1. CASE saved
    <3>1. user' = n /\ quiz' = quiz /\ n # Detached
      BY <1>1, <1>4, <2>1 DEF Kept, Detached
    <3>2. User(n) \in context' /\ context \subseteq context'
      BY <1>5, <2>1
    <3>3. Listed \subseteq Listed'
      BY <3>2 DEF Listed
    <3> QED BY <1>1, <3>1, <3>2, <3>3 DEF StoreInv, SyncTypeOK
  <2>2. CASE ~saved
    <3>1. user' = Detached /\ quiz' \in {None, Detached}
      BY <1>1, <1>4, <2>2 DEF Kept, None
    <3>2. Detached \notin UserIDs' /\ Detached \notin QuizIDs' /\ None \notin QuizIDs'
      BY DEF UserIDs, QuizIDs, Detached, None
    <3> QED BY <1>7, <2>2, <3>1, <3>2
  <2> QED BY <1>7, <2>1, <2>2
<1>9. PlaysOwnQuotes'
  BY <1>5 DEF StoreInv, PlaysOwnQuotes, screenVars
<1>10. SyncTypeOK'
  <2>1. /\ quotes' \subseteq QuoteIDs'
        /\ screen' \in {"Home", "NewQuote", "Quote"}
        /\ played' \in QuizIDs' \cup {None}
    BY <1>1 DEF StoreInv, SyncTypeOK, screenVars
  <2>2. last' \in [user : Nat, quiz : Nat, quote : Nat]
    BY <1>1 DEF Grows
  <2> QED BY <1>5, <1>6, <1>8, <2>1, <2>2 DEF SyncTypeOK
<1> QED
  BY <1>5, <1>6, <1>8, <1>9, <1>10 DEF StoreInv

LEMMA SignInKeepsStoreInv ==
    ASSUME StoreInv, SigningIn
    PROVE  StoreInv'
<1>1. CASE SignInSucceeds /\ FindUser
  BY <1>1 DEF StoreInv, SyncTypeOK, StoreIsWhole, IsWhole, Created, UserIDs, QuizIDs,
              QuoteIDs, None, Detached, Listed, ServerWithinStore, PlaysOwnQuotes,
              NoSaveFailed, HasID, contextVars, serverVars, screenVars, SignInSucceeds, FindUser
<1>2. CASE SignInSucceeds /\ CreateFetchedUser
  <2>1. PICK saved \in SaveOutcomes : NewUser(saved)
    BY <1>2 DEF CreateFetchedUser
  <2> QED BY <1>2, <2>1, NewUserKeepsStoreInv DEF SignInSucceeds
<1>3. CASE SignInFails
  <2>1. PICK saved \in SaveOutcomes : NewUser(saved)
    BY <1>3 DEF SignInFails
  <2> QED BY <1>3, <2>1, NewUserKeepsStoreInv DEF SignInFails
<1> QED BY <1>1, <1>2, <1>3 DEF SigningIn, SignInSucceeds

-----------------------------------------------------------------------------
LEMMA StartKeepsStoreInv ==
    ASSUME StoreInv, StartButtonTapped, user # Detached
    PROVE  StoreInv'
<1>0. PICK z, u : z = last.quiz + 1 /\ u = user
  OBVIOUS
<1>1. /\ z \in Nat /\ z \in QuizIDs' /\ z > 0 /\ last.quiz \in Nat
      /\ QuizIDs \subseteq QuizIDs' /\ UserIDs' = UserIDs /\ QuoteIDs' = QuoteIDs
  BY <1>0 DEF StartButtonTapped, StoreInv, SyncTypeOK, UserIDs, QuizIDs, QuoteIDs
<1>2. Grows
  BY DEF StartButtonTapped, StoreInv, SyncTypeOK, Grows
<1>3. u \in UserIDs /\ u \in Nat /\ User(u) \in context
  BY <1>0 DEF StartButtonTapped, StoreInv, SyncTypeOK, UserIDs
<1>4. PICK objects : objects = {Quiz(z, u)}
  OBVIOUS
<1>5. /\ \A o \in objects : Created(o)' /\ o.kind # "quizWithoutID" /\ o.kind \in SentKinds
      /\ Quiz(z, u) \in objects
      /\ Quiz(z, u).kind = "quiz" /\ Quiz(z, u).id = z /\ Quiz(z, u).parent = u
  BY <1>1, <1>3, <1>4 DEF Created, Object, Entities, SentKinds, Quiz
<1>6. IsWhole(context \cup objects)
  <2>1. IsWhole(context \cup {Quiz(z, u)})
    BY <1>3, <1>5, WholeWithOne DEF StoreInv, StoreIsWhole
  <2> QED BY <1>4, <2>1
<1>7. PICK saved \in SaveOutcomes :
           /\ Save(objects, saved)
           /\ quiz' = Kept(z, saved)
           /\ user' = Kept(u, saved)
  BY <1>0, <1>4 DEF StartButtonTapped, createEmptyQuiz
<1>8. /\ \A o \in context' \cup store' : Created(o)'
      /\ StoreIsWhole'
      /\ context' = store'
      /\ NoSaveFailed' =>
           /\ NoSaveFailed /\ saved
           /\ context' = context \cup objects
           /\ store \subseteq store'
           /\ \A o \in context' : o.kind # "quizWithoutID"
      /\ NoSaveFailed' \/ "save" \in Faults
      /\ saves' \in {"succeeded", "failed"}
      /\ saved => context' = context \cup objects
  BY <1>2, <1>5, <1>6, <1>7, SaveKeepsContext
<1>9. /\ requests' \in Seq(Object)
      /\ delivery' \in {"ordered", "overtaken"}
      /\ \A o \in server' \cup Range(requests') : Created(o)' /\ o.kind \in SentKinds
      /\ ServerWithinStore'
  <2>1. PICK object \in objects : Send(object)
    BY <1>0, <1>5 DEF StartButtonTapped, createEmptyQuiz
  <2>2. NoSaveFailed' => NoSaveFailed /\ store \subseteq store' /\ object \in store'
    BY <1>8, <2>1
  <2> QED BY <1>2, <1>5, <2>1, <2>2, SendKeepsServer
<1>10. saved \in BOOLEAN /\ (NoSaveFailed' => saved)
  BY <1>8 DEF SaveOutcomes
<1>11. /\ user' \in UserIDs' \cup {None, Detached}
       /\ quiz' \in QuizIDs' \cup {None, Detached}
       /\ user' \in UserIDs' => User(user') \in context'
       /\ quiz' \in QuizIDs' => user' \in UserIDs' /\ \E o \in Listed' : o.id = quiz'
       /\ NoSaveFailed' => user' # Detached
  <2>1. CASE saved
    <3>1. user' = u /\ quiz' = z /\ u # Detached
      BY <1>3, <1>7, <2>1 DEF Kept, Detached
    <3>2. User(u) \in context' /\ Quiz(z, u) \in context'
      BY <1>3, <1>5, <1>8, <2>1
    <3>3. Quiz(z, u) \in Listed'
      BY <1>5, <3>2 DEF Listed
    <3> QED BY <1>1, <1>3, <1>5, <3>1, <3>2, <3>3
  <2>2. CASE ~saved
    <3>1. user' = Detached /\ quiz' = Detached
      BY <1>1, <1>3, <1>7, <2>2 DEF Kept, None, UserIDs
    <3>2. Detached \notin UserIDs' /\ Detached \notin QuizIDs'
      BY DEF UserIDs, QuizIDs, Detached
    <3> QED BY <1>10, <2>2, <3>1, <3>2
  <2> QED BY <1>10, <2>1, <2>2
<1>12. SyncTypeOK'
  <2>1. /\ quotes' \subseteq QuoteIDs'
        /\ screen' \in {"Home", "NewQuote", "Quote"}
        /\ played' \in QuizIDs' \cup {None}
        /\ signIn' \in {"waiting", "again", "done"}
    BY <1>1 DEF StartButtonTapped, StoreInv, SyncTypeOK
  <2>2. last' \in [user : Nat, quiz : Nat, quote : Nat]
    BY <1>2 DEF Grows
  <2> QED BY <1>8, <1>9, <1>11, <2>1, <2>2 DEF SyncTypeOK
<1>13. PlaysOwnQuotes'
  BY DEF StartButtonTapped, PlaysOwnQuotes
<1> QED
  BY <1>8, <1>9, <1>11, <1>12, <1>13 DEF StoreInv

\* Without a user to create it for, the quiz has no id, and no relationship.
LEMMA DetachedStartKeepsStoreInv ==
    ASSUME StoreInv, StartButtonTapped, user = Detached
    PROVE  StoreInv'
<1>0. PICK z : z = last.quiz + 1
  OBVIOUS
<1>1. /\ z \in Nat /\ z \in QuizIDs' /\ z \notin QuizIDs /\ last.quiz \in Nat
      /\ QuizIDs \subseteq QuizIDs' /\ UserIDs' = UserIDs /\ QuoteIDs' = QuoteIDs
  BY <1>0 DEF StartButtonTapped, StoreInv, SyncTypeOK, UserIDs, QuizIDs, QuoteIDs
<1>2. Grows
  BY DEF StartButtonTapped, StoreInv, SyncTypeOK, Grows
<1>3. PICK object : object = QuizWithoutID(z)
  OBVIOUS
<1>4. /\ context' = context \cup {object}
      /\ store' = store
      /\ quiz' = z /\ user' = user
      /\ UNCHANGED <<serverVars, saves>>
  BY <1>0, <1>3 DEF StartButtonTapped, createEmptyQuiz, Insert
<1>5. Created(object)' /\ object.kind = "quizWithoutID" /\ object.id = z
  BY <1>1, <1>3 DEF Created, Object, Entities, QuizWithoutID
<1>6. StoreIsWhole'
  <2>1. IsWhole(context \cup {object})
    BY <1>5, WholeWithOne DEF StoreInv, StoreIsWhole
  <2> QED BY <1>4, <2>1 DEF StoreInv, StoreIsWhole
<1>7. \A o \in context' \cup store' : Created(o)'
  BY <1>2, <1>4, <1>5, CreatedStays DEF StoreInv, SyncTypeOK
<1>8. /\ requests' \in Seq(Object)
      /\ delivery' \in {"ordered", "overtaken"}
      /\ \A o \in server' \cup Range(requests') : Created(o)' /\ o.kind \in SentKinds
  BY <1>2, <1>4, NothingSentKeepsServer DEF NoSaveFailed
<1>9. /\ user' = Detached
      /\ Detached \notin UserIDs'
  BY <1>1, <1>4 DEF UserIDs, Detached
<1>10. "save" \in Faults /\ ~NoSaveFailed' /\ saves' \in {"succeeded", "failed"}
  BY <1>4 DEF StoreInv, SyncTypeOK, NoSaveFailed
<1>11. ~HasID(quiz)' /\ \E o \in Listed' : o.id = quiz'
  <2>1. \A o \in context : ~(o.kind = "quiz" /\ o.id = z)
    BY <1>1 DEF StoreInv, SyncTypeOK, Created
  <2> QED BY <1>4, <1>5, <2>1 DEF HasID, Listed
<1>12. SyncTypeOK'
  <2>1. /\ quotes' \subseteq QuoteIDs'
        /\ screen' \in {"Home", "NewQuote", "Quote"}
        /\ played' \in QuizIDs' \cup {None}
        /\ signIn' \in {"waiting", "again", "done"}
    BY <1>1 DEF StartButtonTapped, StoreInv, SyncTypeOK
  <2>2. last' \in [user : Nat, quiz : Nat, quote : Nat]
    BY <1>2 DEF Grows
  <2> QED BY <1>1, <1>4, <1>7, <1>8, <1>9, <1>10, <2>1, <2>2 DEF SyncTypeOK
<1>13. /\ store' \subseteq context'
       /\ \A o \in context' : o.kind # "quizWithoutID" => o \in store'
  BY <1>4, <1>5 DEF StoreInv
<1> QED
  BY <1>6, <1>9, <1>10, <1>11, <1>12, <1>13
     DEF StoreInv, ServerWithinStore, PlaysOwnQuotes

LEMMA QuoteKeepsStoreInv ==
    ASSUME StoreInv, CreateQuote
    PROVE  StoreInv'
<1>0. PICK q, z, u : q = last.quote + 1 /\ z = quiz /\ u = user
  OBVIOUS
<1>1. /\ q \in Nat /\ q \in QuoteIDs' /\ last.quote \in Nat
      /\ QuoteIDs \subseteq QuoteIDs' /\ UserIDs' = UserIDs /\ QuizIDs' = QuizIDs
  BY <1>0 DEF CreateQuote, StoreInv, SyncTypeOK, UserIDs, QuizIDs, QuoteIDs
<1>2. Grows
  BY DEF CreateQuote, StoreInv, SyncTypeOK, Grows
<1>3. /\ z \in QuizIDs /\ z \in Nat /\ u \in UserIDs /\ User(u) \in context
      /\ \E o \in context : o.kind = "quiz" /\ o.id = z
  <2>1. PICK o \in context : o.kind = "quiz" /\ o.id = z
    BY <1>0 DEF CreateQuote, HasID
  <2>2. z \in QuizIDs
    BY <2>1 DEF StoreInv, SyncTypeOK, Created
  <2>3. HasID(quiz)
    BY DEF CreateQuote
  <2> QED BY <1>0, <2>1, <2>2, <2>3 DEF StoreInv, QuizIDs
<1>4. PICK objects : objects = {Quote(q, z), Link(q, z)}
  OBVIOUS
<1>5. /\ \A o \in objects : Created(o)' /\ o.kind # "quizWithoutID"
      /\ Quote(q, z) \in objects
      /\ Quote(q, z).kind \in SentKinds
  BY <1>1, <1>3, <1>4 DEF Created, Object, Entities, SentKinds, Quote, Link
<1>6. IsWhole(context \cup objects)
  <2>1. IsWhole(context \cup {Quote(q, z), Link(q, z)})
    BY <1>3, WholeWithQuote DEF StoreInv, StoreIsWhole
  <2> QED BY <1>4, <2>1
<1>7. user # Detached
  BY <1>0, <1>3 DEF UserIDs, Detached
<1>8. PICK saved \in SaveOutcomes :
           /\ Save(objects, saved)
           /\ quiz' = Kept(z, saved)
           /\ user' = Kept(u, saved)
  BY <1>0, <1>4, <1>7 DEF CreateQuote
<1>9. /\ \A o \in context' \cup store' : Created(o)'
      /\ StoreIsWhole'
      /\ context' = store'
      /\ NoSaveFailed' =>
           /\ NoSaveFailed /\ saved
           /\ context' = context \cup objects
           /\ store \subseteq store'
           /\ \A o \in context' : o.kind # "quizWithoutID"
      /\ NoSaveFailed' \/ "save" \in Faults
      /\ saves' \in {"succeeded", "failed"}
      /\ saved => context' = context \cup objects
  BY <1>2, <1>5, <1>6, <1>8, SaveKeepsContext
<1>10. /\ requests' \in Seq(Object)
       /\ delivery' \in {"ordered", "overtaken"}
       /\ \A o \in server' \cup Range(requests') : Created(o)' /\ o.kind \in SentKinds
       /\ ServerWithinStore'
  <2>1. PICK object \in objects : Send(object) /\ object.kind \in SentKinds
    BY <1>0, <1>5, <1>7 DEF CreateQuote
  <2>2. NoSaveFailed' => NoSaveFailed /\ store \subseteq store' /\ object \in store'
    BY <1>9, <2>1
  <2> QED BY <1>2, <1>5, <2>1, <2>2, SendKeepsServer
<1>11. saved \in BOOLEAN /\ (NoSaveFailed' => saved)
  BY <1>9 DEF SaveOutcomes
<1>12. /\ user' \in UserIDs' \cup {None, Detached}
       /\ quiz' \in QuizIDs' \cup {None, Detached}
       /\ user' \in UserIDs' => User(user') \in context'
       /\ quiz' \in QuizIDs' => user' \in UserIDs' /\ \E o \in Listed' : o.id = quiz'
       /\ NoSaveFailed' => user' # Detached
  <2>1. CASE saved
    <3>1. user' = u /\ quiz' = z /\ u # Detached
      BY <1>0, <1>7, <1>8, <2>1 DEF Kept
    <3>2. context \subseteq context'
      BY <1>9, <2>1
    <3>3. \E o \in Listed' : o.id = z
      BY <1>3, <3>2 DEF Listed
    <3> QED BY <1>1, <1>3, <3>1, <3>2, <3>3
  <2>2. CASE ~saved
    <3>1. user' = Detached /\ quiz' = Detached
      BY <1>3, <1>8, <2>2 DEF Kept, None, UserIDs, QuizIDs
    <3>2. Detached \notin UserIDs' /\ Detached \notin QuizIDs'
      BY DEF UserIDs, QuizIDs, Detached
    <3> QED BY <1>11, <2>2, <3>1, <3>2
  <2> QED BY <1>11, <2>1, <2>2
<1>13. SyncTypeOK'
  <2>1. quotes' = quotes \cup {q}
    BY <1>0, <1>7 DEF CreateQuote
  <2>2. /\ quotes' \subseteq QuoteIDs'
        /\ screen' \in {"Home", "NewQuote", "Quote"}
        /\ played' \in QuizIDs' \cup {None}
        /\ signIn' \in {"waiting", "again", "done"}
    BY <1>1, <2>1 DEF CreateQuote, StoreInv, SyncTypeOK, screenVars
  <2>3. last' \in [user : Nat, quiz : Nat, quote : Nat]
    BY <1>2 DEF Grows
  <2> QED BY <1>9, <1>10, <1>12, <2>2, <2>3 DEF SyncTypeOK
<1>14. PlaysOwnQuotes'
  BY DEF CreateQuote, PlaysOwnQuotes, screenVars
<1> QED
  BY <1>9, <1>10, <1>12, <1>13, <1>14 DEF StoreInv

LEMMA NetworkKeepsStoreInv ==
    ASSUME StoreInv, RequestArrives \/ RequestIsLost
    PROVE  StoreInv'
<1>1. PICK i \in DOMAIN requests :
         /\ requests' = RemoveAt(requests, i)
         /\ server' = server \/ server' = Replace(server, requests[i])
         /\ delivery' \in {delivery, "overtaken"}
  BY DEF RequestArrives, RequestIsLost, Arrive, Lose
<1>2. /\ requests \in Seq(Object)
      /\ i \in 1 .. Len(requests)
  BY DEF StoreInv, SyncTypeOK
<1>3. requests' \in Seq(Object)
  BY <1>1, <1>2, RemovedRequest
<1>4. Range(requests') \subseteq Range(requests)
  BY <1>1, <1>2, RemovedFromRange DEF Range
<1>5. server' \subseteq server \cup Range(requests)
  BY <1>1 DEF Replace, Range
<1>6. UNCHANGED <<contextVars, controllerVars, screenVars, signIn, last>>
  BY DEF RequestArrives, RequestIsLost
<1>7. SyncTypeOK'
  <2>1. /\ \A o \in context' \cup store' \cup server' \cup Range(requests') : Created(o)
        /\ \A o \in server' \cup Range(requests') : o.kind \in SentKinds
    BY <1>4, <1>5, <1>6 DEF StoreInv, SyncTypeOK, contextVars
  <2> QED BY <1>1, <1>3, <1>6, <2>1 DEF StoreInv, SyncTypeOK, Created, UserIDs, QuizIDs, QuoteIDs,
                               contextVars, controllerVars, screenVars
<1>8. ServerWithinStore => ServerWithinStore'
  BY <1>4, <1>5, <1>6 DEF ServerWithinStore, NoSaveFailed, contextVars
<1> QED
  BY <1>6, <1>7, <1>8 DEF StoreInv, StoreIsWhole, UserIDs, QuizIDs, HasID, Listed,
                          PlaysOwnQuotes, NoSaveFailed, contextVars, controllerVars, screenVars

\* Playing fetches quotes of the quiz, or all there are when it has no id.
LEMMA PlayKeepsStoreInv ==
    ASSUME StoreInv, Play
    PROVE  StoreInv'
<1>1. PICK z \in Listed : played' = z.id /\ quotes' \in {getAllQuotesOf(z), {}}
  BY DEF Play
<1>2. /\ UNCHANGED <<contextVars, serverVars, user, quiz, signIn, last>>
      /\ screen' = "Quote"
  BY DEF Play
<1>3. /\ \A o \in context : Created(o)
      /\ z \in context /\ z.kind \in {"quiz", "quizWithoutID"}
  BY <1>1 DEF StoreInv, SyncTypeOK, Listed
<1>4. quotes' \subseteq QuoteIDs
  BY <1>1, <1>3 DEF getAllQuotesOf, Created
<1>5. played' \in QuizIDs
  BY <1>1, <1>3 DEF Created
<1>6. ASSUME NoSaveFailed, NEW q \in quotes'
      PROVE  Quote(q, played') \in store
  <2>1. z.kind = "quiz"
    BY <1>3, <1>6 DEF StoreInv
  <2>2. PICK o \in context : o.kind = "quote" /\ o.parent = z.id /\ o.id = q
    BY <1>1, <1>6, <2>1 DEF getAllQuotesOf
  <2>3. o \in store /\ o \in Object
    BY <1>3, <2>2 DEF StoreInv, Created
  <2>4. o = Quote(q, played')
    BY <1>1, <2>2, <2>3 DEF Object, Quote
  <2> QED BY <2>3, <2>4
<1>7. PlaysOwnQuotes'
  BY <1>2, <1>6 DEF PlaysOwnQuotes, NoSaveFailed, contextVars
<1> QED
  BY <1>2, <1>4, <1>5, <1>7
     DEF StoreInv, SyncTypeOK, StoreIsWhole, IsWhole, Created, UserIDs, QuizIDs, QuoteIDs,
         Listed, ServerWithinStore, NoSaveFailed, HasID, contextVars, serverVars

\* The other steps change neither the store nor what is on its way.
LEMMA OtherStepsKeepStoreInv ==
    ASSUME StoreInv, Leave \/ Relaunch \/ UNCHANGED vars
    PROVE  StoreInv'
<1> USE DEF StoreInv, SyncTypeOK, StoreIsWhole, IsWhole, Created, Object, Entities, SentKinds,
            UserIDs, QuizIDs, QuoteIDs, None, Detached, Listed, ServerWithinStore,
            PlaysOwnQuotes, NoSaveFailed, Range, HasID, HasUser, User, Quiz, QuizWithoutID, Quote, Link,
            contextVars, serverVars, controllerVars, screenVars
<1>1. CASE Leave
  BY <1>1 DEF Leave
<1>2. CASE Relaunch
  BY <1>2 DEF Relaunch, Reopen
<1>3. CASE UNCHANGED vars
  BY <1>3 DEF vars
<1> QED BY <1>1, <1>2, <1>3

LEMMA NextKeepsStoreInv == StoreInv /\ [Next]_vars => StoreInv'
<1> SUFFICES ASSUME StoreInv, [Next]_vars
             PROVE  StoreInv'
  OBVIOUS
<1>1. CASE SigningIn
  BY <1>1, SignInKeepsStoreInv
<1>2. CASE StartButtonTapped
  BY <1>2, StartKeepsStoreInv, DetachedStartKeepsStoreInv
<1>3. CASE CreateQuote
  BY <1>3, QuoteKeepsStoreInv
<1>4. CASE RequestArrives \/ RequestIsLost
  BY <1>4, NetworkKeepsStoreInv
<1>5. CASE Play
  BY <1>5, PlayKeepsStoreInv
<1>6. CASE Leave \/ Relaunch \/ UNCHANGED vars
  BY <1>6, OtherStepsKeepStoreInv
<1> QED
  BY <1>1, <1>2, <1>3, <1>4, <1>5, <1>6 DEF Next, UserActs

LEMMA StoreInvariance == Spec => []StoreInv
<1>1. Init => StoreInv
  BY InitEstablishesInv DEF SyncInv
<1> QED
  BY <1>1, NextKeepsStoreInv, PTL DEF Spec

-----------------------------------------------------------------------------
\* The theorems.  Whichever saves, fetches, sign-ins and requests fail, and however
\* often the app is launched:

\* The variables keep their types; among them, no number is on the server, on its
\* way or in Core Data that was not given out (LogInViewController.swift:23-35,
\* QuizController.swift:163-209).
THEOREM SyncTypeCorrect == Spec => []SyncTypeOK
<1>1. StoreInv => SyncTypeOK
  BY DEF StoreInv
<1> QED BY <1>1, StoreInvariance, PTL

\* No quote is ever without its quiz, and no quiz without its creator, in the
\* context or in the store (QuizController.swift:192-200, CoreDataStack.swift:34-43).
THEOREM StoreStaysWhole == Spec => []StoreIsWhole
<1>1. StoreInv => StoreIsWhole
  BY DEF StoreInv
<1> QED BY <1>1, StoreInvariance, PTL

\* A quiz that can take quotes has its user beside it (QuizController.swift:183-205,
\* QuoteController.swift:35-38).
THEOREM QuizKeepsItsUser == Spec => []QuizHasUser
<1>1. StoreInv => QuizHasUser
  <2> SUFFICES ASSUME StoreInv, HasID(quiz)
               PROVE  user \in UserIDs /\ User(user) \in context
    BY DEF QuizHasUser
  <2>1. PICK o \in context : o.kind = "quiz" /\ o.id = quiz
    BY DEF HasID
  <2>2. quiz \in QuizIDs
    BY <2>1 DEF StoreInv, SyncTypeOK, Created
  <2> QED BY <2>2 DEF StoreInv
<1> QED BY <1>1, StoreInvariance, PTL

\* As long as no save fails, whatever else does, the server has and gets nothing but
\* what is stored (QuizController.swift:139-145, 170-175, 200-205).
THEOREM ServerStaysWithinStore == Spec => []ServerWithinStore
<1>1. StoreInv => ServerWithinStore
  BY DEF StoreInv
<1> QED BY <1>1, StoreInvariance, PTL

\* As long as no save fails, a quiz is played with stored quotes of its own
\* (QuoteController.swift:78-96).
THEOREM QuizzesPlayTheirQuotes == Spec => []PlaysOwnQuotes
<1>1. StoreInv => PlaysOwnQuotes
  BY DEF StoreInv
<1> QED BY <1>1, StoreInvariance, PTL
=============================================================================
