# Know the Quote: TLA+ models, checks and proofs

Know the Quote is an iOS quiz app in Swift. A user signs in, writes quizzes made
of quotes with a missing answer and four wrong options, and plays them. Objects
live in Core Data and are also sent to a Firebase tree over HTTP. This directory
holds the specification of the app's own logic (about 1,900 lines under
`src/Know the Quote/`, without `Pods/`), the configurations that model-check it
and the proofs of its safety properties and refinements. Paths below are relative to
`src/Know the Quote/`.

## Inventory

| Component | State | Operations | Interacts with | Correct when |
|---|---|---|---|---|
| `QuizController` | `quotes` (dictionary 1..n), cursor `currentQuote`, `quiz`, `title`, `user` | `createEmptyQuiz`, `createQuote`, `canMoveToNext/Prev`, `moveToNext/PrevQuote`, `quizCanBeSaved`, `setupStart`, `nextQuoteToDisplay`, `put` | called by the writing and by the playing screens, which share its cache and cursor; calls `QuoteController`; saves in Core Data | limits 3 and 15 hold for each quiz, cursor and cache fit, relationship and `quizID` agree |
| `QuoteController` | `quotes`, `currentQuote`, `user` | `getAllQuotesOf`, `put` | called by `QuizController` | a fetch yields the quotes of one quiz, each once |
| `NewQuoteViewController` | seven text fields, `incompleteQuote`, `incorrectOptsArray`, three buttons | text edits, Prev, Next, Done | `QuizController` | no quote written is lost, drafts are kept, saved quotes are shown as saved |
| `QuoteViewController`, `QuizResultTableViewController`, `Score` | `quote`, `score` | option tapped, result rows, Done | `QuizController` | every quote asked once, score and rows agree |
| Navigation (`LogIn`, `Home`, `NewQuiz`, `Quizzes`, `Quiz` view controllers, storyboards) | the navigation stack | segues, back, pop to root | hands one `KQController` to every screen | screens find the state they rely on |
| `UserController`, `KQController`, `LogInViewController.getUser` | four references to the user; stored users | `fetch`, `createUser`, `syncUser` | network callbacks on a background queue | one user, the same everywhere |
| Firebase requests | tree `users/<name>/quizzesCreated/<id>/quotes/<id>` | PUT and GET | sent by the three controllers, never retried | server holds what is stored |
| `CoreDataStack` | managed object context | `save` (resets the context on failure) | all controllers | store and caches agree |

All handlers of the app run on the main thread to completion, except the
completion of the sign-in request. Hard to test are therefore long sequences of
legal taps over several quizzes, screens left half-way, relaunches, the literals
2, 14, 15 and 16 that must fit together, failed fetches and, for sign-in and
Firebase, late, lost and repeated callbacks. `PROJECT.json` lists each hazard at
its line with the properties that cover it.

## Modules

| Module | Models |
|---|---|
| `QuoteController` | the stored quotes, `QuoteController`'s cache, `getAllQuotesOf` |
| `QuizController` | limits, shared cache and cursor, `createEmptyQuiz`, `createQuote`, `setupStart`, `nextQuoteToDisplay` |
| `NewQuote` | `NewQuoteViewController`: one action per handler, `moveToNext` as one action per branch |
| `QuizPlay` | `QuizViewController`, `QuoteViewController`, `Score` and the result |
| `QuizApp` | composes the two halves with the navigation stack and with relaunches: `Spec` |
| `QuizRound` | abstract specification of playing: a pool of questions, each asked once |
| `Library` | abstract specification of writing: one quiz at a time gets quotes, up to a capacity, and what is there stays |
| `QuizAppProperties` | type invariant, safety, action and liveness properties, the refinement mappings to `QuizRound` and `Library`, the inductive invariant |
| `QuizAppProofs` | theorems and proofs about `QuizApp`: writing, the shared cache, the buttons |
| `RoundProofs` | theorems and proofs about `QuizApp`: stored quotes, score and result, the refinement to `QuizRound` |
| `LibraryProofs` | the refinement of `Library` by `QuizApp` |
| `Session` | signing in: `fetch`, `createUser`, `put` of the user, `getUser`, `syncUser`, on the background queue; the screens that copy the user; the user on the server |
| `Account` | abstract specification of signing in: accounts, the one the app runs for, and who created what |
| `SessionProperties` | what is checked of `Session`, the refinement mapping to `Account`, and its inductive invariant |
| `SessionProofs` | theorems and proofs about `Session`, with the refinement to `Account` |
| `ManagedContext` | Core Data: the managed object context, the store, `CoreDataStack.save`, the three entities |
| `FirebaseTree` | the tree on the server, PUTs that replace a subtree, requests on their way |
| `Sync` | composes the two: users, quizzes and quotes created, saved and sent, with what may go wrong as a constant |
| `Replica` | abstract specification: a primary and a copy that follows it |
| `SyncProperties` | what is checked of `Sync`, the refinement mappings to `Library` and `Replica`, the inductive invariant |
| `SyncProofs` | theorems and proofs about `Sync`: Core Data, and what the server may have |
| `StoreProofs` | the refinement of `Library` by the store of `Sync` |
| `ServerProofs` | theorems and proofs about the requests of `Sync`: what PUTs erase, and the refinement to `Replica` |

`QuizController` EXTENDS `QuoteController`; `NewQuote` and `QuizPlay` EXTEND
`QuizController`; `QuizApp` EXTENDS both. `Sync` EXTENDS `ManagedContext` and
`FirebaseTree`. Operators keep the names of the Swift methods; `PROJECT.json` maps
each to its lines.

Three compositions share the code between them, each in the detail its question
needs: `QuizApp` has every screen after sign-in and takes saves and requests to
succeed, `Session` has every statement of signing in, `Sync` has every save and
request and of the screens only what creates and fetches.

How state corresponds to the code:

- A quote is its position in `storedQuotes`, a quiz its position in `quizQuotes`.
  `quizQuotes[z]` is the Core Data relationship `quotes` of quiz `z`, while
  `storedQuotes[q].quizID` is the attribute the fetch predicate uses.
- Swift dictionaries are functions on their set of keys, so a wrong key or a
  stale entry can be expressed.
- The seven text fields form two groups, for the code treats them in two ways:
  the parts and the answer are shown again for a saved quote, the four incorrect
  options are not. A group is `Blank` while a field of it is empty.
- `incompleteQuote = nil` and a draft of blank fields are one value: the fields
  have been cleared when the draft is looked at, so the two act alike.
- A view controller that is popped loses its state (`CloseNewQuote`,
  `CloseQuoteVC`); the controllers below the log-in screen keep theirs. That is
  how one quiz influences the next.
- The literals 16, 14 and 2 in the code are written `quizMaxQuotes + 1`,
  `quizMaxQuotes - 1` and `quizMinQuotes - 1`, so that small limits can be
  checked; with 3 and 15 they are the literals.
- Fetching may return the rows in any order (no sort descriptor), or fail.
- `Relaunch` may happen between any two handlers; Core Data survives it.

In `Session` the completion of `fetch` has a program counter: `pc` is the statement
it is at, `back` the one it continues with when the completion it was given
returns (lines 83, 93, 98, 102 and 109 of `UserController.swift`), `result` what it
calls that with. Each statement is an action, so that the main thread, the server
and the end of the process come between any two. A handler on the main thread is one
action. The app knows a single user name, so users are numbered in the order they
are created; `1 .. saved` are in the store, `saved + 1 .. users` in the context
only. `userOf` holds the property `user` of the three controllers and of two view
controllers; `HomeVC` stands for the screens above it too, which get its copy.

`QuizApp` starts after sign-in with the user set. `put` calls its completion
with success before the request is sent, so for local state saving a quote is
one atomic step. Saves succeed in `QuizApp` and `Session`, and may fail in `Sync`.

In `Sync`:

- An object is its entity, its number (for the UUID) and the number of the object
  its attribute `creatorID` or `quizID` names. The relationship between a quote and
  its quiz is an element of its own (`Link`), for `createQuote` sets the attribute
  before `put` and the relationship after it.
- `Save` stores all that is pending in the context, or resets the context. What the
  controllers refer to then belongs to no context: `Detached`, whose attributes read
  nil. (Core Data may also end the process when such an object is used; that is a
  `Relaunch`.) `saves` is a history variable, whether one has failed.
- A quiz created for a detached user is a `quizWithoutID`: its initialiser returns
  early, `put` refuses it, and it stays in the context until the next save or reset.
- All paths of the tree begin with the one user name of the code, so a PUT of a user
  replaces the whole tree. The quiz sent has no quotes in it, for it has just been
  created. `delivery` is a history variable, whether a request has overtaken another.
- The constant `Faults` says what may go wrong: a failing save, a failing fetch, a
  sign-in that fails although the server has the user (with one call of the
  completion or two), requests lost, requests overtaking each other, the process
  ending while requests are on their way. The end of the process between a save and
  its request has the outcome of a lost request.
- Signing in is one step, with the outcomes `Session` shows it to have.

## Runs

| Run | Configuration | Shows |
|---|---|---|
| `small` | limits 3/4, 3 quizzes, one text per group; 424,038 states | type, cursor, limits, `ListedIsPlayed`, complete quotes, cache while playing, complete results, no quote dropped silently, enough quotes in a fresh quiz, buttons, the inductive invariants `IInv` and `RoundInv`; writing implements `Library!Spec` |
| `round` | limits 2/3, 2 quizzes, two answers, one of them also an incorrect option, fairness; 126,708 states | playing implements `QuizRound!Spec`; `RoundEnds` |
| `signin` | 3 launches, 2 quizzes created, fairness; 899,522 states | type, `UsersAgree`, `KnownUsersAreSaved`, `SessionInv`; `SignInEnds`; signing in implements `Account!Spec` |
| `faults` | every fault, 2 users, 2 quizzes, 2 quotes, `quizMaxQuotes` 1; 1,495,019 states | type, `StoreIsWhole`, `QuizHasUser` whatever fails, and the store implements `Library!Spec`; `ServerWithinStore`, `PlaysOwnQuotes` until a save fails; `OnlyUsersErase` until a request overtakes another; `SyncInv` |
| `mirror` | no fault, 1 user, 3 quizzes, 5 quotes, `quizMaxQuotes` 2, fairness; 3,895 states | the server implements `Replica!Spec`, with liveness, and the store `Library!Spec`; `SyncInv` |
| `min`, `draft`, `once`, `segue`, `overtaken`, `resigned`, `reset` | see the findings | violated, as described below |

Bounds. `MaxQuizzes` is the only bound on the behaviours of `QuizApp`; everything else is
bounded by the code. Three quizzes are needed, and suffice, for the deepest case:
a first full quiz fills the cache, a second pushes it to one beyond the limit, a
third finds `createQuote` closed. Limits 3/4 keep every branch of the buttons
apart: `quizMinQuotes - 1`, `quizMinQuotes`, `quizMaxQuotes`, and one more. The
literals 3 and 15 of the code are an instance of the theorems, which hold for all
limits. The texts matter only by being blank, equal or different. In `Session` the number of
launches bounds that of users; three launches let a PUT of the first arrive in the
second and be answered in the third, with up to six users stored.

In `faults`, two objects of each kind let one be stored, sent or lost while the
other is not: a second user over the quizzes of the first, a quiz for a user that is
gone after a quiz that is stored, a quote of either. With `quizMaxQuotes` 1 the cache takes
the two quotes and is full. Up to six requests are on their way in any order.
`Relaunch` is not bounded. In `mirror`, without faults only one user is ever
created; three quizzes and five quotes let requests of several levels wait together.
There a quiz can take three quotes, so that `StoreIsALibrary` meets full quizzes and
full caches, some full of quotes of another quiz; in `faults`, where a quiz can take
both quotes, it meets the faults.

Deadlock is checked in every run: some screen can always be left.

Fairness. Three runs use it. For `RoundEnds`, `PlayingSpec` assumes that a player who is
on the quote screen goes on tapping (weak fairness of `Select`). The code offers
the option buttons in every state of that screen, so the assumption concerns the
player alone; the property says that the cursor then reaches the end of the
cache. For `SignInEnds`, `FairSessionSpec` assumes that the request ends (weak
fairness of `ServerReplies`: URLSession calls every completion, if only with a
time-out) and that the queue goes on running that completion (weak fairness of
`Callback`). PUTs may be lost, and nothing is assumed of the main thread; since
launches are bounded, the property is about the last one. For `Mirrors`, `FairSpec`
assumes that requests arrive (weak fairness of `RequestArrives`): without the faults
"loss" and "relaunch" each data task that was resumed ends with its PUT done.

## Findings

- `min`: `createEmptyQuiz` (`QuizController.swift:163`) does not reset the cache,
  so a second quiz of a session can be closed with one quote, although
  `quizCanBeSaved` should "Check if there's enough quotes to create a quiz". With
  a fresh cache the limits do hold (`FreshQuizHasEnough`, proved), and the upper
  limit holds always (`QuizNeverOverfull`, proved). For the same reason the cursor may
  stand on a quote of the quiz before when the second quiz opens, and Next then takes
  the first quote of the new quiz for a saved one and clears it.
- `draft`: a second tap on Prev overwrites the incomplete quote
  (`NewQuoteViewController.swift:82`).
- `once`: data that does not decode and a status other than 200 each call the
  completion of `fetch` (`UserController.swift:102, 109`), so one failed sign-in
  creates two users of one name. All parts still end up with the second
  (`UsersAgree`, proved); a screen opened in between keeps the first.
- `segue`: after a successful fetch the log-in screen has the user one statement
  before `syncUser` runs on the background queue. The window is narrow, but a tap on
  Start within it opens the quote screen without a quiz
  (`NewQuizViewController.swift:41`), and every quote written there is dropped.

- `overtaken`: the requests of a new quiz and of its quotes are independent, and the
  quiz is sent with an empty list of quotes. When it arrives last it erases the quotes
  on the server (`QuizController.swift:145`), and nothing is sent again.
- `resigned`: any failed sign-in, a time-out included, puts a new user without quizzes
  at the path of the one before (`LogInViewController.swift:31`), and the quizzes
  saved there are gone. They are still in Core Data.
- `reset`: after a failed save the controllers keep a user that belongs to no context.
  A quiz created for it has no id, is listed all the same, and playing it asks the
  quotes of all quizzes, for the fetch then has no predicate
  (`QuoteController.swift:83`). Quotes written for such a quiz are dropped.

Seen while modelling, without a run of their own: the incorrect options of a saved
quote are not displayed, for the body that would fill them in is commented out
(`NewQuoteViewController.swift:173-180`); and the buttons Prev and Next are each wrong
on one draft (`NewQuoteViewController.swift:127, 131`), which `ButtonsMatch` delimits.

## Proofs

`QuizAppProofs` proves, for every `quizMinQuotes` and `quizMaxQuotes` with
`1 < quizMinQuotes <= quizMaxQuotes`, every set of texts that leaves out `Blank`,
and every number of quizzes: `TypeCorrect`, `CursorStaysInCache`,
`QuizzesNeverOverfull`, `ListedQuotesArePlayed`, `PlayedCacheIsTheQuiz`,
`QuotesAreNeverDropped`, `FreshQuizzesHaveEnough` and `ButtonsStayRight`.

All of them rest on `Invariance: Spec => []IInv`. None of the properties is
inductive alone:

- `QuizNeverOverfull` needs to know that while a quiz is written the cache holds
  at least its quotes and has room for one more, unless none of them is its own
  (`WritingInv`). The cache may hold 16 quotes, but then the quiz being written is
  empty or closed.
- `CursorInCache` needs `QuizNeverOverfull`: while a quiz is played the cursor
  walks over the fetched quotes, and their number is bounded by the quiz
  (`PlayingInv`), which is bounded because writing was.
- `PlayingInv` needs `ListedIsPlayed`, since the limit is about the relationship
  and the fetch about the attribute.
- `FreshQuizHasEnough` needs the cache to be free of repetitions: then a cache
  with quotes of one quiz only is no larger than the quiz.

The proof has one lemma per action. `LocalStep` and `EditStep` cover the steps
that leave the store alone, `QuoteIsSaved` and `SavingStep` those that store a
quote, `FetchNumbers` what a fetch returns. `IInv` is also an invariant of the
run `small`. `ButtonsMatch` is inductive beside `IInv`.

`RoundProofs` goes on from `IInv` with two more invariants. `QuotesAreComplete` says
that no stored quote has an empty text and each has the options of one form. The type
leaves empty texts possible: Next and Done stay enabled when fields are emptied, so it
rests on the check in `saveQuote`, and on `incorrectOptsArray` being empty between two
saves. `RoundInvariance: Spec => []RoundInv`
says which answers the score has at each position of the cursor: those before it, and
all once there is no other quote. It needs `CacheIsTheQuizPlayed`, for with a quote
twice in the cache an answer would be counted for two positions. From it follow
`ResultsAreComplete` and `PlayingIsARound`, the refinement: every step of the app is a
`Start`, `Answer` or `Leave` of `QuizRound`, or a stutter.

`LibraryProofs` proves `WritingIsALibrary` from `IInv`: `StartButtonTapped` is an `Open`
of `Library`, every step that saves a quote a `Write`, every other step a `Close` or a
stutter. The mapping takes the contents of a quiz from the relationship and the row of
each quote along, so that a saved quote may not change, move or appear in two quizzes.
That the quiz has room at a `Write` follows from `QuizNeverOverfull` after the step, not
from the guard of `createQuote`, which counts the shared cache.

`SessionProofs` proves, for any number of launches and quizzes, `SessionTypeCorrect`,
`SignedInPartsAgree` and `KnownUsersSurvive` from `SessionInvariance`. `UsersAgree`
speaks of the last statement of a completion that may have run its inner
completion twice, in two orders of telling the parts; `CallbackInv` says which parts
have been told at each statement. `KnownUsersAreSaved` needs that the context holds
an unsaved user at the statement `save` only, because `getUserFromCD` may return any
user of the context, and because a quiz saved by the main thread saves it along.

`SigningInServesOneAccount` is the refinement of `Account`: its accounts are the stored
users, its holder is the user of the controllers once the completion of `fetch` has
returned, and its creators are those of the quizzes. Every statement is a `Register`,
`SignIn`, `Create`, `Quit` or a stutter. A quiz that the main thread creates during
sign-in may save a user along, which is why `Create` may register as well; after
sign-in no step of any thread adds a user or creates for another one.

`SyncProofs` proves, for every set of faults and any number of users, quizzes and
quotes, `SyncTypeCorrect`, `StoreStaysWhole`, `QuizKeepsItsUser`, `ServerStaysWithinStore`
and `QuizzesPlayTheirQuotes` from the invariant `StoreInv`. `StoreIsWhole` is not
inductive: that a quiz which can take quotes has a user in the context is needed, or
`createQuote` would leave a quote behind that is not linked; and that holds because a
reset takes the user and the quiz together, and a quiz for a detached user has no id.
`StoreInv` also says that nothing but such quizzes is ever pending, since every other
insertion is followed by a save.

`StoreProofs` proves `StoreImplementsLibrary`, for every limit and every set of faults.
Each step either writes nothing, or opens a new quiz, or writes one quote
(`StepsOfWriting`). That a failed save closes the quiz and stores nothing, and that a
save stores no more than its own objects, comes from `StoreInv`: what is pending has no
id. The capacity is a limit on the cache in the code; `WrittenIsCached` says that the
cache has every stored quote of the quiz being written, whatever else it has.

`ServerProofs` proves what a PUT may take from the server. `OnlyUsersEraseInOrder` holds
for every set of faults and rests on `OnlyUsersReplace`: while requests arrive in order,
no request of a quiz or a quote is at or above what the server has or what was sent
before it. That is inductive with the second part of it, that quotes on the server or
on their way are of quizzes whose numbers have been given out: a new quiz is then
above none of them. Requests that are lost and launches that come in between do not
matter. `overtaken` shows that the order does, and `resigned` that users do erase.

`ServerIsReplica` proves the safety part of `Mirrors` from `Faults \subseteq {"fetch"}`: a
user that is created because a fetch from Core Data failed is stored and not sent, which
erases nothing. `SyncInvariance` adds `InOrder`, that no request of a user replaces
anything either. It needs that a user is sent only to an empty server with nothing on
its way, which is what waiting for the answer to the GET gives when that answer is right.

Only model-checked: `SignInEnds`, `RoundEnds` and the liveness of `Mirrors`, for liveness
under fairness is out of the prover's reach. Every other property of a passing run is a
theorem.

## Not modelled

- What the server had before the app was installed: the tree starts empty, and a
  user found on the server has been created by a launch of this installation.
- Core Data objects used off the thread of their context: the background queue
  creates and fetches users in the main context. The models give those calls the
  outcome they have on the right thread.
- The late call of a completion with `.failure(.notAddedToFirebase)`, after the one
  with success: it logs, and changes nothing.
- The wrong password: the code never compares it.
- Titles, dates, coins, the shuffling of the option buttons, the progress bar
  (0/0 for an empty quiz), colours, the keyboard: no property depends on them.
- The live updates of the table of quizzes: no quiz is created while it is shown.
- `StartNewQuizViewController.swift` (not in the Xcode target).
- `Pods/`, some 540,000 lines of C, C++ and Objective-C of Firebase, gRPC, BoringSSL,
  leveldb and others: vendored releases of other projects. The app creates a Firestore
  handle (`KQController.swift:17`) and never calls it; its requests go through
  URLSession. The program is the Swift code, which the map covers.

## Plan

The modules planned have been written. What could be added:

1. A composition of `Sync` with `QuizApp`: failing saves under the screens in their
   full detail, with references of a form or a round to objects that are gone.
2. Sign-in statement by statement in `Sync`, beside failing saves.
