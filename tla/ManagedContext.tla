--------------------------- MODULE ManagedContext ---------------------------
(***************************************************************************)
(* Core Data: the one managed object context of the app and the persistent *)
(* store behind it (CoreDataStack).  A save that fails resets the context: *)
(* it has then what the store has, whatever was pending is forgotten, and  *)
(* the objects the app still refers to belong to no context.               *)
(*                                                                         *)
(* An object is its entity, a number (its UUID), and the number of the     *)
(* object that its attribute creatorID or quizID names.  A relationship    *)
(* between a quote and its quiz is an element of its own: the code sets    *)
(* the attribute and the relationship in different statements.             *)
(***************************************************************************)
EXTENDS Naturals

VARIABLES
    context,  \* what the context has, pending changes included
    store,    \* what outlives the process
    saves     \* history: whether all saves "succeeded", or one "failed"

contextVars == <<context, store, saves>>

Entities == {"user", "quiz", "quizWithoutID", "quote", "link"}

Object == [kind : Entities, id : Nat, parent : Nat]

User(u) == [kind |-> "user", id |-> u, parent |-> 0]

Quiz(z, creator) == [kind |-> "quiz", id |-> z, parent |-> creator]

\* A Quiz whose initialiser returned early: no attribute and no creator is set.
QuizWithoutID(z) == [kind |-> "quizWithoutID", id |-> z, parent |-> 0]

Quote(q, quizID) == [kind |-> "quote", id |-> q, parent |-> quizID]

\* The relationship between quote q and quiz z
Link(q, z) == [kind |-> "link", id |-> q, parent |-> z]

\* An object is created in the context, and nothing is saved.
Insert(object) ==
    /\ context' = context \cup {object}
    /\ UNCHANGED <<store, saves>>

\* Mutated form of Save: a failed save leaves the context as it is.
SaveWithoutReset(objects, succeeds) ==
    /\ context' = context \cup objects
    /\ store' = IF succeeds THEN context' ELSE store
    /\ saves' = IF succeeds THEN saves ELSE "failed"

\* CoreDataStack.save, after the given objects were created in the context: it saves
\* everything that is pending there, or resets the context.
Save(objects, succeeds) ==
    /\ context' = IF succeeds THEN context \cup objects ELSE store
    /\ store' = context'
    /\ saves' = IF succeeds THEN saves ELSE "failed"

\* The process ends, and the next one starts with what is stored.
Reopen ==
    /\ context' = store
    /\ UNCHANGED <<store, saves>>

ContextInit ==
    /\ context = {}
    /\ store = {}
    /\ saves = "succeeded"
=============================================================================
