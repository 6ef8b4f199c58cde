------------------------------- MODULE Library -------------------------------
(***************************************************************************)
(* What writing quizzes promises, without forms, buttons, caches or saves: *)
(* one quiz at a time is written, from when it is new until it is closed;  *)
(* quotes are added to that one only, up to the capacity of a quiz; and    *)
(* no quiz and no quote changes or disappears once it is there.            *)
(***************************************************************************)
EXTENDS Naturals, FiniteSets

CONSTANTS
    None,     \* no quiz
    Capacity  \* how many quotes a quiz can have

VARIABLES
    quizzes,  \* the quizzes there are
    entries,  \* their quotes: records with an id, a quiz, and whatever is in a quote
    writing   \* the quiz being written, or None

libraryVars == <<quizzes, entries, writing>>

IDs == {e.id : e \in entries}

Contents(quiz) == {e.id : e \in {x \in entries : x.quiz = quiz}}

Init ==
    /\ quizzes = {}
    /\ entries = {}
    /\ writing = None

Open ==
    /\ writing = None
    /\ writing' \notin quizzes \cup {None}
    /\ quizzes' = quizzes \cup {writing'}
    /\ UNCHANGED entries

\* The quiz may be closed with its last quote.
Write ==
    /\ writing # None
    /\ Cardinality(Contents(writing)) < Capacity
    /\ \E e \in entries' :
          /\ e.id \notin IDs
          /\ e.quiz = writing
          /\ entries' = entries \cup {e}
    /\ writing' \in {writing, None}
    /\ UNCHANGED quizzes

Close ==
    /\ writing' = None
    /\ UNCHANGED <<quizzes, entries>>

Next == Open \/ Write \/ Close

Spec == Init /\ [][Next]_libraryVars
=============================================================================
