------------------------------ MODULE QuizRound ------------------------------
(***************************************************************************)
(* What playing a quiz promises, without screens, caches or cursors: the   *)
(* questions of a round are fixed when it starts; each is asked once, in   *)
(* an order nobody knows; a point is earned for each one answered right;   *)
(* and no answer changes afterwards.  A round can be left at any moment.   *)
(***************************************************************************)
EXTENDS Naturals, FiniteSets

CONSTANTS
    Question,  \* whatever can be asked
    None       \* no question

VARIABLES
    pool,      \* the questions of the round
    asked,     \* the question now asked, or None
    answered,  \* the questions answered so far
    right,     \* those answered right
    score

roundVars == <<pool, asked, answered, right, score>>

Idle ==
    /\ pool = {}
    /\ asked = None
    /\ answered = {}
    /\ right = {}
    /\ score = 0

\* Some question not answered yet is asked, if there is one.
AskAnother(open) == IF open = {} THEN asked' = None ELSE asked' \in open

Start ==
    /\ Idle
    /\ pool' \subseteq Question
    /\ AskAnother(pool')
    /\ UNCHANGED <<answered, right, score>>

Answer ==
    /\ asked # None
    /\ answered' = answered \cup {asked}
    /\ \/ right' = right \cup {asked} /\ score' = score + 1
       \/ UNCHANGED <<right, score>>
    /\ AskAnother(pool \ answered')
    /\ UNCHANGED pool

Leave == Idle'

Next == Start \/ Answer \/ Leave

Spec == Idle /\ [][Next]_roundVars
=============================================================================
