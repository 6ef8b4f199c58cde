---------------------------- MODULE FirebaseTree ----------------------------
(***************************************************************************)
(* The tree of the Firebase server, as the three put methods write it, and *)
(* their requests on the way.  All of them lie under one path, that of the *)
(* user name (there is one in the code, whichever User object sends):      *)
(*                                                                         *)
(*   users/<name>                                         a user           *)
(*   users/<name>/quizzesCreated/<quiz>                   a quiz           *)
(*   users/<name>/quizzesCreated/<quiz>/quotes/<quote>    a quote          *)
(*                                                                         *)
(* A PUT replaces everything at and below its path.  The user sent has no  *)
(* quizzes in it, and the quiz sent no quotes, for they are sent when they *)
(* have just been created.                                                 *)
(***************************************************************************)
EXTENDS SequencesExt

VARIABLES
    server,   \* the users, quizzes and quotes in the tree
    requests, \* PUTs on the way, in the order they were sent
    delivery  \* history: whether all PUTs arrived "ordered", or one was "overtaken"

serverVars == <<server, requests, delivery>>

\* Mutated form of IsAtOrBelow: the path of a quote ends with "quotes".
IsAtOrBelowQuotes(n, put) ==
    \/ put.kind = "user"
    \/ n.kind = put.kind /\ n.id = put.id
    \/ put.kind = "quiz" /\ n.kind = "quote" /\ n.parent = put.id
    \/ put.kind = "quote" /\ n.kind = "quote" /\ n.parent = put.parent

\* The path of node n is that of the PUT, or below it.
IsAtOrBelow(n, put) ==
    \/ put.kind = "user"
    \/ n.kind = put.kind /\ n.id = put.id
    \/ put.kind = "quiz" /\ n.kind = "quote" /\ n.parent = put.id

\* The tree after a PUT
Replace(tree, put) == {n \in tree : ~IsAtOrBelow(n, put)} \cup {put}

Send(object) ==
    /\ requests' = Append(requests, object)
    /\ UNCHANGED <<server, delivery>>

Arrive(i) ==
    /\ i \in DOMAIN requests
    /\ server' = Replace(server, requests[i])
    /\ requests' = RemoveAt(requests, i)
    /\ delivery' = IF i = 1 THEN delivery ELSE "overtaken"

\* The completion of a request logs the error and does nothing else; that of the
\* put method has been called before.
Lose(i) ==
    /\ i \in DOMAIN requests
    /\ requests' = RemoveAt(requests, i)
    /\ UNCHANGED <<server, delivery>>

HasUser(tree) == \E n \in tree : n.kind = "user"

ServerInit ==
    /\ server = {}
    /\ requests = <<>>
    /\ delivery = "ordered"
=============================================================================
