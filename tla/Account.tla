------------------------------- MODULE Account -------------------------------
(***************************************************************************)
(* What signing in promises, without requests, threads or copies of the    *)
(* user: accounts are registered and never given up; the app runs for one  *)
(* of them from the moment it signs in until it ends; and while it does,   *)
(* no account is added, and whatever is created is created by that one.    *)
(***************************************************************************)
EXTENDS Sequences

CONSTANT Nobody

VARIABLES
    accounts,  \* the accounts that outlive the app
    holder,    \* the account the app runs for, or Nobody
    creators   \* who created each of the works, the first one first

accountVars == <<accounts, holder, creators>>

Init ==
    /\ accounts = {}
    /\ holder = Nobody
    /\ creators = <<>>

Register ==
    /\ holder = Nobody
    /\ accounts \subseteq accounts'
    /\ UNCHANGED <<holder, creators>>

SignIn ==
    /\ holder = Nobody
    /\ holder' \in accounts
    /\ UNCHANGED <<accounts, creators>>

\* An account can create something before the app has signed in with it or with
\* another one, and accounts may then be registered along.
Create ==
    /\ \E creator \in accounts :
          /\ holder # Nobody => creator = holder
          /\ creators' = Append(creators, creator)
    /\ IF holder = Nobody THEN accounts \subseteq accounts' ELSE accounts' = accounts
    /\ UNCHANGED holder

Quit ==
    /\ holder' = Nobody
    /\ UNCHANGED <<accounts, creators>>

Next == Register \/ SignIn \/ Create \/ Quit

Spec == Init /\ [][Next]_accountVars
=============================================================================
