---------------------------- MODULE AuthSignedIn ----------------------------
(***************************************************************************)
(* AuthSessions implements SignedIn: signed cookies that carry a version   *)
(* let in the browsers that signed in and were not shut out since,         *)
(* although no cookie is ever taken back and copies of revoked ones keep   *)
(* coming; and beside them only browsers of a deleted account whose id was *)
(* given out again, which SignedIn calls strangers.                        *)
(***************************************************************************)
EXTENDS AuthSessions

\* The rows of an account (at most one).
RowsOf(a) == {id \in Present : users[id].account = a}

PasswordOf(a) ==
    IF RowsOf(a) = {} THEN 0 ELSE users[CHOOSE id \in RowsOf(a) : TRUE].hash

\* Every browser whose cookie the account's row accepts, whosever it was.
Inside(a) ==
    {b \in Browsers : \E c \in cookies :
        c.browser = b /\ Accepted(c) /\ c.id \in RowsOf(a)}

Been(a) == {b \in Browsers : \E c \in cookies : c.browser = b /\ c.account = a}

S == INSTANCE SignedIn WITH
        secret <- [a \in Accounts |-> PasswordOf(a)],
        inside <- [a \in Accounts |-> Inside(a)],
        been <- [a \in Accounts |-> Been(a)]

\* Every step of the requests is a step of SignedIn, or changes nothing in it:
\* who is let in is who signed in and was not shut out since, or a stranger.
ImplementsSignedIn == S!Spec
=============================================================================
