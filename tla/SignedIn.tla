------------------------------ MODULE SignedIn ------------------------------
(***************************************************************************)
(* What signing in promises, with no cookies and no versions: the server   *)
(* might as well keep, for each account, its password, the browsers that   *)
(* are inside, and those that ever signed in.  A browser stays inside until *)
(* the account is signed out, gets another password or is closed; then no  *)
(* browser of the account is, but the one that changed its own password.   *)
(*                                                                         *)
(* A table of sessions would keep no others inside either.  This promise   *)
(* is weaker: whenever an account is opened, signed out or gets another    *)
(* password from an administrator, browsers that had signed in to an older *)
(* account, closed by now, may be inside this one.  As long as no account  *)
(* is closed there are none, and the promise is that of the table.         *)
(***************************************************************************)
EXTENDS Integers

CONSTANTS
    Accounts,  \* numbered as they are opened
    Browsers, MaxHash

VARIABLES
    secret,  \* the password of each account, 0 for none
    inside,  \* the browsers inside each account
    been     \* the browsers that ever signed in to each account

vars == <<secret, inside, been>>

Secrets == 0 .. MaxHash

Init ==
    /\ secret \in [Accounts -> {0, 1}]
    /\ inside = [a \in Accounts |-> {}]
    /\ been = [a \in Accounts |-> {}]

\* Those that signed in to an older account which is closed.
Strangers(a) ==
    UNION {been[x] : x \in {y \in Accounts : y < a /\ secret[y] = 0}}

SignIn(a, b) ==
    /\ secret[a] # 0
    /\ inside' = [inside EXCEPT ![a] = @ \cup {b}]
    /\ been' = [been EXCEPT ![a] = @ \cup {b}]
    /\ UNCHANGED secret

\* Only strangers are inside an account, if any.
LeftToStrangers(a) ==
    \E X \in SUBSET Strangers(a) : inside' = [inside EXCEPT ![a] = X]

\* One browser that is inside signs all of them out.
SignOut(a) ==
    /\ inside[a] # {}
    /\ LeftToStrangers(a)
    /\ UNCHANGED <<secret, been>>

\* A new account, or an administrator's reset: none of its browsers is inside.
SetPassword(a) ==
    /\ \E s \in Secrets \ {0, secret[a]} : secret' = [secret EXCEPT ![a] = s]
    /\ LeftToStrangers(a)
    /\ UNCHANGED been

\* Only a browser that is inside changes the password, and it alone stays.
ChangeOwn(a, b) ==
    /\ b \in inside[a]
    /\ \E s \in Secrets \ {0, secret[a]} : secret' = [secret EXCEPT ![a] = s]
    /\ inside' = [inside EXCEPT ![a] = {b}]
    /\ been' = [been EXCEPT ![a] = @ \cup {b}]

Close(a) ==
    /\ secret' = [secret EXCEPT ![a] = 0]
    /\ inside' = [inside EXCEPT ![a] = {}]
    /\ UNCHANGED been

Next == \E a \in Accounts :
    \/ SignOut(a)
    \/ SetPassword(a)
    \/ Close(a)
    \/ \E b \in Browsers : SignIn(a, b) \/ ChangeOwn(a, b)

Spec == Init /\ [][Next]_vars
=============================================================================
