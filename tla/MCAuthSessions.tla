--------------------------- MODULE MCAuthSessions ---------------------------
(* Finite instances of AuthSessions for TLC. *)
EXTENDS AuthSignedIn, TLC

\* Requests are interchangeable, and so are browsers.
Interchangeable == Permutations(Requests) \cup Permutations(Browsers)

(***************************************************************************)
(* Failed logins and locks, and ids that come back, are looked at one at a *)
(* time: once the last account is there, no login has failed and nothing   *)
(* is locked.  Neither reads what the other writes.                        *)
(***************************************************************************)
OneAtATime ==
    accounts = MaxAccounts =>
        /\ \A id \in Present : ~users[id].failedAt /\ users[id].locked = "no"
        /\ \A r \in Requests : req[r].pc \notin {"failing", "locked", "clearing"}
=============================================================================
