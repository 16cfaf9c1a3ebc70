--------------------------- MODULE SimSessionAlone ---------------------------
(***************************************************************************)
(* What the documentation says of single reactions.  It is promised to a   *)
(* teacher whose requests do not meet; a history variable records whether  *)
(* two of them have ever been at work at the same time.                    *)
(***************************************************************************)
EXTENDS SimSession

VARIABLE overlapped   \* two requests have been at work at the same time

AtWork == {r \in Requests : req[r].pc # "idle"}
Meeting == \E r, s \in AtWork : r # s

AloneInit == Init /\ overlapped = FALSE
AloneNext == Next /\ overlapped' = (overlapped \/ Meeting')
AloneSpec == AloneInit /\ [][AloneNext]_<<vars, overlapped>>

\* A reaction stored while every request worked alone is stored as the
\* documentation says: the raw text is kept exactly when the answer did not
\* parse, and a level rises by no more than MaxRise.
StoredAsDocumented == overlapped \/ (RawOnlyIfUnparsed /\ RiseBounded)

\* "Once agreed, agreed until the end of the phase", as long as every request
\* works alone: no step takes a persona out of an agreement (agreement.py).
AgreementStays ==
    [][overlapped' \/ status' = "deleted" \/
         \A k \in Phases : Agreed(k) \subseteq Agreed(k)']_utterances

-----------------------------------------------------------------------------
(* The inductive invariant: what a request has read before it asked Gemini *)
(* still is what the rows say when it writes, because it works alone.      *)

OneAtWork == overlapped \/ ~Meeting

\* The levels say has read are those before the rows it will append.
LevelsCurrent(r) ==
    ReadyToWrite(r, "say") =>
        \A p \in Responders(req[r].arg) :
            req[r].previous[p] = Previous(req[r].idx, p, Len(utterances) + 1)

\* The row regenerate has read is the last of its persona and did not parse.
RowCurrent(r) ==
    ReadyToWrite(r, "regenerate") =>
        /\ \A i \in Mine(req[r].idx, req[r].arg) : i <= req[r].row
        /\ utterances[req[r].row].understanding = None
        /\ req[r].previous[req[r].arg] = Previous(req[r].idx, req[r].arg, req[r].row)

ReadIsCurrent ==
    overlapped \/ status = "deleted" \/
        \A r \in Requests : LevelsCurrent(r) /\ RowCurrent(r)

AInv == overlapped \in BOOLEAN /\ OneAtWork /\ ReadIsCurrent /\ StoredAsDocumented
=============================================================================
