-------------------------- MODULE AttachmentUploads --------------------------
(***************************************************************************)
(* What uploading a file promises, without chunks, retries or restarts: an  *)
(* upload stores its file whole and unchanged; the browser reports success  *)
(* only for an upload that the server has acknowledged; an acknowledged     *)
(* upload never stores its file again, even when the user has deleted the   *)
(* attachment since; and an upload that has begun comes to an end.          *)
(* ChunkedUpload implements this specification.                             *)
(***************************************************************************)
EXTENDS Sequences

CONSTANTS Upload,   \* the uploads a browser may begin
          File      \* File[u]: the bytes of the file

VARIABLES row,            \* row[u]: the attachment in the database
          acknowledged,   \* acknowledged[u]: the upload is complete
          outcome         \* outcome[u]: what the browser knows

avars == <<row, acknowledged, outcome>>

NoRow == [state |-> "none", bytes |-> <<>>]

AInit ==
    /\ row = [u \in Upload |-> NoRow]
    /\ acknowledged = [u \in Upload |-> FALSE]
    /\ outcome = [u \in Upload |-> "new"]

Begin(u) ==
    /\ outcome[u] = "new"
    /\ outcome' = [outcome EXCEPT ![u] = "pending"]
    /\ UNCHANGED <<row, acknowledged>>

Store(u) ==
    /\ row[u].state # "saved" /\ ~acknowledged[u]
    /\ row' = [row EXCEPT ![u] = [state |-> "saved", bytes |-> File[u]]]
    /\ UNCHANGED <<acknowledged, outcome>>

Acknowledge(u) ==
    /\ row[u].state # "none"
    /\ acknowledged' = [acknowledged EXCEPT ![u] = TRUE]
    /\ UNCHANGED <<row, outcome>>

Delete(u) ==
    /\ row[u].state = "saved"
    /\ row' = [row EXCEPT ![u] = [state |-> "deleted", bytes |-> <<>>]]
    /\ UNCHANGED <<acknowledged, outcome>>

Succeed(u) ==
    /\ outcome[u] = "pending" /\ acknowledged[u]
    /\ outcome' = [outcome EXCEPT ![u] = "done"]
    /\ UNCHANGED <<row, acknowledged>>

\* The browser may give up on an upload that the server completes.
Fail(u) ==
    /\ outcome[u] \in {"new", "pending"}
    /\ outcome' = [outcome EXCEPT ![u] = "failed"]
    /\ UNCHANGED <<row, acknowledged>>

ANext ==
    \E u \in Upload : Begin(u) \/ Store(u) \/ Acknowledge(u) \/ Delete(u)
                        \/ Succeed(u) \/ Fail(u)

\* The part of the promise that a proof can reach.
ASafety == AInit /\ [][ANext]_avars

\* The end of an upload that has begun is owed.
Settle(u) == outcome[u] = "pending" /\ (Succeed(u) \/ Fail(u))

ASpec == ASafety /\ \A u \in Upload : WF_avars(Settle(u))
=============================================================================
