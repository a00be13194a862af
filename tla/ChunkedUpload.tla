---------------------------- MODULE ChunkedUpload ----------------------------
(***************************************************************************)
(* Chunked uploads: uploadService.uploadFile in the browser and             *)
(* UploadAttachment with its table of uploads on the server.                *)
(*                                                                         *)
(* A call may overtake another, be served long after the browser has given  *)
(* up on it and sent it again, or never: a lost call is one that is never   *)
(* served.  Uploads expire while calls are on their way, and the server may *)
(* restart, in order or not.                                                *)
(* All uploads belong to one user.  A digest is told apart like the bytes   *)
(* it was computed from.                                                    *)
(***************************************************************************)
EXTENDS Integers, Sequences, FiniteSets

CONSTANTS Upload,        \* the uploads a browser may begin
          Byte,
          File,          \* File[u]: the bytes of the file
          ChunkSize,     \* the smaller of the two chunk size limits
          MaxAttempts,   \* MaxAttempts[u]: how often a chunk of u is sent, three times
                         \* in the code
          MaxActive,     \* attachmentUploadMaxActivePerUser
          MaxSessions,   \* attachmentUploadMaxSessions
          MaxRestarts    \* bound on the restarts of the server

ASSUME FilesAssumption == File \in [Upload -> Seq(Byte)]
ASSUME LimitsAssumption ==
    /\ ChunkSize \in Nat \ {0} /\ MaxAttempts \in [Upload -> Nat \ {0}]
    /\ MaxActive \in Nat /\ MaxSessions \in Nat /\ MaxRestarts \in Nat

VARIABLES job,       \* job[u]: where uploadFile stands
          calls,     \* the calls for chunks that are not over
          entry,     \* entry[u]: the server's attachmentUpload
          temp,      \* temp[u]: its temporary file
          row,       \* row[u]: the attachment in the database
          started,   \* the sweeping goroutine runs
          restarts

vars == <<job, calls, entry, temp, row, started, restarts>>

JobType == [phase : {"new", "opening", "sending", "done", "failed"}, offset : Nat, attempt : Nat]
CallType == [upload : Upload, offset : Nat, attempt : Nat,
             phase : {"sent", "found", "saving", "saved", "answered"},
             ok : BOOLEAN, committed : Nat]
EntryType == [listed : BOOLEAN, committed : Nat, last : Seq(Byte),
              expired : BOOLEAN, attempted : BOOLEAN, complete : BOOLEAN]
TempType == [present : BOOLEAN, bytes : Seq(Byte)]
RowType == [state : {"none", "saved", "deleted"}, bytes : Seq(Byte)]

NoJob == [phase |-> "new", offset |-> 0, attempt |-> 0]
NoEntry == [listed |-> FALSE, committed |-> 0, last |-> <<>>, expired |-> FALSE,
            attempted |-> FALSE, complete |-> FALSE]
NoFile == [present |-> FALSE, bytes |-> <<>>]
NoRow == [state |-> "none", bytes |-> <<>>]

Total(u) == Len(File[u])
End(u, offset) == IF offset + ChunkSize < Total(u) THEN offset + ChunkSize ELSE Total(u)
Chunk(u, offset) == SubSeq(File[u], offset + 1, End(u, offset))
FinishWrite(u, offset) == End(u, offset) = Total(u)

\* A finalization holds upload.mu from the write to the answer.
Locked(u) == \E c \in calls : c.upload = u /\ c.phase \in {"saving", "saved"}

-----------------------------------------------------------------------------
(* The browser                                                             *)

Call(u, offset, attempt) ==
    [upload |-> u, offset |-> offset, attempt |-> attempt,
     phase |-> "sent", ok |-> FALSE, committed |-> 0]

Awaited(c) == job[c.upload] = [phase |-> "sending", offset |-> c.offset, attempt |-> c.attempt]

\* What is left on the wire once nobody waits for u's answers.
Abandoned(u) == {c \in calls : c.upload = u /\ c.phase = "answered"}

SendChunk(u, offset, attempt, over) ==
    /\ job' = [job EXCEPT ![u] = [phase |-> "sending", offset |-> offset, attempt |-> attempt]]
    /\ calls' = (calls \ over) \cup {Call(u, offset, attempt)}

StopJob(u, phase, over) ==
    /\ job' = [job EXCEPT ![u].phase = phase]
    /\ calls' = calls \ over

\* uploadFile sends the spec, which carries no data.
Begin(u) ==
    /\ job[u].phase = "new"
    /\ job' = [job EXCEPT ![u].phase = "opening"]
    /\ UNCHANGED <<calls, entry, temp, row, started, restarts>>

\* The answer to the awaited call.  The offset must be the expected one, and
\* the last chunk must bring the attachment.
Receive(c) ==
    /\ c.phase = "answered" /\ Awaited(c)
    /\ LET u == c.upload  end == End(u, c.offset)
       IN CASE ~c.ok \/ c.committed # end -> StopJob(u, "failed", {c})
            [] c.ok /\ c.committed = end /\ FinishWrite(u, c.offset) -> StopJob(u, "done", {c})
            [] OTHER -> SendChunk(u, end, 1, {c})
    /\ UNCHANGED <<entry, temp, row, started, restarts>>

\* The call fails with Code.Unavailable, whatever became of it on the server:
\* the identical request is sent again, up to MaxAttempts[u] times.
Retry(u) ==
    /\ job[u].phase = "sending"
    /\ IF job[u].attempt < MaxAttempts[u]
       THEN SendChunk(u, job[u].offset, job[u].attempt + 1, Abandoned(u))
       ELSE StopJob(u, "failed", Abandoned(u))
    /\ UNCHANGED <<entry, temp, row, started, restarts>>

\* It fails with another code, or the spec call fails.
GiveUp(u) ==
    /\ job[u].phase \in {"opening", "sending"}
    /\ StopJob(u, "failed", Abandoned(u))
    /\ UNCHANGED <<entry, temp, row, started, restarts>>

-----------------------------------------------------------------------------
(* The table of uploads                                                    *)

\* What sweepLocked drops: expired uploads that no call has locked.
Swept == {u \in Upload : entry[u].listed /\ entry[u].expired /\ ~Locked(u)}

DropSwept(e) == [u \in Upload |-> IF u \in Swept THEN [e[u] EXCEPT !.listed = FALSE] ELSE e[u]]
RemoveFiles(S) == [u \in Upload |-> IF u \in S THEN NoFile ELSE temp[u]]

\* What it counts: a locked upload is unfinished by definition.
Unfinished == {u \in Upload : entry[u].listed /\ u \notin Swept
                                 /\ (Locked(u) \/ ~entry[u].complete)}

CreateWithoutLimit(u) ==
    /\ started' = TRUE
    /\ entry' = [entry EXCEPT ![u] = [NoEntry EXCEPT !.listed = TRUE]]
    /\ temp' = [temp EXCEPT ![u] = [present |-> TRUE, bytes |-> <<>>]]

\* attachmentUploads.create: sweep, count, create the file, insert.
Create(u) ==
    /\ started' = TRUE
    /\ Cardinality(Unfinished) < MaxActive
    /\ Cardinality({v \in Upload \ Swept : entry[v].listed}) < MaxSessions
    /\ entry' = [DropSwept(entry) EXCEPT ![u] = [NoEntry EXCEPT !.listed = TRUE]]
    /\ temp' = [RemoveFiles(Swept) EXCEPT ![u] = [present |-> TRUE, bytes |-> <<>>]]

\* The spec call opens an upload; its answer arrives, or is lost and leaves an
\* upload that nobody will continue.
Open(u) ==
    /\ job[u].phase = "opening"
    /\ Create(u)
    /\ SendChunk(u, 0, 1, {}) \/ StopJob(u, "failed", {})
    /\ UNCHANGED <<row, restarts>>

\* The spec call is refused by a check that precedes create, or by its limits:
\* create has swept by then.
Refuse(u) ==
    /\ job[u].phase = "opening"
    /\ StopJob(u, "failed", {})
    /\ \/ UNCHANGED <<entry, temp, started>>
       \/ started' = TRUE /\ entry' = DropSwept(entry) /\ temp' = RemoveFiles(Swept)
    /\ UNCHANGED <<row, restarts>>

\* attachmentUploadTTL has passed without a successful call, or since a file
\* that nobody tracks was written.
Expire(u) ==
    /\ ~entry[u].expired /\ (entry[u].listed \/ temp[u].present)
    /\ entry' = [entry EXCEPT ![u].expired = TRUE]
    /\ UNCHANGED <<job, calls, temp, row, started, restarts>>

SweepTableOnly ==
    /\ started
    /\ entry' = DropSwept(entry)
    /\ temp' = RemoveFiles(Swept)
    /\ <<entry', temp'>> # <<entry, temp>>
    /\ UNCHANGED <<job, calls, row, started, restarts>>

\* The ticker: sweepLocked and removeOrphansLocked.
Sweep ==
    /\ started
    /\ entry' = DropSwept(entry)
    /\ temp' = RemoveFiles(Swept \cup {u \in Upload : ~entry[u].listed /\ entry[u].expired})
    /\ <<entry', temp'>> # <<entry, temp>>
    /\ UNCHANGED <<job, calls, row, started, restarts>>

\* The process ends and another one starts, with an empty table.  At an orderly
\* shutdown CloseAttachmentUploads has removed the files.
Restart ==
    /\ restarts < MaxRestarts
    /\ restarts' = restarts + 1
    /\ entry' = [u \in Upload |-> [entry[u] EXCEPT !.listed = FALSE, !.expired = FALSE]]
    /\ \/ UNCHANGED temp
       \/ (\A u \in Upload : ~Locked(u)) /\ temp' = RemoveFiles({u \in Upload : entry[u].listed})
    /\ calls' = {c \in calls : c.phase = "answered"}
    /\ started' = FALSE
    /\ UNCHANGED <<job, row>>

-----------------------------------------------------------------------------
(* UploadAttachment with an upload id                                      *)

\* The call leaves the server, with an answer if anybody waits for it.
Leave(c, ok, committed) ==
    calls' = (calls \ {c}) \cup
             {d \in {[c EXCEPT !.phase = "answered", !.ok = ok, !.committed = committed]} : Awaited(c)}

Answer(c, committed) == Leave(c, TRUE, committed)
Refusal(c) == Leave(c, FALSE, 0)

\* get, under the mutex of the table: the call now holds a pointer to the
\* upload, which may be dropped from the table before the call has its lock.
Lookup(c) ==
    /\ c.phase = "sent"
    /\ IF entry[c.upload].listed
       THEN calls' = (calls \ {c}) \cup {[c EXCEPT !.phase = "found"]}
       ELSE Refusal(c)
    /\ UNCHANGED <<job, entry, temp, row, started, restarts>>

\* A chunk that was accepted before: a lost response may be retried.
IsRepeated(e, offset, data) ==
    e.committed > 0 /\ offset + Len(data) = e.committed /\ data = e.last

AppendsAnywhere(u, offset) ==
    LET e == entry[u]  data == Chunk(u, offset)
    IN data # <<>> /\ ~e.complete /\ Len(data) <= Total(u) - e.committed

\* attachmentUpload.write accepts the chunk and has bytes to append.
Appends(u, offset) ==
    LET e == entry[u]  data == Chunk(u, offset)
    IN /\ data # <<>> /\ ~IsRepeated(e, offset, data)
       /\ ~e.complete /\ offset = e.committed /\ Len(data) <= Total(u) - e.committed

\* It accepts the call without writing: there is no data, or a repeated chunk.
Skips(u, offset) ==
    LET e == entry[u]  data == Chunk(u, offset)
    IN IF data = <<>> THEN FinishWrite(u, offset) => offset = e.committed
       ELSE IsRepeated(e, offset, data)

\* After an accepted write, with the upload as the write left it.
AfterWrite(c, e) ==
    LET u == c.upload
    IN CASE e.complete ->
              IF row[u].state = "saved"
              THEN entry' = [entry EXCEPT ![u] = [e EXCEPT !.expired = FALSE]] /\ Answer(c, e.committed)
              ELSE entry' = [entry EXCEPT ![u] = e] /\ Refusal(c)
         [] ~e.complete /\ FinishWrite(u, c.offset) /\ e.committed # Total(u) ->
              entry' = [entry EXCEPT ![u] = e] /\ Refusal(c)
         [] ~e.complete /\ FinishWrite(u, c.offset) /\ e.committed = Total(u) ->
              /\ entry' = [entry EXCEPT ![u] = e]
              /\ calls' = (calls \ {c}) \cup {[c EXCEPT !.phase = "saving"]}
         [] OTHER -> entry' = [entry EXCEPT ![u] = [e EXCEPT !.expired = FALSE]] /\ Answer(c, e.committed)

\* The chunk is appended to the temporary file.
AppendChunk(c) ==
    LET u == c.upload  data == Chunk(u, c.offset)
    IN /\ Appends(u, c.offset) /\ temp[u].present
       /\ temp' = [temp EXCEPT ![u].bytes = SubSeq(@, 1, entry[u].committed) \o data]
       /\ AfterWrite(c, [entry[u] EXCEPT !.committed = @ + Len(data), !.last = data])

\* The write fails and is undone, or cannot be undone: then it is revoked.
WriteFails(c) ==
    /\ Appends(c.upload, c.offset)
    /\ \/ UNCHANGED <<entry, temp>>
       \/ /\ entry' = [entry EXCEPT ![c.upload].expired = TRUE]
          /\ temp' = RemoveFiles({c.upload})
    /\ Refusal(c)

\* From the lock on upload.mu to the answer or the finalization.
Write(c) ==
    /\ c.phase = "found" /\ ~Locked(c.upload)
    /\ IF entry[c.upload].expired
       THEN UNCHANGED <<entry, temp>> /\ Refusal(c)
       ELSE \/ AppendChunk(c) \/ WriteFails(c)
            \/ Skips(c.upload, c.offset) /\ UNCHANGED temp /\ AfterWrite(c, entry[c.upload])
            \/ /\ ~Appends(c.upload, c.offset) /\ ~Skips(c.upload, c.offset)
               /\ UNCHANGED <<entry, temp>> /\ Refusal(c)
    /\ UNCHANGED <<job, row, started, restarts>>

\* finishAttachmentUpload up to the commit of the row, or a failure before it.
Save(c) ==
    LET u == c.upload  e == entry[u]
        resolved == e.attempted /\ row[u].state = "saved"
        next == (calls \ {c}) \cup {[c EXCEPT !.phase = "saved"]}
    IN /\ c.phase = "saving"
       /\ \/ resolved /\ calls' = next /\ UNCHANGED <<entry, row>>
          \/ /\ ~resolved /\ temp[u].present
             /\ entry' = [entry EXCEPT ![u].attempted = TRUE]
             /\ row' = [row EXCEPT ![u] = [state |-> "saved", bytes |-> temp[u].bytes]]
             /\ calls' = next
          \/ /\ UNCHANGED row
             /\ \/ UNCHANGED entry
                \/ ~resolved /\ entry' = [entry EXCEPT ![u].attempted = TRUE]
             /\ Refusal(c)
       /\ UNCHANGED <<job, temp, started, restarts>>

ForgetsCompletion(c) ==
    /\ c.phase = "saved"
    /\ UNCHANGED <<entry, temp>> /\ Answer(c, entry[c.upload].committed)
    /\ UNCHANGED <<job, row, started, restarts>>

\* The upload is complete; or the database has returned an error for a row
\* that it has committed.
Finish(c) ==
    /\ c.phase = "saved"
    /\ \/ /\ entry' = [entry EXCEPT ![c.upload].complete = TRUE, ![c.upload].expired = FALSE]
          /\ temp' = RemoveFiles({c.upload})
          /\ Answer(c, entry[c.upload].committed)
       \/ UNCHANGED <<entry, temp>> /\ Refusal(c)
    /\ UNCHANGED <<job, row, started, restarts>>

\* The user deletes the attachment, which every page can list.
DeleteAttachment(u) ==
    /\ row[u].state = "saved"
    /\ row' = [row EXCEPT ![u] = [state |-> "deleted", bytes |-> <<>>]]
    /\ UNCHANGED <<job, calls, entry, temp, started, restarts>>

-----------------------------------------------------------------------------
Init ==
    /\ job = [u \in Upload |-> NoJob]
    /\ calls = {}
    /\ entry = [u \in Upload |-> NoEntry]
    /\ temp = [u \in Upload |-> NoFile]
    /\ row = [u \in Upload |-> NoRow]
    /\ started = FALSE
    /\ restarts = 0

\* Steps of the browser for an upload it has begun.
Browser(u) ==
    \/ Retry(u) \/ GiveUp(u) \/ Open(u) \/ Refuse(u)
    \/ \E c \in calls : c.upload = u /\ Receive(c)

Serve(c) == Lookup(c) \/ Write(c) \/ Save(c) \/ Finish(c)

Next ==
    \/ \E u \in Upload : Begin(u) \/ Browser(u) \/ Expire(u) \/ DeleteAttachment(u)
    \/ \E c \in calls : Serve(c)
    \/ Sweep \/ Restart

\* Every call ends for the browser, and one that holds a lock for the server;
\* time passes, and the ticker of a running sweeper fires.
Fairness ==
    /\ \A u \in Upload : WF_vars(Browser(u)) /\ WF_vars(Expire(u))
    /\ WF_vars(\E c \in calls : Save(c) \/ Finish(c))
    /\ WF_vars(Sweep)

Spec == Init /\ [][Next]_vars /\ Fairness

-----------------------------------------------------------------------------
(* Properties                                                              *)

\* The types of uploadFile's state, of the calls and of the server's table; a
\* chunk is sent no more often than it may be.
UploadsTypeOK ==
    /\ job \in [Upload -> JobType]
    /\ \A u \in Upload : job[u].attempt <= MaxAttempts[u]
    /\ calls \subseteq CallType
    /\ entry \in [Upload -> EntryType]
    /\ temp \in [Upload -> TempType]
    /\ row \in [Upload -> RowType]
    /\ started \in BOOLEAN /\ restarts \in Nat

\* However calls are repeated, delayed and reordered, a temporary file holds
\* exactly the first committedSize bytes of the file (attachmentUpload.write).
CommittedIsPrefix ==
    \A u \in Upload : /\ entry[u].committed <= Total(u)
                      /\ temp[u].present => temp[u].bytes = SubSeq(File[u], 1, entry[u].committed)

\* The uploads a user has not finished never exceed attachmentUploadMaxActivePerUser,
\* nor the table attachmentUploadMaxSessions (create).
UploadsBounded ==
    /\ Cardinality({u \in Upload : entry[u].listed /\ ~entry[u].complete}) <= MaxActive
    /\ Cardinality({u \in Upload : entry[u].listed}) <= MaxSessions

\* What the browser reports, the rows and their content are as promised by the
\* specification of an upload in one piece, and every upload settles.
Abstract == INSTANCE AttachmentUploads WITH
    acknowledged <- [u \in Upload |-> entry[u].complete],
    outcome <- [u \in Upload |->
        IF job[u].phase \in {"opening", "sending"} THEN "pending" ELSE job[u].phase]

\* ChunkedUpload implements AttachmentUploads.
UploadsAsPromised == Abstract!ASpec

\* While the sweeper runs, every temporary file is removed in the end: the
\* upload completes, or expires, or a restart has made the file an orphan.
TempFilesRemoved ==
    \A u \in Upload : started /\ temp[u].present ~> ~started \/ ~temp[u].present
=============================================================================
