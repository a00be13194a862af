------------------------- MODULE ChunkedUploadProofs -------------------------
(***************************************************************************)
(* What holds of chunked uploads for any files, chunk size and number of    *)
(* uploads, attempts and restarts: a temporary file is a prefix of the file *)
(* being uploaded, the table keeps its limits, and the protocol implements  *)
(* the safety part of AttachmentUploads.                                    *)
(*                                                                         *)
(* The argument is in the calls.  At most one call of an upload holds its   *)
(* lock (OneHolder).  The holder of an upload that is being saved has found *)
(* it full and not complete, and so it stays, because nobody else writes    *)
(* (CallsAreSound); an upload that was never finalized has no row           *)
(* (RowIsResolved), so that a second finalization finds the first one's.    *)
(***************************************************************************)
EXTENDS ChunkedUpload, FiniteSetTheorems, TLAPS

CallsAreSound ==
    \A c \in calls :
        /\ c.phase = "saving" => /\ entry[c.upload].committed = Total(c.upload)
                                 /\ ~entry[c.upload].complete
        /\ c.phase = "saved" => row[c.upload].state # "none"
        /\ c.phase = "answered" /\ c.ok /\ FinishWrite(c.upload, c.offset)
             => entry[c.upload].complete

OneHolder ==
    \A c, d \in calls : /\ c.upload = d.upload
                        /\ c.phase \in {"saving", "saved"} /\ d.phase \in {"saving", "saved"}
                        => c = d

RowIsResolved == \A u \in Upload : ~entry[u].attempted => row[u].state = "none"

Unopened ==
    \A u \in Upload : job[u].phase \in {"new", "opening"} =>
        /\ row[u].state = "none" /\ ~entry[u].complete
        /\ \A c \in calls : c.upload # u

UploadInv ==
    /\ UploadsTypeOK /\ CommittedIsPrefix
    /\ CallsAreSound /\ OneHolder /\ RowIsResolved /\ Unopened

-----------------------------------------------------------------------------
(* Sequences                                                               *)

\* Two neighbouring pieces of a sequence make a longer piece of it.
LEMMA SubSeqJoin ==
    ASSUME NEW S, NEW s \in Seq(S), NEW m \in Nat, NEW n \in Nat, m <= n, n <= Len(s)
    PROVE  /\ SubSeq(s, 1, m) \o SubSeq(s, m + 1, n) = SubSeq(s, 1, n)
           /\ SubSeq(s, 1, m) \in Seq(S) /\ Len(SubSeq(s, 1, m)) = m
           /\ SubSeq(s, m + 1, n) \in Seq(S) /\ Len(SubSeq(s, m + 1, n)) = n - m
           /\ SubSeq(SubSeq(s, 1, m), 1, m) = SubSeq(s, 1, m)
  OBVIOUS

\* A sequence is a piece of itself.
LEMMA SubSeqWhole == ASSUME NEW S, NEW s \in Seq(S) PROVE SubSeq(s, 1, Len(s)) = s
  OBVIOUS

\* A chunk is the piece of the file that begins at its offset, no longer than
\* what is left of the file.
LEMMA ChunkFacts ==
    ASSUME NEW u \in Upload, NEW offset \in Nat
    PROVE  /\ Total(u) \in Nat /\ File[u] \in Seq(Byte)
           /\ End(u, offset) \in 0 .. Total(u)
           /\ Chunk(u, offset) \in Seq(Byte)
           /\ offset <= Total(u) => /\ offset <= End(u, offset)
                                    /\ Len(Chunk(u, offset)) = End(u, offset) - offset
<1>1. File[u] \in Seq(Byte) /\ Total(u) \in Nat
  BY FilesAssumption DEF Total
<1>2. End(u, offset) \in 0 .. Total(u)
  BY <1>1, LimitsAssumption DEF End
<1>3. Chunk(u, offset) \in Seq(Byte)
  BY <1>1, <1>2 DEF Chunk, Total
<1>4. ASSUME offset <= Total(u)
      PROVE  offset <= End(u, offset) /\ Len(Chunk(u, offset)) = End(u, offset) - offset
  <2>1. offset <= End(u, offset)
    BY <1>1, <1>4, LimitsAssumption DEF End
  <2> QED
    BY <1>1, <1>2, <2>1, SubSeqJoin DEF Chunk, Total
<1> QED
  BY <1>1, <1>2, <1>3, <1>4

-----------------------------------------------------------------------------
(* The invariant                                                           *)

\* Uploads that have not begun are empty, so nothing is at stake.
LEMMA InvInit == Init => UploadInv
<1> SUFFICES ASSUME Init PROVE UploadInv
  OBVIOUS
<1>1. UploadsTypeOK
  <2>1. NoJob \in JobType /\ NoEntry \in EntryType /\ NoFile \in TempType /\ NoRow \in RowType
    BY DEF NoJob, NoEntry, NoFile, NoRow, JobType, EntryType, TempType, RowType
  <2>2. \A u \in Upload : NoJob.attempt <= MaxAttempts[u]
    BY LimitsAssumption DEF NoJob
  <2> QED
    BY <2>1, <2>2 DEF Init, UploadsTypeOK
<1>2. CommittedIsPrefix
  BY ChunkFacts DEF Init, CommittedIsPrefix, NoEntry, NoFile
<1>3. CallsAreSound /\ OneHolder /\ RowIsResolved /\ Unopened
  BY DEF Init, CallsAreSound, OneHolder, RowIsResolved, Unopened, NoEntry, NoRow
<1> QED
  BY <1>1, <1>2, <1>3 DEF UploadInv

\* Sending a chunk changes nothing on the server.
LEMMA SendKeeps ==
    ASSUME UploadInv, NEW u \in Upload, NEW offset \in Nat, NEW attempt \in Nat,
           attempt <= MaxAttempts[u], NEW over \in SUBSET calls,
           SendChunk(u, offset, attempt, over), UNCHANGED <<entry, temp, row, started, restarts>>
    PROVE  UploadInv'
<1> DEFINE j == [phase |-> "sending", offset |-> offset, attempt |-> attempt]
<1>1. UploadsTypeOK'
  <2>1. j \in JobType /\ j.attempt = attempt
    BY DEF JobType
  <2>2. Call(u, offset, attempt) \in CallType
    BY DEF Call, CallType
  <2>3. job' = [job EXCEPT ![u] = j]
    BY DEF SendChunk
  <2> HIDE DEF j
  <2> QED
    BY <2>1, <2>2, <2>3, LimitsAssumption DEF UploadInv, UploadsTypeOK, SendChunk
<1>2. CommittedIsPrefix' /\ RowIsResolved'
  BY DEF UploadInv, CommittedIsPrefix, RowIsResolved, SendChunk
<1>3. CallsAreSound' /\ OneHolder'
  <2>1. Call(u, offset, attempt).phase = "sent"
    BY DEF Call
  <2>2. \A c \in calls' : c \in calls \/ c.phase = "sent"
    BY <2>1 DEF SendChunk
  <2> QED
    BY <2>2 DEF UploadInv, CallsAreSound, OneHolder
<1>4. Unopened'
  BY DEF UploadInv, UploadsTypeOK, Unopened, SendChunk, Call
<1> QED
  BY <1>1, <1>2, <1>3, <1>4 DEF UploadInv

\* A job keeps its type and the promise about its attempts.
JobsKept ==
    /\ job' \in [Upload -> JobType]
    /\ \A u \in Upload : /\ job'[u].attempt <= MaxAttempts[u]
                         /\ job'[u].phase \in {"new", "opening"} => job[u].phase \in {"new", "opening"}

\* Whoever only moves jobs, lists and expires uploads, removes files, deletes
\* rows or drops calls keeps the invariant.
LEMMA TableKeeps ==
    ASSUME UploadInv, calls' \subseteq calls, JobsKept,
           entry' \in [Upload -> EntryType], temp' \in [Upload -> TempType],
           row' \in [Upload -> RowType], started' \in BOOLEAN, restarts' \in Nat,
           \A u \in Upload :
              /\ entry'[u].committed = entry[u].committed
              /\ entry'[u].complete = entry[u].complete
              /\ entry'[u].attempted = entry[u].attempted
              /\ temp'[u] = temp[u] \/ ~temp'[u].present
              /\ row'[u].state = "none" <=> row[u].state = "none"
    PROVE  UploadInv'
<1>1. UploadsTypeOK'
  BY DEF UploadInv, UploadsTypeOK, JobsKept
<1>2. CommittedIsPrefix' /\ RowIsResolved'
  BY DEF UploadInv, CommittedIsPrefix, RowIsResolved
<1>3. OneHolder' /\ Unopened'
  BY DEF UploadInv, OneHolder, Unopened, JobsKept
<1>4. CallsAreSound'
  <2>1. \A c \in calls : c.upload \in Upload
    BY DEF UploadInv, UploadsTypeOK, CallType
  <2> QED
    BY <2>1 DEF UploadInv, CallsAreSound
<1> QED
  BY <1>1, <1>2, <1>3, <1>4 DEF UploadInv

\* The step of a job to another phase, not back to its beginning.
LEMMA PhaseKept ==
    ASSUME UploadInv, NEW u \in Upload, NEW phase \in {"opening", "done", "failed"},
           job' = [job EXCEPT ![u].phase = phase],
           phase = "opening" => job[u].phase = "new"
    PROVE  JobsKept
<1>1. /\ [job[u] EXCEPT !.phase = phase] \in JobType
      /\ [job[u] EXCEPT !.phase = phase].phase = phase
      /\ [job[u] EXCEPT !.phase = phase].attempt = job[u].attempt
  BY DEF UploadInv, UploadsTypeOK, JobType
<1>2. job' = [job EXCEPT ![u] = [job[u] EXCEPT !.phase = phase]]
  OBVIOUS
<1> QED
  BY <1>1, <1>2 DEF UploadInv, UploadsTypeOK, JobsKept

\* A job that does not move is kept.
LEMMA StillKept == ASSUME UploadInv, job' = job PROVE JobsKept
  BY DEF UploadInv, UploadsTypeOK, JobsKept

\* The end of a job changes nothing on the server.
LEMMA StopKeeps ==
    ASSUME UploadInv, NEW u \in Upload, NEW phase \in {"done", "failed"},
           NEW over \in SUBSET calls, StopJob(u, phase, over),
           UNCHANGED <<entry, temp, row, started, restarts>>
    PROVE  UploadInv'
<1>1. JobsKept /\ calls' \subseteq calls
  BY PhaseKept DEF StopJob
<1> QED
  BY <1>1, TableKeeps DEF UploadInv, UploadsTypeOK

\* A step of a call on the server, which may replace its upload, the file and
\* the row.  Whoever does not hold the lock leaves alone what the holder has
\* relied on.
ServeStep(c, d, e, t, r) ==
    LET u == c.upload
    IN /\ d.upload = u /\ d.offset = c.offset
       /\ calls' = (calls \ {c}) \cup {d} \/ calls' = calls \ {c}
       /\ entry' = [entry EXCEPT ![u] = e]
       /\ temp' = [temp EXCEPT ![u] = t]
       /\ row' = [row EXCEPT ![u] = r]
       /\ UNCHANGED <<job, started, restarts>>
       /\ e.committed <= Total(u)
       /\ t.present => t.bytes = SubSeq(File[u], 1, e.committed)
       /\ ~e.attempted => r.state = "none"
       /\ row[u].state # "none" => r.state # "none"
       /\ entry[u].complete => e.complete
       /\ d.phase = "saving" => e.committed = Total(u) /\ ~e.complete
       /\ d.phase = "saved" => r.state # "none"
       /\ d.phase = "answered" /\ d.ok /\ FinishWrite(u, d.offset) => e.complete
       /\ \/ c.phase \in {"saving", "saved"}
          \/ ~Locked(u)
          \/ /\ d.phase \notin {"saving", "saved"}
             /\ e.committed = entry[u].committed /\ e.complete = entry[u].complete

\* Such a step keeps the invariant.
LEMMA ServeKeeps ==
    ASSUME UploadInv, NEW c \in calls, NEW d \in CallType, NEW e \in EntryType,
           NEW t \in TempType, NEW r \in RowType, ServeStep(c, d, e, t, r)
    PROVE  UploadInv'
<1> DEFINE u == c.upload
<1>0. u \in Upload /\ c \in CallType
  BY DEF UploadInv, UploadsTypeOK, CallType
<1> USE <1>0 DEF ServeStep
<1>1. UploadsTypeOK'
  BY DEF UploadInv, UploadsTypeOK
<1>2. CommittedIsPrefix'
  BY DEF UploadInv, UploadsTypeOK, CommittedIsPrefix
<1>3. RowIsResolved'
  BY DEF UploadInv, UploadsTypeOK, RowIsResolved
<1>4. Unopened'
  BY DEF UploadInv, UploadsTypeOK, Unopened
<1>5. \A x \in calls' : x = d \/ x \in calls \ {c}
  OBVIOUS
<1>6. OneHolder'
  BY <1>5 DEF UploadInv, OneHolder, Locked
<1>7. CallsAreSound'
  <2> SUFFICES ASSUME NEW x \in calls, x # c
               PROVE  /\ x.phase = "saving" => /\ entry'[x.upload].committed = Total(x.upload)
                                               /\ ~entry'[x.upload].complete
                      /\ x.phase = "saved" => row'[x.upload].state # "none"
                      /\ x.phase = "answered" /\ x.ok /\ FinishWrite(x.upload, x.offset)
                           => entry'[x.upload].complete
    <3>1. /\ d.phase = "saving" => /\ entry'[d.upload].committed = Total(d.upload)
                                   /\ ~entry'[d.upload].complete
          /\ d.phase = "saved" => row'[d.upload].state # "none"
          /\ d.phase = "answered" /\ d.ok /\ FinishWrite(d.upload, d.offset)
               => entry'[d.upload].complete
      BY DEF UploadInv, UploadsTypeOK
    <3> QED
      BY <1>5, <3>1 DEF CallsAreSound
  <2>1. x.upload \in Upload
    BY DEF UploadInv, UploadsTypeOK, CallType
  <2>2. CASE x.upload # u
    BY <2>1, <2>2 DEF UploadInv, UploadsTypeOK, CallsAreSound
  <2>3. CASE x.upload = u
    BY <2>3 DEF UploadInv, UploadsTypeOK, CallsAreSound, OneHolder, Locked
  <2> QED
    BY <2>2, <2>3
<1> QED
  BY <1>1, <1>2, <1>3, <1>4, <1>6, <1>7 DEF UploadInv

\* A call that leaves the server is gone, or is answered as it was told.
LEMMA LeaveFacts ==
    ASSUME UploadInv, NEW c \in calls, NEW ok \in BOOLEAN, NEW n \in Nat, Leave(c, ok, n)
    PROVE  \E d \in CallType :
              /\ d.upload = c.upload /\ d.offset = c.offset
              /\ d.phase = "answered" /\ d.ok = ok
              /\ calls' = (calls \ {c}) \cup {d} \/ calls' = calls \ {c}
<1> DEFINE d == [c EXCEPT !.phase = "answered", !.ok = ok, !.committed = n]
<1>1. c \in CallType
  BY DEF UploadInv, UploadsTypeOK
<1>2. d \in CallType /\ d.upload = c.upload /\ d.offset = c.offset
        /\ d.phase = "answered" /\ d.ok = ok
  BY <1>1 DEF CallType
<1>3. calls' = (calls \ {c}) \cup {d} \/ calls' = calls \ {c}
  BY DEF Leave
<1> HIDE DEF d
<1> QED
  BY <1>2, <1>3

\* A call that goes on keeps everything but its phase.
LEMMA MoveFacts ==
    ASSUME UploadInv, NEW c \in calls, NEW phase \in {"found", "saving", "saved"},
           calls' = (calls \ {c}) \cup {[c EXCEPT !.phase = phase]}
    PROVE  \E d \in CallType :
              /\ d.upload = c.upload /\ d.offset = c.offset /\ d.phase = phase
              /\ calls' = (calls \ {c}) \cup {d}
<1>1. c \in CallType
  BY DEF UploadInv, UploadsTypeOK
<1>2. /\ [c EXCEPT !.phase = phase] \in CallType
      /\ [c EXCEPT !.phase = phase].upload = c.upload
      /\ [c EXCEPT !.phase = phase].offset = c.offset
      /\ [c EXCEPT !.phase = phase].phase = phase
  BY <1>1 DEF CallType
<1> QED
  BY <1>2

\* A call that is refused, or only looked up, changes no upload.
LEMMA QuietKeeps ==
    ASSUME UploadInv, NEW c \in calls, UNCHANGED <<job, entry, temp, row, started, restarts>>,
           Refusal(c) \/ calls' = (calls \ {c}) \cup {[c EXCEPT !.phase = "found"]}
    PROVE  UploadInv'
<1>1. PICK d \in CallType : /\ d.upload = c.upload /\ d.offset = c.offset
                            /\ d.phase = "found" \/ (d.phase = "answered" /\ ~d.ok)
                            /\ calls' = (calls \ {c}) \cup {d} \/ calls' = calls \ {c}
  <2>1. CASE Refusal(c)
    <3>1. Leave(c, FALSE, 0)
      BY <2>1 DEF Refusal
    <3> QED
      BY <3>1, LeaveFacts
  <2>2. CASE calls' = (calls \ {c}) \cup {[c EXCEPT !.phase = "found"]}
    BY <2>2, MoveFacts
  <2> QED
    BY <2>1, <2>2
<1>2. /\ c.upload \in Upload /\ entry[c.upload] \in EntryType
      /\ temp[c.upload] \in TempType /\ row[c.upload] \in RowType
  BY DEF UploadInv, UploadsTypeOK, CallType
<1>3. ServeStep(c, d, entry[c.upload], temp[c.upload], row[c.upload])
  BY <1>1, <1>2 DEF UploadInv, UploadsTypeOK, CommittedIsPrefix, RowIsResolved, ServeStep
<1> QED
  BY <1>2, <1>3, ServeKeeps

\* What follows an accepted write, whether or not it has appended anything.
LEMMA AfterWriteKeeps ==
    ASSUME UploadInv, NEW c \in calls, ~Locked(c.upload),
           NEW e \in EntryType, NEW t \in TempType, AfterWrite(c, e),
           e.complete = entry[c.upload].complete, e.attempted = entry[c.upload].attempted,
           e.committed <= Total(c.upload),
           t.present => t.bytes = SubSeq(File[c.upload], 1, e.committed),
           temp' = [temp EXCEPT ![c.upload] = t], UNCHANGED <<job, row, started, restarts>>
    PROVE  UploadInv'
<1> DEFINE u == c.upload
           f == [e EXCEPT !.expired = FALSE]
<1>1. /\ f \in EntryType /\ f.complete = e.complete /\ f.attempted = e.attempted
      /\ f.committed = e.committed /\ e.committed \in Nat /\ e.complete \in BOOLEAN
  BY DEF EntryType
<1>2. u \in Upload /\ row[u] \in RowType /\ row' = [row EXCEPT ![u] = row[u]]
  BY DEF UploadInv, UploadsTypeOK, CallType
<1>3. ~e.attempted => row[u].state = "none"
  BY <1>2 DEF UploadInv, RowIsResolved
<1>4. \/ entry' = [entry EXCEPT ![u] = e] /\ Refusal(c)
      \/ /\ entry' = [entry EXCEPT ![u] = f] /\ Answer(c, e.committed)
         /\ e.complete \/ ~FinishWrite(u, c.offset)
      \/ /\ entry' = [entry EXCEPT ![u] = e] /\ ~e.complete /\ e.committed = Total(u)
         /\ calls' = (calls \ {c}) \cup {[c EXCEPT !.phase = "saving"]}
  BY <1>1 DEF AfterWrite
<1> HIDE DEF f
<1>5. CASE entry' = [entry EXCEPT ![u] = e] /\ Refusal(c)
  <2>1. PICK d \in CallType : /\ d.upload = u /\ d.offset = c.offset
                              /\ d.phase = "answered" /\ d.ok = FALSE
                              /\ calls' = (calls \ {c}) \cup {d} \/ calls' = calls \ {c}
    <3>1. Leave(c, FALSE, 0)
      BY <1>5 DEF Refusal
    <3> QED
      BY <3>1, LeaveFacts
  <2>2. ServeStep(c, d, e, t, row[u])
    BY <1>2, <1>3, <1>5, <2>1 DEF ServeStep
  <2> QED
    BY <1>2, <2>2, ServeKeeps
<1>6. CASE /\ entry' = [entry EXCEPT ![u] = f] /\ Answer(c, e.committed)
           /\ e.complete \/ ~FinishWrite(u, c.offset)
  <2>1. PICK d \in CallType : /\ d.upload = u /\ d.offset = c.offset
                              /\ d.phase = "answered"
                              /\ calls' = (calls \ {c}) \cup {d} \/ calls' = calls \ {c}
    BY <1>1, <1>6, LeaveFacts DEF Answer
  <2>2. ServeStep(c, d, f, t, row[u])
    BY <1>1, <1>2, <1>3, <1>6, <2>1 DEF ServeStep
  <2> QED
    BY <1>1, <1>2, <2>2, ServeKeeps
<1>7. CASE /\ entry' = [entry EXCEPT ![u] = e] /\ ~e.complete /\ e.committed = Total(u)
           /\ calls' = (calls \ {c}) \cup {[c EXCEPT !.phase = "saving"]}
  <2>1. PICK d \in CallType : /\ d.upload = u /\ d.offset = c.offset /\ d.phase = "saving"
                              /\ calls' = (calls \ {c}) \cup {d}
    BY <1>7, MoveFacts
  <2>2. ServeStep(c, d, e, t, row[u])
    BY <1>2, <1>3, <1>7, <2>1 DEF ServeStep
  <2> QED
    BY <1>2, <2>2, ServeKeeps
<1> QED
  BY <1>4, <1>5, <1>6, <1>7

\* A chunk that is appended continues the prefix.
LEMMA AppendExtends ==
    ASSUME UploadInv, NEW c \in calls, Appends(c.upload, c.offset), temp[c.upload].present
    PROVE  LET u == c.upload  data == Chunk(u, c.offset)
               k == entry[u].committed
           IN /\ k + Len(data) \in 0 .. Total(u) /\ data \in Seq(Byte)
              /\ SubSeq(temp[u].bytes, 1, k) \o data = SubSeq(File[u], 1, k + Len(data))
              /\ SubSeq(temp[u].bytes, 1, k) \o data \in Seq(Byte)
<1> DEFINE u == c.upload
           k == entry[u].committed
<1>1. u \in Upload /\ c.offset \in Nat /\ k \in Nat
  BY DEF UploadInv, UploadsTypeOK, CallType, EntryType
<1>2. k <= Total(u) /\ temp[u].bytes = SubSeq(File[u], 1, k) /\ c.offset = k
  BY <1>1 DEF UploadInv, CommittedIsPrefix, Appends
<1>3. /\ File[u] \in Seq(Byte) /\ End(u, k) \in 0 .. Total(u) /\ k <= End(u, k)
      /\ Chunk(u, k) \in Seq(Byte) /\ Len(Chunk(u, k)) = End(u, k) - k
      /\ Total(u) \in Nat
  BY <1>1, <1>2, ChunkFacts
<1>4. Chunk(u, k) = SubSeq(File[u], k + 1, End(u, k)) /\ Total(u) = Len(File[u])
  BY DEF Chunk, Total
<1> HIDE DEF u, k
<1>5. /\ SubSeq(File[u], 1, k) \o SubSeq(File[u], k + 1, End(u, k)) = SubSeq(File[u], 1, End(u, k))
      /\ SubSeq(SubSeq(File[u], 1, k), 1, k) = SubSeq(File[u], 1, k)
      /\ SubSeq(File[u], 1, End(u, k)) \in Seq(Byte)
  BY <1>1, <1>3, <1>4, SubSeqJoin
<1>6. k + Len(Chunk(u, k)) = End(u, k)
  BY <1>1, <1>3
<1> QED
  BY <1>2, <1>3, <1>4, <1>5, <1>6 DEF u, k

\* A write, accepted, failed or refused, keeps the invariant.
LEMMA WriteKeeps == ASSUME UploadInv, NEW c \in calls, Write(c) PROVE UploadInv'
<1> DEFINE u == c.upload
<1>1. /\ u \in Upload /\ entry[u] \in EntryType /\ temp[u] \in TempType /\ row[u] \in RowType
      /\ entry[u].committed \in Nat
      /\ ~Locked(u) /\ UNCHANGED <<job, row, started, restarts>>
  BY DEF UploadInv, UploadsTypeOK, CallType, EntryType, Write
<1>2. /\ entry[u].committed <= Total(u)
      /\ temp[u].present => temp[u].bytes = SubSeq(File[u], 1, entry[u].committed)
      /\ ~entry[u].attempted => row[u].state = "none"
  BY <1>1 DEF UploadInv, CommittedIsPrefix, RowIsResolved
<1>3. CASE UNCHANGED <<entry, temp>> /\ Refusal(c)
  BY <1>1, <1>3, QuietKeeps
<1>4. CASE AppendChunk(c)
  <2> DEFINE data == Chunk(u, c.offset)
             e == [entry[u] EXCEPT !.committed = @ + Len(data), !.last = data]
             t == [temp[u] EXCEPT !.bytes = SubSeq(@, 1, entry[u].committed) \o data]
  <2>1. /\ entry[u].committed + Len(data) \in 0 .. Total(u) /\ data \in Seq(Byte)
        /\ SubSeq(temp[u].bytes, 1, entry[u].committed) \o data
             = SubSeq(File[u], 1, entry[u].committed + Len(data))
        /\ SubSeq(temp[u].bytes, 1, entry[u].committed) \o data \in Seq(Byte)
    BY <1>4, AppendExtends DEF AppendChunk
  <2>2. Total(u) \in Nat
    BY <1>1, <1>2, ChunkFacts
  <2>3. temp' = [temp EXCEPT ![u] = t] /\ AfterWrite(c, e)
    <3>1. AfterWrite(c, e)
      BY <1>4 DEF AppendChunk
    <3>2. temp' = [temp EXCEPT ![u].bytes = SubSeq(@, 1, entry[u].committed) \o data]
      BY <1>4 DEF AppendChunk
    <3> HIDE DEF data
    <3> QED
      BY <1>1, <3>1, <3>2 DEF UploadInv, UploadsTypeOK
  <2> HIDE DEF data
  <2>4. /\ e \in EntryType /\ e.complete = entry[u].complete /\ e.attempted = entry[u].attempted
        /\ e.committed = entry[u].committed + Len(data)
    <3>1. Len(data) \in Nat /\ entry[u].committed + Len(data) \in Nat
      BY <1>1, <2>1
    <3>2. /\ [entry[u] EXCEPT !.committed = @ + Len(data)] \in EntryType
          /\ [entry[u] EXCEPT !.committed = @ + Len(data)].complete = entry[u].complete
          /\ [entry[u] EXCEPT !.committed = @ + Len(data)].attempted = entry[u].attempted
          /\ [entry[u] EXCEPT !.committed = @ + Len(data)].committed = entry[u].committed + Len(data)
      BY <1>1, <3>1 DEF EntryType
    <3> DEFINE x == [entry[u] EXCEPT !.committed = @ + Len(data)]
    <3>3. e = [x EXCEPT !.last = data]
      OBVIOUS
    <3> HIDE DEF x, e
    <3> QED
      BY <2>1, <3>2, <3>3 DEF x, EntryType
  <2>5. /\ t \in TempType
        /\ t.bytes = SubSeq(temp[u].bytes, 1, entry[u].committed) \o data
    BY <1>1, <2>1 DEF TempType
  <2> HIDE DEF e, t
  <2>6. e.committed <= Total(u) /\ t.bytes = SubSeq(File[u], 1, e.committed)
    BY <2>1, <2>2, <2>4, <2>5
  <2> QED
    BY <1>1, <2>3, <2>4, <2>5, <2>6, AfterWriteKeeps
<1>5. CASE WriteFails(c)
  <2>1. CASE UNCHANGED <<entry, temp>>
    BY <1>1, <1>3, <1>5, <2>1 DEF WriteFails
  <2>2. CASE /\ entry' = [entry EXCEPT ![c.upload].expired = TRUE]
             /\ temp' = RemoveFiles({c.upload})
    <3> DEFINE e == [entry[u] EXCEPT !.expired = TRUE]
    <3>1. /\ e \in EntryType /\ e.committed = entry[u].committed
          /\ e.complete = entry[u].complete /\ e.attempted = entry[u].attempted
      BY <1>1 DEF EntryType
    <3>2. /\ entry' = [entry EXCEPT ![u] = e] /\ temp' = [temp EXCEPT ![u] = NoFile]
          /\ NoFile \in TempType /\ ~NoFile.present
          /\ row' = [row EXCEPT ![u] = row[u]]
      <4>1. NoFile \in TempType /\ ~NoFile.present
        BY DEF NoFile, TempType
      <4>2. temp' = [temp EXCEPT ![u] = NoFile]
        BY <1>1, <2>2 DEF UploadInv, UploadsTypeOK, RemoveFiles
      <4>3. entry' = [entry EXCEPT ![u] = e] /\ row' = [row EXCEPT ![u] = row[u]]
        BY <1>1, <2>2 DEF UploadInv, UploadsTypeOK
      <4> QED
        BY <4>1, <4>2, <4>3
    <3> HIDE DEF e
    <3>3. PICK d \in CallType : /\ d.upload = u /\ d.offset = c.offset
                                /\ d.phase = "answered" /\ d.ok = FALSE
                                /\ calls' = (calls \ {c}) \cup {d} \/ calls' = calls \ {c}
      <4>1. Leave(c, FALSE, 0)
        BY <1>5 DEF WriteFails, Refusal
      <4> QED
        BY <4>1, LeaveFacts
    <3>4. ServeStep(c, d, e, NoFile, row[u])
      BY <1>1, <1>2, <3>1, <3>2, <3>3 DEF ServeStep
    <3> QED
      BY <1>1, <3>1, <3>2, <3>4, ServeKeeps
  <2> QED
    BY <1>5, <2>1, <2>2 DEF WriteFails
<1>6. CASE UNCHANGED temp /\ AfterWrite(c, entry[u])
  <2>1. temp' = [temp EXCEPT ![u] = temp[u]]
    BY <1>1, <1>6 DEF UploadInv, UploadsTypeOK
  <2> QED
    BY <1>1, <1>2, <1>6, <2>1, AfterWriteKeeps
<1> QED
  BY <1>3, <1>4, <1>5, <1>6 DEF Write

\* What a call finds when it saves: a full file, if there is one, and no row
\* unless a finalization was attempted.
LEMMA SaveFinds ==
    ASSUME UploadInv, NEW c \in calls, c.phase = "saving"
    PROVE  /\ ~entry[c.upload].complete
           /\ temp[c.upload].present => temp[c.upload].bytes = File[c.upload]
           /\ row[c.upload].state = "saved" => entry[c.upload].attempted
<1>1. c.upload \in Upload
  BY DEF UploadInv, UploadsTypeOK, CallType
<1>2. entry[c.upload].committed = Len(File[c.upload]) /\ ~entry[c.upload].complete
  BY DEF UploadInv, CallsAreSound, Total
<1>3. SubSeq(File[c.upload], 1, Len(File[c.upload])) = File[c.upload]
  BY <1>1, FilesAssumption, SubSeqWhole
<1> QED
  BY <1>1, <1>2, <1>3 DEF UploadInv, CommittedIsPrefix, RowIsResolved

\* Saving the file as a row keeps the invariant, and so does failing to.
LEMMA SaveKeeps == ASSUME UploadInv, NEW c \in calls, Save(c) PROVE UploadInv'
<1> DEFINE u == c.upload
           e == [entry[u] EXCEPT !.attempted = TRUE]
           r == [state |-> "saved", bytes |-> temp[u].bytes]
<1>1. /\ u \in Upload /\ entry[u] \in EntryType /\ temp[u] \in TempType /\ row[u] \in RowType
      /\ c.phase = "saving" /\ UNCHANGED <<job, temp, started, restarts>>
      /\ temp' = [temp EXCEPT ![u] = temp[u]]
  BY DEF UploadInv, UploadsTypeOK, CallType, Save
<1>2. /\ entry[u].committed <= Total(u) /\ ~entry[u].complete
      /\ temp[u].present => temp[u].bytes = SubSeq(File[u], 1, entry[u].committed)
      /\ ~entry[u].attempted => row[u].state = "none"
  BY <1>1 DEF UploadInv, CommittedIsPrefix, RowIsResolved, CallsAreSound
<1>3. /\ e \in EntryType /\ e.committed = entry[u].committed
      /\ e.complete = entry[u].complete /\ e.attempted
  BY <1>1 DEF EntryType
<1>4. r \in RowType /\ r.state = "saved"
  BY <1>1 DEF RowType, TempType
<1>5. CASE /\ calls' = (calls \ {c}) \cup {[c EXCEPT !.phase = "saved"]}
           /\ row[u].state = "saved" /\ UNCHANGED <<entry, row>>
  <2>1. PICK d \in CallType : /\ d.upload = u /\ d.offset = c.offset /\ d.phase = "saved"
                              /\ calls' = (calls \ {c}) \cup {d}
    BY <1>5, MoveFacts
  <2>2. ServeStep(c, d, entry[u], temp[u], row[u])
    BY <1>1, <1>2, <1>5, <2>1 DEF ServeStep, UploadInv, UploadsTypeOK
  <2> QED
    BY <1>1, <2>2, ServeKeeps
<1>6. CASE /\ calls' = (calls \ {c}) \cup {[c EXCEPT !.phase = "saved"]}
           /\ entry' = [entry EXCEPT ![u] = e] /\ row' = [row EXCEPT ![u] = r]
  <2>1. PICK d \in CallType : /\ d.upload = u /\ d.offset = c.offset /\ d.phase = "saved"
                              /\ calls' = (calls \ {c}) \cup {d}
    BY <1>6, MoveFacts
  <2> HIDE DEF e, r
  <2>2. ServeStep(c, d, e, temp[u], r)
    BY <1>1, <1>2, <1>3, <1>4, <1>6, <2>1 DEF ServeStep
  <2> QED
    BY <1>1, <1>3, <1>4, <2>2, ServeKeeps
<1>7. CASE entry' = [entry EXCEPT ![u] = e] /\ row' = row /\ Refusal(c)
  <2>1. PICK d \in CallType : /\ d.upload = u /\ d.offset = c.offset
                              /\ d.phase = "answered" /\ d.ok = FALSE
                              /\ calls' = (calls \ {c}) \cup {d} \/ calls' = calls \ {c}
    <3>1. Leave(c, FALSE, 0)
      BY <1>7 DEF Refusal
    <3> QED
      BY <3>1, LeaveFacts
  <2> HIDE DEF e
  <2>2. row' = [row EXCEPT ![u] = row[u]]
    BY <1>1, <1>7 DEF UploadInv, UploadsTypeOK
  <2>3. ServeStep(c, d, e, temp[u], row[u])
    BY <1>1, <1>2, <1>3, <1>7, <2>1, <2>2 DEF ServeStep
  <2> QED
    BY <1>1, <1>3, <2>3, ServeKeeps
<1>8. CASE UNCHANGED <<entry, row>> /\ Refusal(c)
  BY <1>1, <1>8, QuietKeeps
<1>9. \A x : [entry EXCEPT ![c.upload].attempted = x]
               = [entry EXCEPT ![u] = [entry[u] EXCEPT !.attempted = x]]
  BY <1>1 DEF UploadInv, UploadsTypeOK
<1> QED
  BY <1>5, <1>6, <1>7, <1>8, <1>9 DEF Save

\* The answer to a finalization keeps the invariant.
LEMMA FinishKeeps == ASSUME UploadInv, NEW c \in calls, Finish(c) PROVE UploadInv'
<1> DEFINE u == c.upload
           e == [entry[u] EXCEPT !.complete = TRUE, !.expired = FALSE]
<1>1. /\ u \in Upload /\ entry[u] \in EntryType /\ row[u] \in RowType
      /\ c.phase = "saved" /\ UNCHANGED <<job, row, started, restarts>>
      /\ row' = [row EXCEPT ![u] = row[u]] /\ entry[u].committed \in Nat
  BY DEF UploadInv, UploadsTypeOK, CallType, Finish, EntryType
<1>2. CASE UNCHANGED <<entry, temp>> /\ Refusal(c)
  BY <1>1, <1>2, QuietKeeps
<1>3. CASE /\ entry' = [entry EXCEPT ![c.upload].complete = TRUE, ![c.upload].expired = FALSE]
           /\ temp' = RemoveFiles({c.upload}) /\ Answer(c, entry[c.upload].committed)
  <2>1. /\ e \in EntryType /\ e.committed = entry[u].committed
        /\ e.attempted = entry[u].attempted /\ e.complete
    BY <1>1 DEF EntryType
  <2>2. NoFile \in TempType /\ ~NoFile.present
    BY DEF NoFile, TempType
  <2>3. temp' = [temp EXCEPT ![u] = NoFile]
    BY <1>1, <1>3 DEF UploadInv, UploadsTypeOK, RemoveFiles
  <2>4. entry' = [entry EXCEPT ![u] = e]
    BY <1>1, <1>3 DEF UploadInv, UploadsTypeOK
  <2>5. PICK d \in CallType : /\ d.upload = u /\ d.offset = c.offset /\ d.phase = "answered"
                              /\ calls' = (calls \ {c}) \cup {d} \/ calls' = calls \ {c}
    BY <1>1, <1>3, LeaveFacts DEF Answer
  <2>6. /\ entry[u].committed <= Total(u)
        /\ ~entry[u].attempted => row[u].state = "none"
    BY <1>1 DEF UploadInv, CommittedIsPrefix, RowIsResolved
  <2> HIDE DEF e
  <2>7. ServeStep(c, d, e, NoFile, row[u])
    BY <1>1, <2>1, <2>2, <2>3, <2>4, <2>5, <2>6 DEF ServeStep
  <2> QED
    BY <1>1, <2>1, <2>2, <2>7, ServeKeeps
<1> QED
  BY <1>2, <1>3 DEF Finish

\* What a sweep makes of the table and of the files.
LEMMA SweepFacts ==
    ASSUME UploadInv, NEW S \in SUBSET Upload
    PROVE  /\ DropSwept(entry) \in [Upload -> EntryType]
           /\ RemoveFiles(S) \in [Upload -> TempType]
           /\ \A u \in Upload :
                /\ DropSwept(entry)[u].committed = entry[u].committed
                /\ DropSwept(entry)[u].complete = entry[u].complete
                /\ DropSwept(entry)[u].attempted = entry[u].attempted
                /\ RemoveFiles(S)[u] = temp[u] \/ ~RemoveFiles(S)[u].present
<1>1. \A e \in EntryType : /\ [e EXCEPT !.listed = FALSE] \in EntryType
                           /\ [e EXCEPT !.listed = FALSE].committed = e.committed
                           /\ [e EXCEPT !.listed = FALSE].complete = e.complete
                           /\ [e EXCEPT !.listed = FALSE].attempted = e.attempted
  BY DEF EntryType
<1>2. NoFile \in TempType /\ ~NoFile.present
  BY DEF NoFile, TempType
<1>3. DropSwept(entry) \in [Upload -> EntryType]
  BY <1>1 DEF UploadInv, UploadsTypeOK, DropSwept
<1>4. RemoveFiles(S) \in [Upload -> TempType]
  BY <1>2 DEF UploadInv, UploadsTypeOK, RemoveFiles
<1>5. ASSUME NEW u \in Upload
      PROVE  /\ DropSwept(entry)[u].committed = entry[u].committed
             /\ DropSwept(entry)[u].complete = entry[u].complete
             /\ DropSwept(entry)[u].attempted = entry[u].attempted
  BY <1>1 DEF UploadInv, UploadsTypeOK, DropSwept
<1>6. ASSUME NEW u \in Upload
      PROVE  RemoveFiles(S)[u] = temp[u] \/ ~RemoveFiles(S)[u].present
  BY <1>2 DEF RemoveFiles
<1> QED
  BY <1>3, <1>4, <1>5, <1>6

\* The sweeper, the clock, a restart and the user keep the invariant.
LEMMA EnvironmentKeeps ==
    ASSUME UploadInv, Sweep \/ Restart \/ \E u \in Upload : Expire(u) \/ DeleteAttachment(u)
    PROVE  UploadInv'
<1> USE DEF UploadInv, UploadsTypeOK
<1>1. CASE Sweep
  <2> DEFINE S == Swept \cup {u \in Upload : ~entry[u].listed /\ entry[u].expired}
  <2>1. S \in SUBSET Upload
    BY DEF Swept
  <2>2. entry' = DropSwept(entry) /\ temp' = RemoveFiles(S) /\ UNCHANGED <<job, calls, row, started, restarts>>
    BY <1>1 DEF Sweep
  <2> HIDE DEF S
  <2> QED
    BY <2>1, <2>2, SweepFacts, StillKept, TableKeeps
<1>2. CASE Restart
  <2>1. \A e \in EntryType :
           LET f == [e EXCEPT !.listed = FALSE, !.expired = FALSE]
           IN /\ f \in EntryType /\ f.committed = e.committed
              /\ f.complete = e.complete /\ f.attempted = e.attempted
    BY DEF EntryType
  <2>2. /\ entry' \in [Upload -> EntryType]
        /\ \A u \in Upload : /\ entry'[u].committed = entry[u].committed
                             /\ entry'[u].complete = entry[u].complete
                             /\ entry'[u].attempted = entry[u].attempted
    BY <1>2, <2>1 DEF Restart
  <2>3. temp' \in [Upload -> TempType] /\ \A u \in Upload : temp'[u] = temp[u] \/ ~temp'[u].present
    <3>1. {u \in Upload : entry[u].listed} \in SUBSET Upload
      OBVIOUS
    <3> QED
      BY <1>2, <3>1, SweepFacts DEF Restart
  <2>4. restarts' \in Nat /\ started' \in BOOLEAN /\ UNCHANGED <<job, row>>
    <3>1. started' \in BOOLEAN /\ UNCHANGED <<job, row>> /\ restarts' = restarts + 1
      BY <1>2, Zenon DEF Restart
    <3> QED
      BY <3>1
  <2>5. calls' \subseteq calls
    <3>1. calls' = {c \in calls : c.phase = "answered"}
      BY <1>2 DEF Restart
    <3> QED
      BY <3>1
  <2> QED
    BY <2>2, <2>3, <2>4, <2>5, StillKept, TableKeeps
<1>3. ASSUME NEW u \in Upload, Expire(u) PROVE UploadInv'
  <2>1. \A e \in EntryType :
           /\ [e EXCEPT !.expired = TRUE] \in EntryType
           /\ [e EXCEPT !.expired = TRUE].committed = e.committed
           /\ [e EXCEPT !.expired = TRUE].complete = e.complete
           /\ [e EXCEPT !.expired = TRUE].attempted = e.attempted
    BY DEF EntryType
  <2>2. entry' = [entry EXCEPT ![u] = [entry[u] EXCEPT !.expired = TRUE]]
    BY <1>3 DEF Expire
  <2>3. /\ entry' \in [Upload -> EntryType]
        /\ \A v \in Upload : /\ entry'[v].committed = entry[v].committed
                             /\ entry'[v].complete = entry[v].complete
                             /\ entry'[v].attempted = entry[v].attempted
    BY <2>1, <2>2
  <2>4. UNCHANGED <<job, calls, temp, row, started, restarts>>
    BY <1>3 DEF Expire
  <2> QED
    BY <2>3, <2>4, StillKept, TableKeeps
<1>4. ASSUME NEW u \in Upload, DeleteAttachment(u) PROVE UploadInv'
  <2>1. /\ [state |-> "deleted", bytes |-> <<>>] \in RowType
        /\ [state |-> "deleted", bytes |-> <<>>].state = "deleted"
    BY DEF RowType
  <2>2. /\ row' \in [Upload -> RowType]
        /\ \A v \in Upload : row'[v].state = "none" <=> row[v].state = "none"
    BY <1>4, <2>1 DEF DeleteAttachment
  <2>3. UNCHANGED <<job, calls, entry, temp, started, restarts>>
    BY <1>4 DEF DeleteAttachment
  <2> QED
    BY <2>2, <2>3, StillKept, TableKeeps
<1> QED
  BY <1>1, <1>2, <1>3, <1>4

\* An upload that is opened begins with an empty file, whatever else is swept.
LEMMA OpenKeeps == ASSUME UploadInv, NEW u \in Upload, Open(u) PROVE UploadInv'
<1> DEFINE e == [NoEntry EXCEPT !.listed = TRUE]
           t == [present |-> TRUE, bytes |-> <<>>]
           j == [phase |-> "sending", offset |-> 0, attempt |-> 1]
<1>1. /\ e \in EntryType /\ e.committed = 0 /\ ~e.complete /\ ~e.attempted
      /\ t \in TempType /\ t.bytes = <<>> /\ j \in JobType /\ j.phase = "sending" /\ j.attempt = 1
      /\ Call(u, 0, 1) \in CallType /\ Call(u, 0, 1).upload = u /\ Call(u, 0, 1).phase = "sent"
  <2>1. e \in EntryType /\ e.committed = 0 /\ ~e.complete /\ ~e.attempted
    <3>1. /\ NoEntry \in EntryType /\ NoEntry.committed = 0
          /\ NoEntry.complete = FALSE /\ NoEntry.attempted = FALSE
      BY DEF NoEntry, EntryType
    <3> QED
      BY <3>1 DEF EntryType
  <2>2. /\ t \in TempType /\ t.bytes = <<>>
        /\ j \in JobType /\ j.phase = "sending" /\ j.attempt = 1
    BY DEF TempType, JobType
  <2>3. Call(u, 0, 1) \in CallType /\ Call(u, 0, 1).upload = u /\ Call(u, 0, 1).phase = "sent"
    BY DEF Call, CallType
  <2> QED
    BY <2>1, <2>2, <2>3
<1>2. /\ job[u].phase = "opening" /\ row[u].state = "none" /\ ~entry[u].complete
      /\ \A c \in calls : c.upload # u
  BY DEF UploadInv, Unopened, Open
<1>3. /\ entry' = [DropSwept(entry) EXCEPT ![u] = e] /\ temp' = [RemoveFiles(Swept) EXCEPT ![u] = t]
      /\ started' = TRUE /\ UNCHANGED <<row, restarts>>
  BY DEF Open, Create
<1>4. Swept \in SUBSET Upload
  BY DEF Swept
<1>5. /\ entry' \in [Upload -> EntryType] /\ temp' \in [Upload -> TempType]
      /\ \A v \in Upload \ {u} :
            /\ entry'[v].committed = entry[v].committed
            /\ entry'[v].complete = entry[v].complete
            /\ entry'[v].attempted = entry[v].attempted
            /\ temp'[v] = temp[v] \/ ~temp'[v].present
      /\ entry'[u] = e /\ temp'[u] = t
  <2> HIDE DEF e, t
  <2> QED
    BY <1>1, <1>3, <1>4, SweepFacts
<1>6. \/ SendChunk(u, 0, 1, {})
      \/ StopJob(u, "failed", {})
  BY DEF Open
<1>7. /\ job' \in [Upload -> JobType]
      /\ \A v \in Upload : job'[v].attempt <= MaxAttempts[v]
      /\ job'[u].phase \in {"sending", "failed"}
      /\ \A v \in Upload \ {u} : job'[v] = job[v]
  <2>1. CASE job' = [job EXCEPT ![u] = j]
    <3> HIDE DEF j
    <3>1. 1 <= MaxAttempts[u]
      BY LimitsAssumption
    <3> QED
      BY <1>1, <2>1, <3>1 DEF UploadInv, UploadsTypeOK
  <2>2. CASE job' = [job EXCEPT ![u].phase = "failed"]
    <3>1. /\ [job[u] EXCEPT !.phase = "failed"] \in JobType
          /\ [job[u] EXCEPT !.phase = "failed"].phase = "failed"
          /\ [job[u] EXCEPT !.phase = "failed"].attempt = job[u].attempt
      BY DEF UploadInv, UploadsTypeOK, JobType
    <3> QED
      BY <2>2, <3>1 DEF UploadInv, UploadsTypeOK
  <2> QED
    BY <1>6, <2>1, <2>2 DEF SendChunk, StopJob
<1>8. calls' = calls \/ calls' = calls \cup {Call(u, 0, 1)}
  BY <1>6 DEF SendChunk, StopJob
<1> HIDE DEF e, t, j
<1>9. UploadsTypeOK'
  BY <1>1, <1>3, <1>5, <1>7, <1>8 DEF UploadInv, UploadsTypeOK
<1>10. CommittedIsPrefix'
  <2>1. \A v \in Upload : File[v] \in Seq(Byte) /\ Total(v) \in Nat
    BY ChunkFacts
  <2>2. SubSeq(File[u], 1, 0) = <<>> /\ 0 <= Total(u)
    BY <2>1
  <2>3. ASSUME NEW v \in Upload \ {u}
        PROVE  /\ entry'[v].committed <= Total(v)
               /\ temp'[v].present => temp'[v].bytes = SubSeq(File[v], 1, entry'[v].committed)
    BY <1>5 DEF UploadInv, CommittedIsPrefix
  <2>4. /\ entry'[u].committed <= Total(u)
        /\ temp'[u].bytes = SubSeq(File[u], 1, entry'[u].committed)
    BY <1>1, <1>5, <2>2
  <2> QED
    BY <2>3, <2>4 DEF CommittedIsPrefix
<1>11. RowIsResolved'
  BY <1>2, <1>3, <1>5 DEF UploadInv, RowIsResolved
<1>12. OneHolder'
  BY <1>1, <1>8 DEF UploadInv, OneHolder
<1>13. CallsAreSound'
  <2>1. \A c \in calls : c.upload \in Upload \ {u}
    BY <1>2 DEF UploadInv, UploadsTypeOK, CallType
  <2> QED
    BY <1>1, <1>3, <1>5, <1>8, <2>1 DEF UploadInv, CallsAreSound
<1>14. Unopened'
  BY <1>1, <1>3, <1>5, <1>7, <1>8 DEF UploadInv, Unopened
<1> QED
  BY <1>9, <1>10, <1>11, <1>12, <1>13, <1>14 DEF UploadInv

\* The steps of the browser keep the invariant.
LEMMA BrowserKeeps ==
    ASSUME UploadInv, NEW u \in Upload, Begin(u) \/ Browser(u) PROVE UploadInv'
<1>1. CASE Begin(u)
  <2>1. JobsKept /\ UNCHANGED <<calls, entry, temp, row, started, restarts>>
    BY <1>1, PhaseKept DEF Begin
  <2> QED
    BY <2>1, TableKeeps DEF UploadInv, UploadsTypeOK
<1>2. CASE Open(u)
  BY <1>2, OpenKeeps
<1>3. CASE Refuse(u)
  <2>1. JobsKept /\ calls' \subseteq calls /\ UNCHANGED <<row, restarts>>
    BY <1>3, PhaseKept DEF Refuse, StopJob
  <2>2. Swept \in SUBSET Upload
    BY DEF Swept
  <2>3. CASE UNCHANGED <<entry, temp, started>>
    BY <2>1, <2>3, TableKeeps DEF UploadInv, UploadsTypeOK
  <2>4. CASE started' = TRUE /\ entry' = DropSwept(entry) /\ temp' = RemoveFiles(Swept)
    BY <2>1, <2>2, <2>4, SweepFacts, TableKeeps DEF UploadInv, UploadsTypeOK
  <2> QED
    BY <1>3, <2>3, <2>4 DEF Refuse
<1>4. Abandoned(u) \in SUBSET calls
  BY DEF Abandoned
<1>5. CASE GiveUp(u)
  BY <1>4, <1>5, StopKeeps DEF GiveUp
<1>6. CASE Retry(u)
  <2>1. job[u].offset \in Nat /\ job[u].attempt \in Nat /\ MaxAttempts[u] \in Nat
    BY LimitsAssumption DEF UploadInv, UploadsTypeOK, JobType
  <2>2. CASE job[u].attempt < MaxAttempts[u]
    <3>1. job[u].attempt + 1 \in Nat /\ job[u].attempt + 1 <= MaxAttempts[u]
      BY <2>1, <2>2
    <3> QED
      BY <1>4, <1>6, <2>1, <2>2, <3>1, SendKeeps DEF Retry
  <2>3. CASE ~(job[u].attempt < MaxAttempts[u])
    BY <1>4, <1>6, <2>3, StopKeeps DEF Retry
  <2> QED
    BY <2>2, <2>3
<1>7. ASSUME NEW c \in calls, c.upload = u, Receive(c) PROVE UploadInv'
  <2>1. c.offset \in Nat /\ End(u, c.offset) \in Nat /\ 1 <= MaxAttempts[u]
    <3>1. c.offset \in Nat
      BY DEF UploadInv, UploadsTypeOK, CallType
    <3>2. End(u, c.offset) \in 0 .. Total(u) /\ Total(u) \in Nat
      BY <3>1, ChunkFacts
    <3>3. 1 <= MaxAttempts[u]
      BY LimitsAssumption
    <3> QED
      BY <3>1, <3>2, <3>3
  <2>2. /\ \/ StopJob(u, "failed", {c}) \/ StopJob(u, "done", {c})
           \/ SendChunk(u, End(u, c.offset), 1, {c})
        /\ UNCHANGED <<entry, temp, row, started, restarts>>
    BY <1>7 DEF Receive
  <2>3. {c} \in SUBSET calls
    OBVIOUS
  <2>4. CASE StopJob(u, "failed", {c}) \/ StopJob(u, "done", {c})
    BY <2>2, <2>3, <2>4, StopKeeps
  <2>5. CASE SendChunk(u, End(u, c.offset), 1, {c})
    BY <2>1, <2>2, <2>3, <2>5, SendKeeps
  <2> QED
    BY <2>2, <2>4, <2>5
<1> QED
  BY <1>1, <1>2, <1>3, <1>5, <1>6, <1>7 DEF Browser

\* Every step keeps the invariant.
LEMMA InvStep == UploadInv /\ [Next]_vars => UploadInv'
<1> SUFFICES ASSUME UploadInv, [Next]_vars PROVE UploadInv'
  OBVIOUS
<1>1. ASSUME NEW u \in Upload, Begin(u) \/ Browser(u) PROVE UploadInv'
  BY <1>1, BrowserKeeps
<1>2. CASE Sweep \/ Restart \/ \E u \in Upload : Expire(u) \/ DeleteAttachment(u)
  BY <1>2, EnvironmentKeeps
<1>3. ASSUME NEW c \in calls, Serve(c) PROVE UploadInv'
  <2>1. CASE Lookup(c)
    BY <2>1, QuietKeeps DEF Lookup
  <2> QED
    BY <1>3, <2>1, WriteKeeps, SaveKeeps, FinishKeeps DEF Serve
<1>4. CASE UNCHANGED vars
  <2>1. UNCHANGED <<job, calls, entry, temp, row, started, restarts>>
    BY <1>4 DEF vars
  <2> QED
    BY <2>1, StillKept, TableKeeps DEF UploadInv, UploadsTypeOK
<1> QED
  BY <1>1, <1>2, <1>3, <1>4 DEF Next

\* The invariant holds at every step of every behaviour of the uploads.
THEOREM UploadsSound == Spec => []UploadInv
  BY InvInit, InvStep, PTL DEF Spec

\* The state of uploads is well typed (UploadAttachment and uploadFile).
THEOREM UploadsTyped == Spec => []UploadsTypeOK
<1>1. UploadInv => UploadsTypeOK
  BY DEF UploadInv
<1> QED
  BY <1>1, UploadsSound, PTL

\* However its calls are repeated, delayed and reordered, the temporary file of
\* an upload is a prefix of the file (attachmentUpload.write).
THEOREM PrefixAlways == Spec => []CommittedIsPrefix
<1>1. UploadInv => CommittedIsPrefix
  BY DEF UploadInv
<1> QED
  BY <1>1, UploadsSound, PTL

-----------------------------------------------------------------------------
(* The limits of the table                                                 *)

Listed == {u \in Upload : entry[u].listed}
Active == {u \in Upload : entry[u].listed /\ ~entry[u].complete}

\* A step that lists no upload and reopens none.
ListsNothing ==
    \A u \in Upload : /\ entry'[u].listed => entry[u].listed
                      /\ entry[u].complete => entry'[u].complete

\* What follows a chunk's write lists no new upload and reopens no complete one.
LEMMA AfterWriteListsNothing ==
    ASSUME entry \in [Upload -> EntryType], NEW c \in calls, c.upload \in Upload,
           NEW e \in EntryType, AfterWrite(c, e), e.listed = entry[c.upload].listed,
           e.complete = entry[c.upload].complete
    PROVE  ListsNothing
<1> DEFINE u == c.upload
           x == [e EXCEPT !.expired = FALSE]
<1>1. x \in EntryType /\ x.listed = e.listed /\ x.complete = e.complete
  BY DEF EntryType
<1> HIDE DEF x
<1>2. entry' = [entry EXCEPT ![u] = e] \/ entry' = [entry EXCEPT ![u] = x]
  BY DEF AfterWrite, x
<1>3. /\ \A v \in Upload \ {u} : entry'[v] = entry[v]
      /\ entry'[u].listed = entry[u].listed /\ entry'[u].complete = entry[u].complete
  BY <1>1, <1>2
<1> QED
  BY <1>3 DEF ListsNothing

\* Nor does any other call to an existing upload: only Create adds to the list.
LEMMA ServeListsNothing ==
    ASSUME UploadInv, NEW c \in calls, Serve(c)
    PROVE  ListsNothing
<1> DEFINE u == c.upload
<1>1. u \in Upload /\ c.offset \in Nat /\ entry \in [Upload -> EntryType]
  BY DEF UploadInv, UploadsTypeOK, CallType
<1>2. CASE entry' = entry
  BY <1>2 DEF ListsNothing
<1>3. CASE Write(c)
  <2>1. CASE AppendChunk(c)
    <3> DEFINE data == Chunk(u, c.offset)
               x == [entry[u] EXCEPT !.committed = @ + Len(data)]
               e == [entry[u] EXCEPT !.committed = @ + Len(data), !.last = data]
    <3>1. AfterWrite(c, e) /\ e = [x EXCEPT !.last = data]
      BY <2>1 DEF AppendChunk
    <3>2. entry[u].committed + Len(data) \in Nat /\ data \in Seq(Byte)
      BY <1>1, <2>1, AppendExtends, ChunkFacts DEF AppendChunk
    <3> HIDE DEF data, e
    <3>3. x \in EntryType /\ x.complete = entry[u].complete /\ x.listed = entry[u].listed
      BY <1>1, <3>2 DEF EntryType
    <3> HIDE DEF x
    <3>4. e \in EntryType /\ e.complete = entry[u].complete /\ e.listed = entry[u].listed
      BY <3>1, <3>2, <3>3 DEF EntryType
    <3> QED
      BY <1>1, <3>1, <3>4, AfterWriteListsNothing
  <2>2. CASE WriteFails(c)
    BY <1>1, <2>2 DEF WriteFails, EntryType, ListsNothing
  <2>3. CASE AfterWrite(c, entry[u])
    BY <1>1, <2>3, AfterWriteListsNothing
  <2> QED
    BY <1>2, <1>3, <2>1, <2>2, <2>3 DEF Write
<1>4. CASE Save(c)
  BY <1>1, <1>4 DEF Save, EntryType, ListsNothing
<1>5. CASE Finish(c)
  BY <1>1, <1>5 DEF Finish, EntryType, ListsNothing
<1> QED
  BY <1>2, <1>3, <1>4, <1>5 DEF Serve, Lookup

\* Only create adds to the table.
LEMMA OnlyOpenLists ==
    ASSUME UploadInv, [Next]_vars
    PROVE  ListsNothing \/ \E u \in Upload : Open(u)
<1>1. entry \in [Upload -> EntryType]
  BY DEF UploadInv, UploadsTypeOK
<1>2. CASE entry' = entry
  BY <1>2 DEF ListsNothing
<1>3. CASE entry' = DropSwept(entry)
  BY <1>1, <1>3 DEF DropSwept, EntryType, ListsNothing
<1>4. CASE Restart
  BY <1>1, <1>4 DEF Restart, EntryType, ListsNothing
<1>5. ASSUME NEW u \in Upload, Expire(u) PROVE ListsNothing
  BY <1>1, <1>5 DEF Expire, EntryType, ListsNothing
<1> QED
  BY <1>2, <1>3, <1>4, <1>5, ServeListsNothing
     DEF Next, Begin, Browser, Retry, GiveUp, Refuse, Receive, Sweep, DeleteAttachment, vars

\* create counts after it has swept, so that the upload it adds still fits.
LEMMA CreateStaysBounded ==
    ASSUME UploadInv, IsFiniteSet(Listed), NEW u \in Upload, Create(u)
    PROVE  IsFiniteSet(Listed)' /\ UploadsBounded'
<1> DEFINE K == {v \in Upload \ Swept : entry[v].listed}
<1>1. entry \in [Upload -> EntryType]
  BY DEF UploadInv, UploadsTypeOK
<1>2. \A v \in Upload \ {u} :
        /\ entry'[v].listed => entry[v].listed /\ v \notin Swept
        /\ entry'[v].complete = entry[v].complete
  BY <1>1 DEF Create, DropSwept, EntryType
<1>3. Listed' \subseteq K \cup {u} /\ Active' \subseteq Unfinished \cup {u}
  BY <1>2 DEF Listed, Active, Unfinished
<1>4. IsFiniteSet(K) /\ IsFiniteSet(Unfinished)
  <2>1. K \subseteq Listed /\ Unfinished \subseteq Listed
    BY DEF Listed, Unfinished
  <2> QED
    BY <2>1, FS_Subset
<1>5. /\ Cardinality(K) \in Nat /\ Cardinality(Unfinished) \in Nat
      /\ Cardinality(Unfinished) < MaxActive /\ Cardinality(K) < MaxSessions
      /\ MaxActive \in Nat /\ MaxSessions \in Nat
  BY <1>4, FS_CardinalityType, LimitsAssumption DEF Create
<1>6. ASSUME NEW S, NEW T, IsFiniteSet(S), T \subseteq S \cup {u}, NEW n \in Nat,
             Cardinality(S) < n
      PROVE  IsFiniteSet(T) /\ Cardinality(T) <= n
  <2>1. /\ IsFiniteSet(S \cup {u})
        /\ Cardinality(S \cup {u}) = Cardinality(S) \/ Cardinality(S \cup {u}) = Cardinality(S) + 1
    BY <1>6, FS_AddElement
  <2>2. IsFiniteSet(T) /\ Cardinality(T) <= Cardinality(S \cup {u})
    BY <1>6, <2>1, FS_Subset
  <2>3. Cardinality(T) \in Nat /\ Cardinality(S) \in Nat
    BY <1>6, <2>2, FS_CardinalityType
  <2> QED
    BY <1>6, <2>1, <2>2, <2>3
<1>7. IsFiniteSet(Listed') /\ Cardinality(Listed') <= MaxSessions
  BY <1>3, <1>4, <1>5, <1>6
<1>8. Cardinality(Active') <= MaxActive
  BY <1>3, <1>4, <1>5, <1>6
<1> QED
  BY <1>7, <1>8 DEF UploadsBounded, Listed, Active

\* However uploads are opened, finished, expired and swept, a user has never
\* more unfinished ones than allowed, and the table never more entries than
\* its limit (create, sweepLocked).
THEOREM UploadsStayBounded == Spec => []UploadsBounded
<1> DEFINE TableInv == IsFiniteSet(Listed) /\ UploadsBounded
<1>1. Init => TableInv
  <2> SUFFICES ASSUME Init PROVE TableInv
    OBVIOUS
  <2>1. Listed = {} /\ Active = {}
    BY DEF Init, Listed, Active, NoEntry
  <2>2. IsFiniteSet(Listed) /\ Cardinality(Listed) = 0 /\ Cardinality(Active) = 0
    BY <2>1, FS_EmptySet
  <2>3. Cardinality(Listed) <= MaxSessions /\ Cardinality(Active) <= MaxActive
    BY <2>2, LimitsAssumption
  <2> QED
    BY <2>2, <2>3 DEF Listed, Active, UploadsBounded
<1>2. TableInv /\ UploadInv /\ [Next]_vars => TableInv'
  <2> SUFFICES ASSUME TableInv, UploadInv, [Next]_vars PROVE TableInv'
    OBVIOUS
  <2>1. CASE ListsNothing
    <3>1. Listed' \subseteq Listed /\ Active' \subseteq Active /\ Active \subseteq Listed
      BY <2>1 DEF ListsNothing, Listed, Active
    <3>2. IsFiniteSet(Active)
      BY <3>1, FS_Subset
    <3>3. /\ IsFiniteSet(Listed') /\ Cardinality(Listed') <= Cardinality(Listed)
          /\ IsFiniteSet(Active') /\ Cardinality(Active') <= Cardinality(Active)
      BY <3>1, <3>2, FS_Subset
    <3>4. /\ Cardinality(Listed') \in Nat /\ Cardinality(Listed) \in Nat
          /\ Cardinality(Active') \in Nat /\ Cardinality(Active) \in Nat
          /\ MaxActive \in Nat /\ MaxSessions \in Nat
      BY <3>2, <3>3, FS_CardinalityType, LimitsAssumption
    <3>5. Cardinality(Listed) <= MaxSessions /\ Cardinality(Active) <= MaxActive
      BY DEF UploadsBounded, Listed, Active
    <3>6. Cardinality(Listed') <= MaxSessions /\ Cardinality(Active') <= MaxActive
      BY <3>3, <3>4, <3>5
    <3> QED
      BY <3>3, <3>6 DEF UploadsBounded, Listed, Active
  <2>2. ASSUME NEW u \in Upload, Open(u) PROVE TableInv'
    BY <2>2, CreateStaysBounded DEF Open
  <2> QED
    BY <2>1, <2>2, OnlyOpenLists
<1> QED
  BY <1>1, <1>2, UploadsSound, PTL DEF Spec

-----------------------------------------------------------------------------
(* The refinement                                                          *)

\* The outcome that the browser shows for a phase of uploadFile.
Outcome(phase) == IF phase \in {"opening", "sending"} THEN "pending" ELSE phase

\* A step that changes no row, completes no upload and moves no job to another
\* outcome is a stutter of the abstract specification.
LEMMA Stutter ==
    ASSUME row' = row,
           \A u \in Upload : /\ entry'[u].complete = entry[u].complete
                             /\ Outcome(job'[u].phase) = Outcome(job[u].phase)
    PROVE  UNCHANGED Abstract!avars
  BY DEF Abstract!avars, Outcome

\* A job's step to another outcome.
LEMMA OutcomeStep ==
    ASSUME UploadInv, NEW u \in Upload, row' = row,
           \A v \in Upload : entry'[v].complete = entry[v].complete,
           \A v \in Upload \ {u} : job'[v].phase = job[v].phase,
           \/ job[u].phase = "new" /\ job'[u].phase = "opening"
           \/ job[u].phase \in {"opening", "sending"} /\ job'[u].phase = "failed"
           \/ /\ job[u].phase = "sending" /\ job'[u].phase = "done" /\ entry[u].complete
    PROVE  Abstract!ANext
<1> DEFINE O == [v \in Upload |-> IF job[v].phase \in {"opening", "sending"} THEN "pending"
                                  ELSE job[v].phase]
           P == [v \in Upload |-> IF job'[v].phase \in {"opening", "sending"} THEN "pending"
                                  ELSE job'[v].phase]
           A == [v \in Upload |-> entry[v].complete]
           B == [v \in Upload |-> entry'[v].complete]
<1>1. B = A
  OBVIOUS
<1>2. /\ O[u] = "new" => job[u].phase = "new"
      /\ P = [O EXCEPT ![u] = P[u]]
  OBVIOUS
<1>3. CASE job[u].phase = "new" /\ job'[u].phase = "opening"
  <2>1. O[u] = "new" /\ P = [O EXCEPT ![u] = "pending"]
    BY <1>2, <1>3
  <2>2. Abstract!Begin(u)
    BY <1>1, <2>1 DEF Abstract!Begin
  <2> QED
    BY <2>2 DEF Abstract!ANext
<1>4. CASE job[u].phase \in {"opening", "sending"} /\ job'[u].phase = "failed"
  <2>1. O[u] = "pending" /\ P = [O EXCEPT ![u] = "failed"]
    BY <1>2, <1>4
  <2>2. Abstract!Fail(u)
    BY <1>1, <2>1 DEF Abstract!Fail
  <2> QED
    BY <2>2 DEF Abstract!ANext
<1>5. CASE job[u].phase = "sending" /\ job'[u].phase = "done" /\ entry[u].complete
  <2>1. O[u] = "pending" /\ P = [O EXCEPT ![u] = "done"] /\ A[u]
    BY <1>2, <1>5
  <2>2. Abstract!Succeed(u)
    BY <1>1, <2>1 DEF Abstract!Succeed
  <2> QED
    BY <2>2 DEF Abstract!ANext
<1> QED
  BY <1>3, <1>4, <1>5

\* A step of the browser, and of the server for the spec call, is a step of one
\* job or a stutter.
LEMMA BrowserRefines ==
    ASSUME UploadInv, NEW u \in Upload, Begin(u) \/ Browser(u)
    PROVE  Abstract!ANext \/ UNCHANGED Abstract!avars
<1>0. job \in [Upload -> JobType] /\ \A v \in Upload : job[v] \in JobType
  BY DEF UploadInv, UploadsTypeOK
<1>1. ASSUME NEW phase \in {"opening", "done", "failed"}, job' = [job EXCEPT ![u].phase = phase]
      PROVE  /\ job'[u].phase = phase /\ \A v \in Upload \ {u} : job'[v].phase = job[v].phase
  BY <1>0, <1>1 DEF JobType
<1>2. ASSUME NEW offset, NEW attempt,
             job' = [job EXCEPT ![u] = [phase |-> "sending", offset |-> offset, attempt |-> attempt]],
             job[u].phase \in {"opening", "sending"}
      PROVE  \A v \in Upload : Outcome(job'[v].phase) = Outcome(job[v].phase)
  BY <1>0, <1>2 DEF Outcome
<1>3. CASE Begin(u)
  BY <1>1, <1>3, OutcomeStep DEF Begin
<1>4. ASSUME \A v \in Upload : entry'[v].complete = entry[v].complete, row' = row,
             StopJob(u, "failed", Abandoned(u)) \/ StopJob(u, "failed", {}),
             job[u].phase \in {"opening", "sending"}
      PROVE  Abstract!ANext
  BY <1>1, <1>4, OutcomeStep DEF StopJob
<1>5. CASE Open(u)
  <2>1. \A v \in Upload : entry'[v].complete = entry[v].complete
    <3>1. Swept \in SUBSET Upload
      BY DEF Swept
    <3>2. ~entry[u].complete /\ NoEntry.complete = FALSE
             /\ [NoEntry EXCEPT !.listed = TRUE].complete = FALSE
      BY <1>5 DEF UploadInv, Unopened, Open, NoEntry
    <3>3. entry' = [DropSwept(entry) EXCEPT ![u] = [NoEntry EXCEPT !.listed = TRUE]]
      BY <1>5 DEF Open, Create
    <3>4. entry[u].complete \in BOOLEAN
      BY DEF UploadInv, UploadsTypeOK, EntryType
    <3> QED
      BY <3>1, <3>2, <3>3, <3>4, SweepFacts
  <2>2. /\ job[u].phase = "opening" /\ row' = row
        /\ SendChunk(u, 0, 1, {}) \/ StopJob(u, "failed", {})
    BY <1>5 DEF Open
  <2>3. CASE SendChunk(u, 0, 1, {})
    BY <1>2, <2>1, <2>2, <2>3, Stutter DEF SendChunk
  <2>4. CASE StopJob(u, "failed", {})
    BY <1>4, <2>1, <2>2, <2>4
  <2> QED
    BY <2>2, <2>3, <2>4
<1>6. CASE Refuse(u)
  <2>1. \A v \in Upload : entry'[v].complete = entry[v].complete
    BY <1>6, SweepFacts DEF Refuse
  <2> QED
    BY <1>4, <1>6, <2>1 DEF Refuse
<1>7. CASE GiveUp(u)
  BY <1>4, <1>7 DEF GiveUp
<1>8. CASE Retry(u)
  BY <1>2, <1>4, <1>8, Stutter DEF Retry, SendChunk
<1>9. ASSUME NEW c \in calls, c.upload = u, Receive(c)
      PROVE  Abstract!ANext \/ UNCHANGED Abstract!avars
  <2>1. job[u].phase = "sending" /\ c.phase = "answered" /\ row' = row /\ entry' = entry
    BY <1>9 DEF Receive, Awaited
  <2>2. \/ StopJob(u, "failed", {c})
        \/ StopJob(u, "done", {c}) /\ c.ok /\ FinishWrite(u, c.offset)
        \/ SendChunk(u, End(u, c.offset), 1, {c})
    BY <1>9 DEF Receive
  <2>3. CASE StopJob(u, "failed", {c})
    BY <1>1, <2>1, <2>3, OutcomeStep DEF StopJob
  <2>4. CASE StopJob(u, "done", {c}) /\ c.ok /\ FinishWrite(u, c.offset)
    <3>1. entry[u].complete
      BY <1>9, <2>1, <2>4 DEF UploadInv, CallsAreSound
    <3> QED
      BY <1>1, <2>1, <2>4, <3>1, OutcomeStep DEF StopJob
  <2>5. CASE SendChunk(u, End(u, c.offset), 1, {c})
    BY <1>2, <2>1, <2>5, Stutter DEF SendChunk
  <2> QED
    BY <2>2, <2>3, <2>4, <2>5
<1> QED
  BY <1>3, <1>5, <1>6, <1>7, <1>8, <1>9 DEF Browser

\* Neither the sweeper, the clock nor a restart is visible to the abstract
\* specification; the user deletes an attachment there too.
LEMMA EnvironmentRefines ==
    ASSUME UploadInv, Sweep \/ Restart \/ \E u \in Upload : Expire(u) \/ DeleteAttachment(u)
    PROVE  Abstract!ANext \/ UNCHANGED Abstract!avars
<1>0. entry \in [Upload -> EntryType] /\ \A v \in Upload : entry[v] \in EntryType
  BY DEF UploadInv, UploadsTypeOK
<1>1. CASE Sweep
  <2>1. {u \in Upload : ~entry[u].listed /\ entry[u].expired} \cup Swept \in SUBSET Upload
    BY DEF Swept
  <2> QED
    BY <1>1, <2>1, SweepFacts, Stutter DEF Sweep
<1>2. CASE Restart
  <2>1. \A u \in Upload : entry'[u].complete = entry[u].complete
    BY <1>0, <1>2 DEF Restart, EntryType
  <2> QED
    BY <1>2, <2>1, Stutter DEF Restart
<1>3. ASSUME NEW u \in Upload, Expire(u) PROVE UNCHANGED Abstract!avars
  <2>1. \A v \in Upload : entry'[v].complete = entry[v].complete
    BY <1>0, <1>3 DEF Expire, EntryType
  <2> QED
    BY <1>3, <2>1, Stutter DEF Expire
<1>4. ASSUME NEW u \in Upload, DeleteAttachment(u) PROVE Abstract!ANext
  <2>1. Abstract!Delete(u)
    BY <1>4 DEF DeleteAttachment, Abstract!Delete
  <2> QED
    BY <2>1 DEF Abstract!ANext
<1> QED
  BY <1>1, <1>2, <1>3, <1>4

\* A call on the server stores the whole file, acknowledges it, or stutters.
LEMMA ServeRefines ==
    ASSUME UploadInv, NEW c \in calls, Serve(c)
    PROVE  Abstract!ANext \/ UNCHANGED Abstract!avars
<1> DEFINE u == c.upload
<1>1. u \in Upload /\ entry \in [Upload -> EntryType] /\ entry[u] \in EntryType
  BY DEF UploadInv, UploadsTypeOK, CallType
<1>2. CASE Lookup(c)
  BY <1>2, Stutter DEF Lookup
<1>3. CASE Write(c)
  <2>1. ASSUME NEW e \in EntryType, e.complete = entry[u].complete, AfterWrite(c, e)
        PROVE  \A v \in Upload : entry'[v].complete = entry[v].complete
    <3>1. [e EXCEPT !.expired = FALSE].complete = e.complete
      BY DEF EntryType
    <3>2. \/ entry' = [entry EXCEPT ![u] = e]
          \/ entry' = [entry EXCEPT ![u] = [e EXCEPT !.expired = FALSE]]
      BY <2>1 DEF AfterWrite
    <3> QED
      BY <1>1, <2>1, <3>1, <3>2
  <2>2. CASE AppendChunk(c)
    <3> DEFINE data == Chunk(u, c.offset)
               x == [entry[u] EXCEPT !.committed = @ + Len(data)]
               e == [entry[u] EXCEPT !.committed = @ + Len(data), !.last = data]
    <3>1. AfterWrite(c, e) /\ e = [x EXCEPT !.last = data]
      BY <2>2 DEF AppendChunk
    <3>2. entry[u].committed + Len(data) \in Nat /\ data \in Seq(Byte)
      BY <1>1, <2>2, AppendExtends, ChunkFacts DEF AppendChunk
    <3> HIDE DEF data, e
    <3>3. x \in EntryType /\ x.complete = entry[u].complete
      BY <1>1, <3>2 DEF EntryType
    <3> HIDE DEF x
    <3>4. e \in EntryType /\ e.complete = entry[u].complete
      BY <3>1, <3>2, <3>3 DEF EntryType
    <3> QED
      BY <1>3, <2>1, <3>1, <3>4, Stutter DEF Write
  <2>3. CASE WriteFails(c)
    <3>1. \A v \in Upload : entry'[v].complete = entry[v].complete
      BY <1>1, <2>3 DEF WriteFails, EntryType
    <3> QED
      BY <1>3, <3>1, Stutter DEF Write
  <2>4. CASE UNCHANGED entry
    BY <1>3, <2>4, Stutter DEF Write
  <2>5. CASE AfterWrite(c, entry[u])
    BY <1>1, <1>3, <2>1, <2>5, Stutter DEF Write
  <2> QED
    BY <1>3, <2>2, <2>3, <2>4, <2>5 DEF Write
<1>4. CASE Save(c)
  <2>1. \A v \in Upload : entry'[v].complete = entry[v].complete
    BY <1>1, <1>4 DEF Save, EntryType
  <2>2. CASE row' = row
    BY <1>4, <2>1, <2>2, Stutter DEF Save
  <2>3. CASE row' # row
    <3>1. /\ temp[u].present /\ ~(entry[u].attempted /\ row[u].state = "saved")
          /\ row' = [row EXCEPT ![u] = [state |-> "saved", bytes |-> temp[u].bytes]]
          /\ c.phase = "saving" /\ job' = job
      BY <1>4, <2>3 DEF Save
    <3>2. /\ temp[u].bytes = File[u] /\ row[u].state # "saved" /\ ~entry[u].complete
      BY <3>1, SaveFinds
    <3>3. [v \in Upload |-> entry'[v].complete] = [v \in Upload |-> entry[v].complete]
      BY <2>1
    <3>4. Abstract!Store(u)
      BY <1>1, <3>1, <3>2, <3>3 DEF Abstract!Store
    <3> QED
      BY <1>1, <3>4 DEF Abstract!ANext
  <2> QED
    BY <2>2, <2>3
<1>5. CASE Finish(c)
  <2>1. CASE entry' = entry
    BY <1>5, <2>1, Stutter DEF Finish
  <2>2. CASE entry' # entry
    <3>1. /\ entry' = [entry EXCEPT ![u].complete = TRUE, ![u].expired = FALSE]
          /\ row' = row /\ job' = job /\ c.phase = "saved"
      BY <1>5, <2>2 DEF Finish
    <3>2. row[u].state # "none"
      BY <3>1 DEF UploadInv, CallsAreSound
    <3>3. [v \in Upload |-> entry'[v].complete]
            = [[v \in Upload |-> entry[v].complete] EXCEPT ![u] = TRUE]
      BY <1>1, <3>1 DEF EntryType
    <3>4. Abstract!Acknowledge(u)
      BY <3>1, <3>2, <3>3 DEF Abstract!Acknowledge
    <3> QED
      BY <1>1, <3>4 DEF Abstract!ANext
  <2> QED
    BY <2>1, <2>2
<1> QED
  BY <1>2, <1>3, <1>4, <1>5 DEF Serve

\* Chunked uploads, with all their retries, expiries and restarts, implement
\* the safety part of what an upload promises: the file is stored whole, success
\* means that the server has acknowledged it, and an acknowledged upload never
\* comes back after the user has deleted it.
THEOREM UploadsImplement == Spec => Abstract!ASafety
<1>1. Init => Abstract!AInit
  BY DEF Init, Abstract!AInit, NoJob, NoEntry, NoRow, Abstract!NoRow
<1>2. UploadInv /\ [Next]_vars => [Abstract!ANext]_(Abstract!avars)
  <2> SUFFICES ASSUME UploadInv, [Next]_vars PROVE Abstract!ANext \/ UNCHANGED Abstract!avars
    OBVIOUS
  <2>1. ASSUME NEW u \in Upload, Begin(u) \/ Browser(u)
        PROVE  Abstract!ANext \/ UNCHANGED Abstract!avars
    BY <2>1, BrowserRefines
  <2>2. CASE Sweep \/ Restart \/ \E u \in Upload : Expire(u) \/ DeleteAttachment(u)
    BY <2>2, EnvironmentRefines
  <2>3. ASSUME NEW c \in calls, Serve(c) PROVE Abstract!ANext \/ UNCHANGED Abstract!avars
    BY <2>3, ServeRefines
  <2>4. CASE UNCHANGED vars
    BY <2>4, Stutter DEF vars
  <2> QED
    BY <2>1, <2>2, <2>3, <2>4 DEF Next
<1> QED
  BY <1>1, <1>2, UploadsSound, PTL DEF Spec, Abstract!ASafety
=============================================================================
