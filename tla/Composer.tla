------------------------------ MODULE Composer ------------------------------
(***************************************************************************)
(* The composer of new memos and of comments in the web client             *)
(* (web/src/components/MemoEditor): its store, the draft cache in          *)
(* localStorage, saving, the inline image jobs and the audio recorder.     *)
(*                                                                         *)
(* What the user puts in is a set of pieces: words, images and recordings. *)
(* A piece in content is a text, or the reference of an image.  Location,  *)
(* visibility and times follow the draft or the reset and are left out.    *)
(* Every step is one turn of the event loop; the store notifies autosave   *)
(* within the turn, so the hook's latestDraft is the draft of the store.   *)
(***************************************************************************)
EXTENDS Integers, FiniteSets, FiniteSetsExt

CONSTANTS
    Word,           \* what the user types
    Image,          \* files the user picks
    Voice,          \* what the user says
    MaxRequests,    \* bound of the requests for the microphone in flight
    MaxSaves,       \* bound of the saves in flight, of closed editors too
    MaxInputs       \* bound of what the user does, reloads and kills included

ASSUME ComposerBounds == MaxRequests \in Nat \ {0} /\ MaxSaves \in Nat \ {0} /\ MaxInputs \in Nat

\* What is typed, picked and said is told apart.
ASSUME PiecesAreDistinct ==
    Word \cap Image = {} /\ Word \cap Voice = {} /\ Image \cap Voice = {}

VARIABLES
    parent,     \* whether the editor writes comments (parentMemoName)
    mounted,    \* whether the editor is on the page
    ed,         \* the editor's store
    stored,     \* the draft in localStorage, Empty when there is none
    timer,      \* the draft the debounce timer will write, or NoDraft
    discarded,  \* discardedDraftRef: the draft of the last save, or NoDraft
    saves,      \* saves whose answer or refetch is awaited
    jobs,       \* inline image jobs
    rec,        \* the audio recorder of the editor
    mic         \* the browser's side of it: requests, those of closed editors
                \* among them, microphones open, and whether one is left open

VARIABLE inputs \* how much the user has done

\* What the properties look at; no operation reads them.
VARIABLES
    unsaved,    \* pieces the composer owes the user: entered, neither saved
                \* nor taken back
    done        \* pieces of acknowledged saves, not edited since

vars == <<parent, mounted, ed, stored, timer, discarded, saves, jobs, rec, mic,
          unsaved, done, inputs>>

Request == 1..MaxRequests
Piece == Word \cup Image \cup Voice

-----------------------------------------------------------------------------
(* The store and the drafts.                                               *)

Empty == [content |-> {}, attachments |-> {}]
NoDraft == [none |-> TRUE]
Draft == [content : SUBSET Piece, attachments : SUBSET Image]

createInitialState ==
    [content |-> {}, attachments |-> {}, localFiles |-> {}, saving |-> FALSE,
     uploading |-> FALSE, pending |-> 0, recorderBusy |-> FALSE]

DraftOf(e) == [content |-> e.content, attachments |-> e.attachments]

Held(d) == d.content \cup d.attachments

\* Mutant: the draft of the last save is remembered for ever.
persistKeepsDiscarded(d) == timer' = d /\ UNCHANGED discarded

\* Every change of the draft restarts the timer.
persist(d) ==
    /\ timer' = d
    /\ discarded' = IF discarded = d THEN discarded ELSE NoDraft

\* dispatch: the store changes and the subscribed autosave sees it.
Dispatch(e) ==
    /\ ed' = e
    /\ IF DraftOf(e) = DraftOf(ed) THEN UNCHANGED <<timer, discarded>>
                                   ELSE persist(DraftOf(e))

\* The timer of cacheService.save: it outlives the editor.
WriteLater ==
    /\ timer # NoDraft
    /\ stored' = timer
    /\ timer' = NoDraft
    /\ UNCHANGED <<parent, mounted, ed, discarded, saves, jobs, rec, mic, unsaved, done>>

\* saveNow, unless the draft is the one just saved.
flushDraft ==
    IF discarded = DraftOf(ed) THEN UNCHANGED <<stored, timer>>
                               ELSE stored' = DraftOf(ed) /\ timer' = NoDraft

\* clear
ClearDraft == stored' = Empty /\ timer' = NoDraft

\* document hidden
Hide ==
    /\ mounted
    /\ flushDraft
    /\ UNCHANGED <<parent, mounted, ed, discarded, saves, jobs, rec, mic, unsaved, done>>

-----------------------------------------------------------------------------
(* Editing.  A piece that is entered while a save is in flight may be      *)
(* wiped by its reset, or by its clear when an earlier editor began it;    *)
(* the composer owes it only from the next time it is entered.             *)

Owe(pieces) == unsaved' = IF saves = {} THEN unsaved \cup pieces ELSE unsaved \ pieces

\* An edit takes what is on the page back into the draft.
Edited ==
    done' = IF DraftOf(ed') = DraftOf(ed) THEN done ELSE done \ Held(DraftOf(ed'))

Type(w) ==
    /\ mounted /\ w \notin ed.content
    /\ Dispatch([ed EXCEPT !.content = @ \cup {w}])
    /\ Owe({w}) /\ Edited
    /\ UNCHANGED <<parent, mounted, stored, saves, jobs, rec, mic>>

Erase(p) ==
    /\ mounted /\ p \in ed.content
    /\ Dispatch([ed EXCEPT !.content = @ \ {p}])
    /\ unsaved' = unsaved \ ({p} \ (ed.attachments \cup ed.localFiles)) /\ Edited
    /\ UNCHANGED <<parent, mounted, stored, saves, jobs, rec, mic>>

\* A file picked, dropped or pasted as an attachment.
AddFile(i) ==
    /\ mounted /\ ~ed.saving
    /\ i \notin ed.attachments \cup ed.localFiles
    /\ \A j \in jobs : i \notin j.files
    /\ Dispatch([ed EXCEPT !.localFiles = @ \cup {i}])
    /\ Owe({i})
    /\ UNCHANGED <<parent, mounted, stored, saves, jobs, rec, mic, done>>

\* The list of attachments: a file is removed.
RemoveFile(p) ==
    /\ mounted /\ p \in ed.attachments \cup ed.localFiles
    /\ Dispatch([ed EXCEPT !.attachments = @ \ {p}, !.localFiles = @ \ {p}])
    /\ unsaved' = unsaved \ ({p} \ ed.content) /\ Edited
    /\ UNCHANGED <<parent, mounted, stored, saves, jobs, rec, mic>>

-----------------------------------------------------------------------------
(* Inline images: a job uploads its files one after the other.             *)

Published(e, js) ==
    [e EXCEPT !.pending = Cardinality(js), !.uploading = \E j \in js : j.active]

\* Mutant: files are taken while a save is in flight.
insertLocalImagesAlways(files) ==
    /\ mounted
    /\ files \cap ed.attachments = {} /\ \A j \in jobs : files \cap j.files = {}
    /\ jobs' = jobs \cup {[files |-> files, done |-> {}, tried |-> {}, active |-> TRUE]}
    /\ Dispatch(Published(ed, jobs'))
    /\ UNCHANGED <<parent, mounted, stored, saves, rec, mic, unsaved, done>>

insertLocalImages(files) ==
    /\ mounted /\ ~ed.saving
    /\ files \cap ed.attachments = {} /\ \A j \in jobs : files \cap j.files = {}
    /\ jobs' = jobs \cup {[files |-> files, done |-> {}, tried |-> {}, active |-> TRUE]}
    /\ Dispatch(Published(ed, jobs'))
    /\ UNCHANGED <<parent, mounted, stored, saves, rec, mic, unsaved, done>>

\* The next file of the loop is uploaded and appended, or has failed.  The
\* last one ends the loop: the references are written, or the job stays.
UploadNext(j, i, ok) ==
    /\ j.active /\ i \in j.files \ (j.done \cup j.tried)
    /\ LET uploaded == IF ok THEN j.done \cup {i} ELSE j.done
           tried == IF ok THEN j.tried ELSE j.tried \cup {i}
           last == uploaded \cup tried = j.files
           after == [j EXCEPT !.done = uploaded, !.tried = tried, !.active = ~last]
           e == IF ok THEN [ed EXCEPT !.attachments = @ \cup {i}, !.localFiles = @ \ {i}]
                      ELSE ed
       IN /\ jobs' = (jobs \ {j}) \cup (IF uploaded = j.files THEN {} ELSE {after})
          /\ Dispatch([Published(e, jobs') EXCEPT
                         !.content = @ \cup (IF uploaded = j.files THEN uploaded ELSE {})])
          /\ IF ok THEN Owe({i}) ELSE UNCHANGED unsaved
    /\ Edited
    /\ UNCHANGED <<parent, mounted, stored, saves, rec, mic>>

\* Retry: what has failed is tried again, what has landed is kept.
RetryJob(j) ==
    /\ ~j.active
    /\ jobs' = (jobs \ {j}) \cup {[j EXCEPT !.tried = {}, !.active = TRUE]}
    /\ Dispatch(Published(ed, jobs'))
    /\ UNCHANGED <<parent, mounted, stored, saves, rec, mic, unsaved, done>>

\* Mutant: the store is not told.
dismissJobSilently(j) ==
    /\ ~j.active
    /\ jobs' = jobs \ {j}
    /\ UNCHANGED <<parent, mounted, ed, stored, timer, discarded, saves, rec, mic,
                   unsaved, done>>

\* Keep as attachments, or cancel.
dismissJob(j) ==
    /\ ~j.active
    /\ jobs' = jobs \ {j}
    /\ Dispatch(Published(ed, jobs'))
    /\ UNCHANGED <<parent, mounted, stored, saves, rec, mic, unsaved, done>>

-----------------------------------------------------------------------------
(* Saving.                                                                 *)

canSave ==
    /\ ed.content \cup ed.attachments \cup ed.localFiles # {}
    /\ ~ed.uploading /\ ed.pending = 0
    /\ ~ed.recorderBusy
    /\ ~ed.saving

FreeSlot == Min(1..MaxSaves \ {s.id : s \in saves})

\* handleSave: what is sent is the state it has read.
BeginSave ==
    /\ mounted /\ canSave
    /\ Cardinality(saves) < MaxSaves
    /\ Dispatch([ed EXCEPT !.saving = TRUE])
    /\ saves' = saves \cup {[id |-> FreeSlot, phase |-> "posting", own |-> TRUE,
                             draft |-> DraftOf(ed), files |-> ed.localFiles]}
    /\ UNCHANGED <<parent, mounted, stored, jobs, rec, mic, unsaved, done>>

Sent(s) == Held(s.draft) \cup s.files

\* Acknowledged, except what an editor opened since then holds again.
Acknowledge(s) ==
    /\ unsaved' = unsaved \ Sent(s)
    /\ done' = done \cup (Held(s.draft) \ (IF s.own THEN {} ELSE Held(DraftOf(ed))))

\* Mutant: the cache is cleared and the draft not remembered.
discardOnlyClears(s) == ClearDraft /\ UNCHANGED discarded

\* discardDraft; a closed editor's hook reaches only the cache.
discardDraft(s) ==
    /\ ClearDraft
    /\ discarded' = IF s.own THEN DraftOf(ed) ELSE discarded

\* The memo is created; its editor waits until the lists are fetched again.
MemoSaved(s) ==
    /\ s.phase = "posting" /\ ~parent
    /\ discardDraft(s)
    /\ Acknowledge(s)
    /\ saves' = (saves \ {s}) \cup {[s EXCEPT !.phase = "refreshing"]}
    /\ UNCHANGED <<parent, mounted, ed, jobs, rec, mic>>

\* Then it is reset.
MemoSaveEnds(s) ==
    /\ s.phase = "refreshing"
    /\ saves' = saves \ {s}
    /\ IF s.own THEN Dispatch(createInitialState) ELSE UNCHANGED <<ed, timer, discarded>>
    /\ UNCHANGED <<parent, mounted, stored, jobs, rec, mic, unsaved, done>>

\* The comment is created and its editor reset in the same turn, so that
\* what discardDraft has remembered is compared with the empty draft.
CommentSaved(s) ==
    /\ s.phase = "posting" /\ parent
    /\ stored' = Empty
    /\ IF s.own
       THEN /\ ed' = createInitialState
            /\ timer' = IF DraftOf(ed) = Empty THEN NoDraft ELSE Empty
            /\ discarded' = IF DraftOf(ed) = Empty THEN Empty ELSE NoDraft
       ELSE timer' = NoDraft /\ UNCHANGED <<ed, discarded>>
    /\ Acknowledge(s)
    /\ saves' = saves \ {s}
    /\ UNCHANGED <<parent, mounted, jobs, rec, mic>>

\* Mutant: the flag is only lowered on success.
SaveFailsSaving(s) ==
    /\ s.phase = "posting"
    /\ saves' = saves \ {s}
    /\ UNCHANGED <<parent, mounted, ed, stored, timer, discarded, jobs, rec, mic,
                   unsaved, done>>

\* An upload or the request has failed, or its answer was lost.
SaveFails(s) ==
    /\ s.phase = "posting"
    /\ saves' = saves \ {s}
    /\ IF s.own THEN Dispatch([ed EXCEPT !.saving = FALSE])
                ELSE UNCHANGED <<ed, timer, discarded>>
    /\ UNCHANGED <<parent, mounted, stored, jobs, rec, mic, unsaved, done>>

-----------------------------------------------------------------------------
(* The recorder.  current is the request startRequestIdRef names, 0 when   *)
(* it has been moved on or no answer and no event of it is to come.        *)

NewRecorder ==
    [status |-> "idle", current |-> 0, ref |-> 0, recorder |-> "none",
     mode |-> "attach", isTranscribing |-> FALSE, texts |-> {}]

isBusy(r) == r.status \in {"requesting_permission", "recording"}

\* The busy state is mirrored into the store for canSave.
Mirror(r) == rec' = r /\ Dispatch([ed EXCEPT !.recorderBusy = isBusy(r)])

\* resetRecorderRefs closes the microphone the hook holds.
Released(r) == [r EXCEPT !.ref = 0, !.recorder = "none"]
Closed == mic.live \ {rec.ref}

\* The menu is disabled while the editor saves or uploads.
startRecording ==
    /\ mounted /\ ~isBusy(rec) /\ ~ed.saving /\ ~ed.uploading
    /\ Cardinality(mic.waiting) < MaxRequests
    /\ LET r == Min(Request \ mic.waiting)
       IN /\ Mirror([rec EXCEPT !.status = "requesting_permission", !.current = r])
          /\ mic' = [mic EXCEPT !.waiting = @ \cup {r}]
    /\ UNCHANGED <<parent, mounted, stored, saves, jobs, unsaved, done>>

\* Mutant: a grant is used whatever has happened since it was asked for.
GrantedAlways(r) ==
    /\ r \in mic.waiting
    /\ IF mounted
       THEN /\ Mirror([rec EXCEPT !.status = "recording", !.ref = r, !.recorder = "recording"])
            /\ mic' = [mic EXCEPT !.waiting = @ \ {r}, !.live = @ \cup {r}]
       ELSE /\ mic' = [mic EXCEPT !.waiting = @ \ {r}]
            /\ UNCHANGED <<ed, timer, discarded, rec>>
    /\ UNCHANGED <<parent, mounted, stored, saves, jobs, unsaved, done>>

\* getUserMedia has opened the microphone.  A request that was cancelled is
\* closed again; one whose editor has gone still counts as the current one.
Granted(r) ==
    /\ r \in mic.waiting
    /\ IF r = rec.current
       THEN /\ Mirror([rec EXCEPT !.status = "recording", !.ref = r, !.recorder = "recording"])
            /\ mic' = [mic EXCEPT !.waiting = @ \ {r}, !.live = @ \cup {r}]
       ELSE /\ mic' = [mic EXCEPT !.waiting = @ \ {r}, !.stray = @ \ {r},
                                  !.left = @ \/ r \in mic.stray]
            /\ UNCHANGED <<ed, timer, discarded, rec>>
    /\ UNCHANGED <<parent, mounted, stored, saves, jobs, unsaved, done>>

\* Permission is denied, or the stream opens and no MediaRecorder can be
\* built from it: then the hook does not hold the stream yet and leaves it.
NotGranted(r, opened) ==
    /\ r \in mic.waiting
    /\ IF r = rec.current
       THEN Mirror([Released(rec) EXCEPT !.status = "error", !.current = 0])
       ELSE UNCHANGED <<ed, timer, discarded, rec>>
    /\ mic' = [mic EXCEPT !.waiting = @ \ {r}, !.stray = @ \ {r},
         !.left = @ \/ (opened /\ r \in mic.stray \cup {rec.current})]
    /\ UNCHANGED <<parent, mounted, stored, saves, jobs, unsaved, done>>

\* The panel: stop, or transcribe.
stopRecording(mode) ==
    /\ rec.recorder = "recording"
    /\ mode = "transcribe" => ~rec.isTranscribing
    /\ rec' = [rec EXCEPT !.mode = mode, !.recorder = "inactive",
                          !.isTranscribing = @ \/ mode = "transcribe"]
    /\ UNCHANGED <<parent, mounted, ed, stored, timer, discarded, saves, jobs, mic,
                   unsaved, done>>

\* Cancel, of a recording or of the wait for a transcription, whose answer
\* is not cancelled.
handleCancelAudioRecording ==
    /\ isBusy(rec) \/ rec.isTranscribing
    /\ Mirror([Released(rec) EXCEPT !.status = "idle", !.current = 0, !.mode = "attach",
                                    !.isTranscribing = FALSE])
    /\ mic' = [mic EXCEPT !.live = Closed]
    /\ UNCHANGED <<parent, mounted, stored, saves, jobs, unsaved, done>>

\* The listener of the stop event, with a recording or without data.  When
\* nobody transcribes any more the recording is attached.
Stopped(v, data, transcribe) ==
    LET idle == [Released(rec) EXCEPT !.status = "idle", !.current = 0, !.mode = "attach"]
        ended == [idle EXCEPT !.isTranscribing = @ /\ rec.mode # "transcribe"]
        voice == {v}
    IN /\ rec.recorder = "inactive"
       /\ data => v \notin ed.content \cup ed.localFiles \cup rec.texts
       /\ transcribe => data /\ rec.mode = "transcribe"
       /\ rec' = IF transcribe THEN [idle EXCEPT !.texts = @ \cup voice] ELSE ended
       /\ Dispatch([ed EXCEPT !.recorderBusy = FALSE,
                              !.localFiles = @ \cup (IF data /\ ~transcribe THEN voice ELSE {})])
       /\ IF data THEN Owe(voice) ELSE UNCHANGED unsaved
       /\ mic' = [mic EXCEPT !.live = Closed]
       /\ UNCHANGED <<parent, mounted, stored, saves, jobs, done>>

\* The text arrives, or the recording is attached instead.
Transcribed(v, ok) ==
    /\ v \in rec.texts
    /\ rec' = [rec EXCEPT !.texts = @ \ {v}, !.isTranscribing = FALSE]
    /\ Dispatch(IF ok THEN [ed EXCEPT !.content = @ \cup {v}]
                      ELSE [ed EXCEPT !.localFiles = @ \cup {v}])
    /\ Owe({v}) /\ Edited
    /\ UNCHANGED <<parent, mounted, stored, saves, jobs, mic>>

-----------------------------------------------------------------------------
(* The editor comes and goes.  Only uploaded attachments are part of a     *)
(* draft: files and transcriptions that wait go with the editor.           *)

\* useMemoInit loads the draft and autosave schedules it again.
Mount ==
    /\ ~mounted
    /\ mounted' = TRUE
    /\ ed' = [createInitialState EXCEPT !.content = stored.content,
                                        !.attachments = stored.attachments]
    /\ timer' = stored
    /\ UNCHANGED <<parent, stored, discarded, saves, jobs, rec, mic, unsaved, done>>

Gone ==
    /\ mounted' = FALSE
    /\ ed' = createInitialState
    /\ discarded' = NoDraft
    /\ jobs' = {}
    /\ rec' = NewRecorder
    /\ UNCHANGED parent

LocalOnly == (ed.localFiles \cup rec.texts) \ Held(DraftOf(ed))

\* Another route: the draft is flushed and the microphone closed, but a
\* request for it and the saves go on.
Unmount ==
    /\ mounted
    /\ flushDraft
    /\ Gone
    /\ saves' = {[s EXCEPT !.own = FALSE] : s \in saves}
    /\ mic' = [mic EXCEPT !.live = Closed, !.stray = @ \cup ({rec.current} \cap mic.waiting)]
    /\ unsaved' = unsaved \ LocalOnly
    /\ UNCHANGED done

NoMic == [waiting |-> {}, live |-> {}, stray |-> {}, left |-> FALSE]

PageGone ==
    /\ saves' = {}
    /\ mic' = NoMic

\* Reload or close: pagehide flushes, and the page's memory goes.
PageHide ==
    /\ mounted
    /\ stored' = IF discarded = DraftOf(ed) THEN stored ELSE DraftOf(ed)
    /\ timer' = NoDraft
    /\ Gone /\ PageGone
    /\ unsaved' = unsaved \ LocalOnly
    /\ UNCHANGED done

\* The tab is killed: only what was written is left.
Kill ==
    /\ timer' = NoDraft
    /\ Gone /\ PageGone
    /\ unsaved' = unsaved \cap Held(stored)
    /\ done' = done \ Held(stored)
    /\ UNCHANGED stored

-----------------------------------------------------------------------------
(* The composer.                                                           *)

Init ==
    /\ parent \in BOOLEAN
    /\ mounted = FALSE
    /\ ed = createInitialState
    /\ stored = Empty /\ timer = NoDraft /\ discarded = NoDraft
    /\ saves = {} /\ jobs = {}
    /\ rec = NewRecorder
    /\ mic = NoMic
    /\ unsaved = {} /\ done = {}
    /\ inputs = 0

Edit ==
    \/ \E w \in Word : Type(w)
    \/ \E p \in Piece : Erase(p) \/ RemoveFile(p)
    \/ \E i \in Image : AddFile(i)
    \/ \E files \in SUBSET Image \ {{}} : insertLocalImages(files)
    \/ \E j \in jobs : RetryJob(j) \/ dismissJob(j)

Record ==
    \/ startRecording
    \/ \E mode \in {"attach", "transcribe"} : stopRecording(mode)
    \/ handleCancelAudioRecording

User ==
    /\ inputs < MaxInputs
    /\ inputs' = inputs + 1
    /\ Edit \/ BeginSave \/ Record \/ Mount \/ Unmount \/ PageHide \/ Kill \/ Hide

Settled(s) == MemoSaved(s) \/ CommentSaved(s) \/ SaveFails(s) \/ MemoSaveEnds(s)

RecordingStopped ==
    \E v \in Voice, data, transcribe \in BOOLEAN : Stopped(v, data, transcribe)

TranscriptionEnds == \E v \in Voice, ok \in BOOLEAN : Transcribed(v, ok)

Browser ==
    /\ \/ WriteLater
       \/ \E j \in jobs, i \in Image, ok \in BOOLEAN : UploadNext(j, i, ok)
       \/ \E s \in saves : Settled(s)
       \/ \E r \in Request : Granted(r) \/ \E opened \in BOOLEAN : NotGranted(r, opened)
       \/ RecordingStopped
       \/ TranscriptionEnds
    /\ UNCHANGED inputs

Next == User \/ Browser

\* Requests to the server and refetches settle, and the browser delivers
\* the stop event.
Fairness ==
    /\ WF_vars((\E s \in saves : s.own /\ Settled(s)) /\ UNCHANGED inputs)
    /\ WF_vars(RecordingStopped /\ UNCHANGED inputs)
    /\ WF_vars(TranscriptionEnds /\ UNCHANGED inputs)

Spec == Init /\ [][Next]_vars /\ Fairness

-----------------------------------------------------------------------------
(* Properties.                                                             *)

\* The store, the cache and the recorder have their shapes; what canSave
\* reads of the jobs and of the recorder is what they are, and no timer is
\* left when the editor has gone.
ComposerTypeOK ==
    /\ ed.content \subseteq Piece /\ ed.attachments \subseteq Image
    /\ ed.localFiles \subseteq Image \cup Voice
    /\ stored \in Draft /\ timer \in Draft \cup {NoDraft}
    /\ discarded \in Draft \cup {NoDraft}
    /\ unsaved \subseteq Piece /\ done \subseteq Piece
    /\ ed = Published([ed EXCEPT !.recorderBusy = isBusy(rec)], jobs)
    /\ ~mounted => timer = NoDraft

\* Nothing the user has entered is lost before a save of it is acknowledged:
\* it is in the editor, or in the draft when there is none.  Not owed is
\* what was entered or transcribed while a save was in flight, what was not
\* uploaded when the editor closed, and what a killed tab had not written.
NothingIsLost ==
    unsaved \subseteq IF mounted THEN Held(DraftOf(ed)) \cup ed.localFiles \cup rec.texts
                                 ELSE Held(stored)

\* What was saved does not come back as a draft, whichever of the flushes
\* and timers runs after the save, unless the user went on editing it.
SavedDraftStaysGone == ~mounted => done \cap Held(stored) = {}

\* An editor saves nothing while an image of its text is being uploaded or
\* has failed, nor while it records: the reset at the end of a save has no
\* job and no recording to lose.
SavesAreWhole == (\E s \in saves : s.own) => jobs = {} /\ ~isBusy(rec)

\* A microphone is only open while the editor shows that it records, through
\* cancellations and late permissions; except the ones mic.left stands for,
\* granted after the editor had gone or for which no recorder could be built.
MicrophoneIsShown ==
    mic.live \subseteq IF rec.status = "recording" THEN {rec.ref} ELSE {}

\* The editor does not stay frozen: a save and a transcription end.
EditorUnfreezes ==
    /\ ed.saving ~> ~ed.saving
    /\ rec.isTranscribing ~> ~rec.isTranscribing
=============================================================================
