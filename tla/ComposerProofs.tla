--------------------------- MODULE ComposerProofs ---------------------------
(***************************************************************************)
(* Proofs about Composer, for any words, images and recordings and any      *)
(* bounds: what the user enters is not lost, a saved draft stays gone, a    *)
(* save never leaves an upload or a recording behind, and an open           *)
(* microphone is shown.                                                    *)
(***************************************************************************)
EXTENDS Composer, FiniteSetTheorems, TLAPS

-----------------------------------------------------------------------------
(* Types.                                                                  *)

EditorState ==
    [content : SUBSET Piece, attachments : SUBSET Image,
     localFiles : SUBSET (Image \cup Voice), saving : BOOLEAN,
     uploading : BOOLEAN, pending : Nat, recorderBusy : BOOLEAN]

Job == [files : SUBSET Image, done : SUBSET Image, tried : SUBSET Image, active : BOOLEAN]

\* The id of a save and the number of a request only tell them apart.
IsSave(s) ==
    /\ DOMAIN s = {"id", "phase", "own", "draft", "files"}
    /\ s.phase \in {"posting", "refreshing"} /\ s.own \in BOOLEAN
    /\ s.draft \in Draft /\ s.files \subseteq Image \cup Voice

IsRecorder(r) ==
    /\ DOMAIN r = {"status", "current", "ref", "recorder", "mode", "isTranscribing", "texts"}
    /\ r.status \in {"idle", "requesting_permission", "recording", "error"}
    /\ r.isTranscribing \in BOOLEAN
    /\ r.texts \subseteq Voice

Typed ==
    /\ mounted \in BOOLEAN
    /\ ed \in EditorState
    /\ stored \in Draft
    /\ timer \in Draft \cup {NoDraft} /\ discarded \in Draft \cup {NoDraft}
    /\ IsFiniteSet(jobs) /\ jobs \subseteq Job
    /\ \A s \in saves : IsSave(s)
    /\ IsRecorder(rec)
    /\ DOMAIN mic = {"waiting", "live", "stray", "left"}
    /\ unsaved \subseteq Piece /\ done \subseteq Piece

\* The store says of the jobs and of the recorder what they are.
Mirrored ==
    /\ ed.pending = Cardinality(jobs)
    /\ ed.uploading <=> \E j \in jobs : j.active
    /\ ed.recorderBusy <=> isBusy(rec)

\* Nothing of an editor outlives it but its saves and its requests.
ClosedIsClean ==
    ~mounted => /\ ed = createInitialState /\ jobs = {} /\ rec = NewRecorder
                /\ timer = NoDraft /\ discarded = NoDraft
                /\ \A s \in saves : ~s.own

\* The editor has one save at a time, and is frozen for it.
OwnSaveFreezes ==
    /\ \A s \in saves : s.own => ed.saving /\ jobs = {} /\ ~isBusy(rec)
    /\ \A s1, s2 \in saves : s1.own /\ s2.own => s1 = s2

\* A microphone is open only while the recorder runs.
MicInv ==
    /\ MicrophoneIsShown
    /\ rec.current \in Request \cap mic.waiting => rec.status = "requesting_permission"
    /\ rec.recorder # "none" => rec.status = "recording"

\* The draft of the last save is remembered until the next change.
DiscardInv ==
    discarded # NoDraft =>
        /\ discarded = DraftOf(ed) /\ timer = NoDraft /\ stored = Empty
        /\ discarded = Empty \/ \E s \in saves : s.own /\ s.phase = "refreshing"
        /\ unsaved \subseteq LocalOnly

\* What is owed: it is in the editor or in the draft, a save that is posted
\* carries it, and once it is acknowledged only transcriptions are owed.
OwedInv ==
    /\ NothingIsLost
    /\ rec.texts \cap Held(DraftOf(ed)) = {}
    /\ \A s \in saves :
         unsaved \subseteq (IF s.phase = "posting" THEN Sent(s) ELSE {}) \cup rec.texts

\* What is saved is not in a draft that can still be written at the end.
DoneInv ==
    /\ SavedDraftStaysGone
    /\ mounted /\ discarded = NoDraft => done \cap Held(DraftOf(ed)) = {}

-----------------------------------------------------------------------------
(* The draft and its marks.                                                *)

\* A draft, the empty one too, is not the mark of a missing draft.
LEMMA DraftIsNoMark ==
  /\ \A d \in Draft : d # NoDraft
  /\ Empty \in Draft /\ Held(Empty) = {}
<1>1. ASSUME NEW d \in Draft, d = NoDraft PROVE FALSE
  <2>1. DOMAIN d = {"content", "attachments"}
    BY DEF Draft
  <2>2. DOMAIN d = {"none"}
    BY <1>1 DEF NoDraft
  <2> QED
    BY <2>1, <2>2
<1>2. Empty \in Draft /\ Held(Empty) = {}
  BY DEF Empty, Draft, Held
<1> QED
  BY <1>1, <1>2

\* The draft of an editor.
LEMMA DraftOfEditor ==
  ASSUME NEW e \in EditorState
  PROVE  /\ DraftOf(e) \in Draft
         /\ DraftOf(e).content = e.content /\ DraftOf(e).attachments = e.attachments
         /\ Held(DraftOf(e)) = e.content \cup e.attachments
         /\ DraftOf(e) # NoDraft
BY DraftIsNoMark DEF DraftOf, Draft, EditorState, Held

\* Two drafts are the same when their parts are.
LEMMA SameDraft ==
  ASSUME NEW e \in EditorState, NEW f \in EditorState
  PROVE  DraftOf(e) = DraftOf(f) <=> e.content = f.content /\ e.attachments = f.attachments
<1>1. ASSUME e.content = f.content, e.attachments = f.attachments PROVE DraftOf(e) = DraftOf(f)
  BY <1>1 DEF DraftOf
<1> QED
  BY <1>1, DraftOfEditor

\* A new editor is empty, unlocked and idle.
LEMMA InitialEditor ==
  /\ createInitialState \in EditorState
  /\ createInitialState.content = {} /\ createInitialState.attachments = {}
  /\ createInitialState.localFiles = {} /\ createInitialState.pending = 0
  /\ createInitialState.saving = FALSE /\ createInitialState.uploading = FALSE
  /\ createInitialState.recorderBusy = FALSE
  /\ DraftOf(createInitialState) = Empty
BY DEF createInitialState, EditorState, DraftOf, Empty

\* A new recorder is idle and holds nothing.
LEMMA InitialRecorder ==
  /\ IsRecorder(NewRecorder)
  /\ NewRecorder.status = "idle" /\ NewRecorder.current = 0
  /\ NewRecorder.recorder = "none" /\ NewRecorder.texts = {}
  /\ ~isBusy(NewRecorder)
BY DEF NewRecorder, IsRecorder, isBusy

-----------------------------------------------------------------------------
(* What ComposerInv says, in the form the run checks it.                   *)

\* The editor state already shows what recorder and jobs would publish.
LEMMA MirrorIsPublished ==
  ASSUME Typed, Mirrored
  PROVE  ed = Published([ed EXCEPT !.recorderBusy = isBusy(rec)], jobs)
<1> DEFINE e1 == [ed EXCEPT !.recorderBusy = isBusy(rec)]
<1> DEFINE e2 == [e1 EXCEPT !.pending = Cardinality(jobs)]
<1> DEFINE e3 == [e2 EXCEPT !.uploading = \E j \in jobs : j.active]
<1>1. ed \in EditorState /\ ed.recorderBusy \in BOOLEAN /\ ed.uploading \in BOOLEAN
  BY DEF Typed, EditorState
<1>2. e1 = ed
  <2>1. isBusy(rec) = ed.recorderBusy
    BY <1>1 DEF Mirrored, isBusy
  <2> QED
    BY <1>1, <2>1 DEF EditorState
<1>3. e2 = ed
  BY <1>1, <1>2 DEF Mirrored, EditorState
<1>4. e3 = ed
  <2>1. (\E j \in jobs : j.active) = ed.uploading
    BY <1>1 DEF Mirrored
  <2> QED
    BY <1>1, <1>3, <2>1 DEF EditorState
<1> QED
  BY <1>4 DEF Published

-----------------------------------------------------------------------------
(* The cache.  A dispatch either leaves the draft alone or restarts the     *)
(* timer with the new one and forgets the draft of the last save.           *)

DraftStays == ed'.content = ed.content /\ ed'.attachments = ed.attachments

Redrafted ==
    \/ DraftStays /\ UNCHANGED <<timer, discarded>>
    \/ ~DraftStays /\ timer' = DraftOf(ed') /\ discarded' = NoDraft

\* A dispatch sets the editor state and schedules its draft.
LEMMA DispatchEffect ==
  ASSUME Typed, DiscardInv, NEW e \in EditorState, Dispatch(e)
  PROVE  /\ ed' = e /\ Redrafted
         /\ timer' \in Draft \cup {NoDraft} /\ discarded' \in Draft \cup {NoDraft}
<1>1. ed \in EditorState /\ ed' = e
  BY DEF Typed, Dispatch
<1>2. CASE DraftOf(e) = DraftOf(ed)
  BY <1>1, <1>2, SameDraft DEF Dispatch, DraftStays, Redrafted, Typed
<1>3. CASE DraftOf(e) # DraftOf(ed)
  <2>1. timer' = DraftOf(e) /\ discarded' = IF discarded = DraftOf(e) THEN discarded ELSE NoDraft
    BY <1>3 DEF Dispatch, persist
  <2>2. discarded # DraftOf(e)
    BY <1>3, DraftOfEditor DEF DiscardInv
  <2>3. ~DraftStays
    BY <1>1, <1>3, SameDraft DEF DraftStays
  <2> QED
    BY <1>1, <2>1, <2>2, <2>3, DraftOfEditor DEF Redrafted
<1> QED
  BY <1>2, <1>3

\* Where what is owed has to be found.
InEditor == ed.content \cup ed.attachments \cup ed.localFiles \cup rec.texts

\* What is in the editor, and what of it no draft would hold.
LEMMA InEditorMeans ==
  ASSUME ed \in EditorState
  PROVE  /\ Held(DraftOf(ed)) \cup ed.localFiles \cup rec.texts = InEditor
         /\ LocalOnly = (ed.localFiles \cup rec.texts) \ (ed.content \cup ed.attachments)
BY DraftOfEditor DEF InEditor, LocalOnly

DraftsInv == DiscardInv /\ OwedInv /\ DoneInv

\* Steps that leave the draft, the files and what is owed alone.
LEMMA QuietKeeps ==
  ASSUME Typed, DraftsInv, ed' \in EditorState, DraftStays, ed'.localFiles = ed.localFiles,
         rec'.texts = rec.texts,
         UNCHANGED <<mounted, stored, timer, discarded, unsaved, done>>,
         (\E s \in saves : s.own /\ s.phase = "refreshing") =>
            discarded = Empty \/ \E s \in saves' : s.own /\ s.phase = "refreshing",
         \A s \in saves' :
            unsaved \subseteq (IF s.phase = "posting" THEN Sent(s) ELSE {}) \cup rec.texts
  PROVE  DraftsInv'
<1>1. ed \in EditorState
  BY DEF Typed
<1>2. DraftOf(ed') = DraftOf(ed) /\ LocalOnly' = LocalOnly
  BY <1>1, SameDraft DEF DraftStays, LocalOnly
<1>3. DiscardInv'
  BY <1>2 DEF DraftsInv, DiscardInv
<1>4. OwedInv'
  BY <1>2 DEF DraftsInv, OwedInv, NothingIsLost, Sent
<1>5. DoneInv'
  BY <1>2 DEF DraftsInv, DoneInv, SavedDraftStaysGone
<1> QED
  BY <1>3, <1>4, <1>5 DEF DraftsInv

\* Steps that edit.  While a save is in flight nothing more is owed; what is
\* owed stays in the editor, and only as a file or a transcription when the
\* draft is still the one just saved.
LEMMA EditKeeps ==
  ASSUME Typed, DraftsInv, mounted, ed' \in EditorState, Redrafted, Edited,
         UNCHANGED <<mounted, stored, saves>>,
         unsaved' \subseteq InEditor',
         saves # {} => unsaved' \subseteq unsaved /\ unsaved' \cap rec.texts \subseteq rec'.texts,
         rec'.texts \cap (ed'.content \cup ed'.attachments) = {},
         DraftStays /\ unsaved \subseteq LocalOnly
           /\ (saves = {} => ed.content \cup ed.attachments = {}) => unsaved' \subseteq LocalOnly'
  PROVE  DraftsInv'
<1>1. ed \in EditorState
  BY DEF Typed
<1>2. /\ Held(DraftOf(ed)) = ed.content \cup ed.attachments
      /\ Held(DraftOf(ed')) = ed'.content \cup ed'.attachments
  BY <1>1, DraftOfEditor
<1>3. DiscardInv'
  <2> SUFFICES ASSUME discarded' # NoDraft PROVE DiscardInv'
    BY DEF DiscardInv
  <2>1. DraftStays /\ UNCHANGED <<timer, discarded>>
    BY DEF Redrafted
  <2>2. DraftOf(ed') = DraftOf(ed)
    BY <1>1, <2>1, SameDraft DEF DraftStays
  <2>3. saves = {} => ed.content \cup ed.attachments = {}
    BY <1>2, <2>1, DraftIsNoMark DEF DraftsInv, DiscardInv
  <2>4. unsaved' \subseteq LocalOnly'
    BY <2>1, <2>3 DEF DraftsInv, DiscardInv
  <2> QED
    BY <2>1, <2>2, <2>4 DEF DraftsInv, DiscardInv
<1>4. OwedInv'
  <2>1. NothingIsLost'
    BY <1>2 DEF NothingIsLost, InEditor
  <2>2. (rec.texts \cap Held(DraftOf(ed)))' = {}
    BY <1>2
  <2>3. ASSUME NEW s \in saves
        PROVE  unsaved' \subseteq (IF s.phase = "posting" THEN Sent(s) ELSE {}) \cup rec'.texts
    BY DEF DraftsInv, OwedInv
  <2> QED
    BY <2>1, <2>2, <2>3 DEF OwedInv, Sent
<1>5. DoneInv'
  <2>1. SavedDraftStaysGone'
    BY DEF SavedDraftStaysGone
  <2>2. CASE DraftStays
    <3>1. DraftOf(ed') = DraftOf(ed) /\ UNCHANGED <<discarded, done>>
      BY <1>1, <2>2, SameDraft DEF DraftStays, Redrafted, Edited
    <3> QED
      BY <2>1, <3>1 DEF DraftsInv, DoneInv
  <2>3. CASE ~DraftStays
    <3>1. done' = done \ Held(DraftOf(ed'))
      BY <1>1, <2>3, SameDraft DEF DraftStays, Edited
    <3> QED
      BY <2>1, <3>1 DEF DoneInv
  <2> QED
    BY <2>2, <2>3
<1> QED
  BY <1>3, <1>4, <1>5 DEF DraftsInv

-----------------------------------------------------------------------------
(* Typing, erasing and files.                                              *)

ShapeInv == Typed /\ Mirrored /\ ClosedIsClean /\ OwnSaveFreezes /\ MicInv

\* An edit that concerns the store alone.
LEMMA StoreEditKeeps ==
  ASSUME ShapeInv, mounted, ed' \in EditorState,
         ed'.pending = ed.pending, ed'.uploading = ed.uploading,
         ed'.recorderBusy = ed.recorderBusy, ed'.saving = ed.saving,
         timer' \in Draft \cup {NoDraft}, discarded' \in Draft \cup {NoDraft},
         unsaved' \subseteq Piece, done' \subseteq Piece,
         UNCHANGED <<mounted, stored, saves, jobs, rec, mic>>
  PROVE  ShapeInv'
<1>1. Typed'
  BY DEF ShapeInv, Typed
<1>2. Mirrored' /\ ClosedIsClean' /\ OwnSaveFreezes'
  BY DEF ShapeInv, Mirrored, ClosedIsClean, OwnSaveFreezes
<1>3. MicInv'
  BY DEF ShapeInv, MicInv, MicrophoneIsShown
<1> QED
  BY <1>1, <1>2, <1>3 DEF ShapeInv

\* Words, images and recordings are different pieces.
LEMMA PiecesApart ==
  /\ Word \subseteq Piece /\ Image \subseteq Piece /\ Voice \subseteq Piece
  /\ Word \cap Voice = {} /\ Image \cap Voice = {} /\ Word \cap Image = {}
BY PiecesAreDistinct DEF Piece

\* What the invariant says about the parts an edit touches.
LEMMA EditFacts ==
  ASSUME ShapeInv, DraftsInv
  PROVE  /\ ed \in EditorState /\ ed.content \subseteq Piece /\ ed.attachments \subseteq Image
         /\ ed.localFiles \subseteq Image \cup Voice
         /\ rec.texts \subseteq Voice /\ unsaved \subseteq Piece /\ done \subseteq Piece
         /\ mounted => unsaved \subseteq InEditor
         /\ rec.texts \cap (ed.content \cup ed.attachments) = {}
         /\ LocalOnly = (ed.localFiles \cup rec.texts) \ (ed.content \cup ed.attachments)
         /\ Typed /\ DiscardInv
<1>1. Typed /\ DiscardInv /\ OwedInv /\ ed \in EditorState
  BY DEF ShapeInv, DraftsInv, Typed
<1>2. Held(DraftOf(ed)) = ed.content \cup ed.attachments
  BY <1>1, DraftOfEditor
<1> QED
  BY <1>1, <1>2, InEditorMeans DEF Typed, IsRecorder, OwedInv, NothingIsLost, EditorState

\* An edit marks pieces only.
LEMMA EditedKeepsDone ==
  ASSUME done \subseteq Piece, Edited
  PROVE  done' \subseteq Piece
BY DEF Edited

\* What no draft would hold, after a step.
LEMMA LocalOnlyNext ==
  ASSUME ed' \in EditorState
  PROVE  LocalOnly' = (ed'.localFiles \cup rec'.texts) \ (ed'.content \cup ed'.attachments)
BY DraftOfEditor DEF LocalOnly

EditorInv == ShapeInv /\ DraftsInv

\* Typing keeps the invariant.
LEMMA TypeKeeps ==
  ASSUME EditorInv, NEW w \in Word, Type(w)
  PROVE  EditorInv'
<1> DEFINE e == [ed EXCEPT !.content = @ \cup {w}]
<1> USE DEF EditorInv
<1>1. /\ mounted /\ w \notin ed.content /\ Dispatch(e) /\ Owe({w}) /\ Edited
      /\ UNCHANGED <<parent, mounted, stored, saves, jobs, rec, mic>>
  BY DEF Type
<1>2. /\ e \in EditorState /\ e.content = ed.content \cup {w} /\ e.attachments = ed.attachments
      /\ e.localFiles = ed.localFiles /\ e.pending = ed.pending /\ e.uploading = ed.uploading
      /\ e.recorderBusy = ed.recorderBusy /\ e.saving = ed.saving
  BY EditFacts, PiecesApart DEF EditorState
<1> HIDE DEF e
<1>3. /\ ed' = e /\ Redrafted
      /\ timer' \in Draft \cup {NoDraft} /\ discarded' \in Draft \cup {NoDraft}
  BY <1>1, <1>2, EditFacts, DispatchEffect
<1>4. unsaved' = IF saves = {} THEN unsaved \cup {w} ELSE unsaved \ {w}
  BY <1>1 DEF Owe
<1>5. ShapeInv'
  BY <1>1, <1>2, <1>3, <1>4, EditFacts, PiecesApart, EditedKeepsDone, StoreEditKeeps
<1>6. ~DraftStays
  BY <1>1, <1>2, <1>3 DEF DraftStays
<1>7. DraftsInv'
  <2>1. unsaved' \subseteq InEditor'
    BY <1>1, <1>2, <1>3, <1>4, EditFacts DEF InEditor
  <2>2. rec'.texts \cap (ed'.content \cup ed'.attachments) = {}
    BY <1>1, <1>2, <1>3, EditFacts, PiecesApart
  <2>3. saves # {} => unsaved' \subseteq unsaved /\ unsaved' \cap rec.texts \subseteq rec'.texts
    BY <1>1, <1>4
  <2> QED
    BY <1>1, <1>2, <1>3, <1>6, <2>1, <2>2, <2>3, EditFacts, EditKeeps
<1> QED
  BY <1>5, <1>7

\* Erasing keeps the invariant.
LEMMA EraseKeeps ==
  ASSUME EditorInv, NEW p \in Piece, Erase(p)
  PROVE  EditorInv'
<1> DEFINE e == [ed EXCEPT !.content = @ \ {p}]
<1> USE DEF EditorInv
<1>1. /\ mounted /\ p \in ed.content /\ Dispatch(e) /\ Edited
      /\ unsaved' = unsaved \ ({p} \ (ed.attachments \cup ed.localFiles))
      /\ UNCHANGED <<parent, mounted, stored, saves, jobs, rec, mic>>
  BY DEF Erase
<1>2. /\ e \in EditorState /\ e.content = ed.content \ {p} /\ e.attachments = ed.attachments
      /\ e.localFiles = ed.localFiles /\ e.pending = ed.pending /\ e.uploading = ed.uploading
      /\ e.recorderBusy = ed.recorderBusy /\ e.saving = ed.saving
  BY EditFacts DEF EditorState
<1> HIDE DEF e
<1>3. /\ ed' = e /\ Redrafted
      /\ timer' \in Draft \cup {NoDraft} /\ discarded' \in Draft \cup {NoDraft}
  BY <1>1, <1>2, EditFacts, DispatchEffect
<1>4. ShapeInv'
  BY <1>1, <1>2, <1>3, EditFacts, EditedKeepsDone, StoreEditKeeps
<1>5. ~DraftStays
  BY <1>1, <1>2, <1>3 DEF DraftStays
<1>6. DraftsInv'
  <2>1. unsaved' \subseteq InEditor'
    BY <1>1, <1>2, <1>3, EditFacts DEF InEditor
  <2>2. rec'.texts \cap (ed'.content \cup ed'.attachments) = {}
    BY <1>1, <1>2, <1>3, EditFacts
  <2>3. unsaved' \subseteq unsaved /\ unsaved' \cap rec.texts \subseteq rec'.texts
    BY <1>1
  <2> QED
    BY <1>1, <1>2, <1>3, <1>5, <2>1, <2>2, <2>3, EditFacts, EditKeeps
<1> QED
  BY <1>4, <1>6

\* A draft that does not change leaves what is done alone.
LEMMA QuietIsEdited ==
  ASSUME Typed, ed' \in EditorState, DraftStays, UNCHANGED done
  PROVE  Edited
BY SameDraft DEF Edited, DraftStays, Typed

\* Attaching a file keeps the invariant.
LEMMA AddFileKeeps ==
  ASSUME EditorInv, NEW i \in Image, AddFile(i)
  PROVE  EditorInv'
<1> DEFINE e == [ed EXCEPT !.localFiles = @ \cup {i}]
<1> USE DEF EditorInv
<1>1. /\ mounted /\ i \notin ed.attachments \cup ed.localFiles /\ Dispatch(e) /\ Owe({i})
      /\ UNCHANGED <<parent, mounted, stored, saves, jobs, rec, mic, done>>
  BY DEF AddFile
<1>2. /\ e \in EditorState /\ e.content = ed.content /\ e.attachments = ed.attachments
      /\ e.localFiles = ed.localFiles \cup {i} /\ e.pending = ed.pending
      /\ e.uploading = ed.uploading
      /\ e.recorderBusy = ed.recorderBusy /\ e.saving = ed.saving
  BY EditFacts, PiecesApart DEF EditorState
<1> HIDE DEF e
<1>3. /\ ed' = e /\ Redrafted
      /\ timer' \in Draft \cup {NoDraft} /\ discarded' \in Draft \cup {NoDraft}
  BY <1>1, <1>2, EditFacts, DispatchEffect
<1>4. unsaved' = IF saves = {} THEN unsaved \cup {i} ELSE unsaved \ {i}
  BY <1>1 DEF Owe
<1>5. ShapeInv'
  BY <1>1, <1>2, <1>3, <1>4, EditFacts, PiecesApart, StoreEditKeeps
<1>6. DraftStays /\ Edited
  BY <1>1, <1>2, <1>3, EditFacts, QuietIsEdited DEF DraftStays
<1>7. DraftsInv'
  <2>1. unsaved' \subseteq InEditor'
    BY <1>1, <1>2, <1>3, <1>4, EditFacts DEF InEditor
  <2>2. rec'.texts \cap (ed'.content \cup ed'.attachments) = {}
    BY <1>1, <1>2, <1>3, EditFacts
  <2>3. saves # {} => unsaved' \subseteq unsaved /\ unsaved' \cap rec.texts \subseteq rec'.texts
    BY <1>1, <1>4
  <2>4. unsaved \subseteq LocalOnly /\ (saves = {} => ed.content \cup ed.attachments = {})
          => unsaved' \subseteq LocalOnly'
    BY <1>1, <1>2, <1>3, <1>4, EditFacts, LocalOnlyNext
  <2> QED
    BY <1>1, <1>2, <1>3, <1>6, <2>1, <2>2, <2>3, <2>4, EditFacts, EditKeeps
<1> QED
  BY <1>5, <1>7

\* Removing a file keeps the invariant.
LEMMA RemoveFileKeeps ==
  ASSUME EditorInv, NEW p \in Piece, RemoveFile(p)
  PROVE  EditorInv'
<1> DEFINE e1 == [ed EXCEPT !.attachments = @ \ {p}]
<1> DEFINE e == [e1 EXCEPT !.localFiles = @ \ {p}]
<1> USE DEF EditorInv
<1>1. /\ mounted /\ p \in ed.attachments \cup ed.localFiles /\ Dispatch(e) /\ Edited
      /\ unsaved' = unsaved \ ({p} \ ed.content)
      /\ UNCHANGED <<parent, mounted, stored, saves, jobs, rec, mic>>
  BY DEF RemoveFile
<1>2. /\ e1 \in EditorState /\ e1.content = ed.content /\ e1.attachments = ed.attachments \ {p}
      /\ e1.localFiles = ed.localFiles /\ e1.pending = ed.pending
      /\ e1.uploading = ed.uploading
      /\ e1.recorderBusy = ed.recorderBusy /\ e1.saving = ed.saving
  BY EditFacts DEF EditorState
<1> HIDE DEF e1
<1>3. /\ e \in EditorState /\ e.content = ed.content /\ e.attachments = ed.attachments \ {p}
      /\ e.localFiles = ed.localFiles \ {p} /\ e.pending = ed.pending
      /\ e.uploading = ed.uploading
      /\ e.recorderBusy = ed.recorderBusy /\ e.saving = ed.saving
  BY <1>2 DEF EditorState
<1> HIDE DEF e
<1>4. /\ ed' = e /\ Redrafted
      /\ timer' \in Draft \cup {NoDraft} /\ discarded' \in Draft \cup {NoDraft}
  BY <1>1, <1>3, EditFacts, DispatchEffect
<1>5. ShapeInv'
  BY <1>1, <1>3, <1>4, EditFacts, EditedKeepsDone, StoreEditKeeps
<1>6. DraftsInv'
  <2>1. unsaved' \subseteq InEditor'
    BY <1>1, <1>3, <1>4, EditFacts DEF InEditor
  <2>2. rec'.texts \cap (ed'.content \cup ed'.attachments) = {}
    BY <1>1, <1>3, <1>4, EditFacts
  <2>3. unsaved' \subseteq unsaved /\ unsaved' \cap rec.texts \subseteq rec'.texts
    BY <1>1
  <2>4. DraftStays /\ unsaved \subseteq LocalOnly => unsaved' \subseteq LocalOnly'
    BY <1>1, <1>3, <1>4, EditFacts, LocalOnlyNext DEF DraftStays
  <2> QED
    BY <1>1, <1>3, <1>4, <2>1, <2>2, <2>3, <2>4, EditFacts, EditKeeps
<1> QED
  BY <1>5, <1>6

-----------------------------------------------------------------------------
(* Inline images.                                                          *)

\* Publishing the jobs touches the number pending and the uploading flag only.
LEMMA PublishedEffect ==
  ASSUME NEW e \in EditorState, NEW js, IsFiniteSet(js)
  PROVE  /\ Published(e, js) \in EditorState
         /\ Published(e, js).content = e.content
         /\ Published(e, js).attachments = e.attachments
         /\ Published(e, js).localFiles = e.localFiles
         /\ Published(e, js).saving = e.saving
         /\ Published(e, js).recorderBusy = e.recorderBusy
         /\ Published(e, js).pending = Cardinality(js)
         /\ Published(e, js).uploading <=> \E j \in js : j.active
<1> DEFINE u == \E j \in js : j.active
<1> DEFINE e1 == [e EXCEPT !.pending = Cardinality(js)]
<1> DEFINE e2 == [e1 EXCEPT !.uploading = u]
<1>1. Cardinality(js) \in Nat
  BY FS_CardinalityType
<1>2. /\ e1 \in EditorState /\ e1.content = e.content /\ e1.attachments = e.attachments
      /\ e1.localFiles = e.localFiles /\ e1.saving = e.saving
      /\ e1.recorderBusy = e.recorderBusy /\ e1.pending = Cardinality(js)
  BY <1>1 DEF EditorState
<1>3. u \in BOOLEAN
  OBVIOUS
<1>4. Published(e, js) = e2
  BY DEF Published
<1> HIDE DEF e1, u
<1>5. /\ e2 \in EditorState /\ e2.content = e.content /\ e2.attachments = e.attachments
      /\ e2.localFiles = e.localFiles /\ e2.saving = e.saving
      /\ e2.recorderBusy = e.recorderBusy /\ e2.pending = Cardinality(js)
      /\ e2.uploading = u
  BY <1>2, <1>3 DEF EditorState
<1> QED
  BY <1>4, <1>5 DEF u

\* The jobs may change while the editor does not save.
LEMMA JobsKeep ==
  ASSUME ShapeInv, mounted, ~ed.saving \/ jobs # {},
         IsFiniteSet(jobs'), jobs' \subseteq Job, ed' \in EditorState,
         ed'.pending = Cardinality(jobs'), ed'.uploading <=> \E j \in jobs' : j.active,
         ed'.recorderBusy = ed.recorderBusy, ed'.saving = ed.saving,
         timer' \in Draft \cup {NoDraft}, discarded' \in Draft \cup {NoDraft},
         unsaved' \subseteq Piece, done' \subseteq Piece,
         UNCHANGED <<mounted, stored, saves, rec, mic>>
  PROVE  ShapeInv'
<1>1. Typed'
  BY DEF ShapeInv, Typed
<1>2. Mirrored' /\ ClosedIsClean' /\ OwnSaveFreezes'
  BY DEF ShapeInv, Mirrored, ClosedIsClean, OwnSaveFreezes
<1>3. MicInv'
  BY DEF ShapeInv, MicInv, MicrophoneIsShown
<1> QED
  BY <1>1, <1>2, <1>3 DEF ShapeInv

\* Steps that publish the jobs and change nothing else.
LEMMA PublishKeeps ==
  ASSUME EditorInv, mounted, ~ed.saving \/ jobs # {}, IsFiniteSet(jobs'), jobs' \subseteq Job,
         Dispatch(Published(ed, jobs')),
         UNCHANGED <<parent, mounted, stored, saves, rec, mic, unsaved, done>>
  PROVE  EditorInv'
<1> DEFINE e == Published(ed, jobs')
<1> USE DEF EditorInv
<1>1. /\ e \in EditorState /\ e.content = ed.content /\ e.attachments = ed.attachments
      /\ e.localFiles = ed.localFiles /\ e.saving = ed.saving
      /\ e.recorderBusy = ed.recorderBusy /\ e.pending = Cardinality(jobs')
      /\ e.uploading <=> \E j \in jobs' : j.active
  BY EditFacts, PublishedEffect
<1>2. Dispatch(e)
  OBVIOUS
<1> HIDE DEF e
<1>3. /\ ed' = e /\ Redrafted
      /\ timer' \in Draft \cup {NoDraft} /\ discarded' \in Draft \cup {NoDraft}
  BY <1>1, <1>2, EditFacts, DispatchEffect
<1>4. DraftStays /\ UNCHANGED <<timer, discarded>>
  BY <1>1, <1>3 DEF DraftStays, Redrafted
<1>5. ShapeInv'
  BY <1>1, <1>3, EditFacts, JobsKeep
<1>6. DraftsInv'
  <2>1. \A s \in saves :
          unsaved \subseteq (IF s.phase = "posting" THEN Sent(s) ELSE {}) \cup rec.texts
    BY DEF DraftsInv, OwedInv
  <2> QED
    BY <1>1, <1>3, <1>4, <2>1, EditFacts, QuietKeeps
<1> QED
  BY <1>5, <1>6

\* Upload jobs exist in a mounted editor only.
LEMMA JobsAreMounted ==
  ASSUME ShapeInv, NEW j \in jobs
  PROVE  mounted /\ jobs # {} /\ j \in Job /\ IsFiniteSet(jobs) /\ jobs \subseteq Job
BY DEF ShapeInv, ClosedIsClean, Typed

\* Starting uploads keeps the invariant.
LEMMA insertLocalImagesKeeps ==
  ASSUME EditorInv, NEW files \in SUBSET Image, insertLocalImages(files)
  PROVE  EditorInv'
<1> DEFINE new == [files |-> files, done |-> {}, tried |-> {}, active |-> TRUE]
<1>1. new \in Job
  BY DEF Job
<1>2. jobs' = jobs \cup {new}
  BY DEF insertLocalImages
<1>3. IsFiniteSet(jobs) /\ jobs \subseteq Job
  BY DEF EditorInv, ShapeInv, Typed
<1> HIDE DEF new
<1>4. IsFiniteSet(jobs') /\ jobs' \subseteq Job
  BY <1>1, <1>2, <1>3, FS_AddElement
<1> QED
  BY <1>4, PublishKeeps DEF insertLocalImages

\* Retrying an upload keeps the invariant.
LEMMA RetryJobKeeps ==
  ASSUME EditorInv, NEW j \in jobs, RetryJob(j)
  PROVE  EditorInv'
<1> DEFINE new == [j EXCEPT !.tried = {}, !.active = TRUE]
<1>1. /\ mounted /\ jobs # {} /\ j \in Job /\ IsFiniteSet(jobs) /\ jobs \subseteq Job
  BY JobsAreMounted DEF EditorInv
<1>2. new \in Job
  BY <1>1 DEF Job
<1>3. jobs' = (jobs \ {j}) \cup {new}
  BY DEF RetryJob
<1> HIDE DEF new
<1>4. IsFiniteSet(jobs') /\ jobs' \subseteq Job
  BY <1>1, <1>2, <1>3, FS_AddElement, FS_RemoveElement
<1> QED
  BY <1>1, <1>4, PublishKeeps DEF RetryJob

\* Dismissing an upload keeps the invariant.
LEMMA dismissJobKeeps ==
  ASSUME EditorInv, NEW j \in jobs, dismissJob(j)
  PROVE  EditorInv'
<1>1. /\ mounted /\ jobs # {} /\ IsFiniteSet(jobs) /\ jobs \subseteq Job
  BY JobsAreMounted DEF EditorInv
<1>2. IsFiniteSet(jobs') /\ jobs' \subseteq Job
  BY <1>1, FS_RemoveElement DEF dismissJob
<1> QED
  BY <1>1, <1>2, PublishKeeps DEF dismissJob

\* The file that has landed is an attachment; when it was the last one the
\* references of all of them enter the text.
LEMMA UploadNextKeeps ==
  ASSUME EditorInv, NEW j \in jobs, NEW i \in Image, NEW ok \in BOOLEAN, UploadNext(j, i, ok)
  PROVE  EditorInv'
<1> DEFINE uploaded == IF ok THEN j.done \cup {i} ELSE j.done
<1> DEFINE tried == IF ok THEN j.tried ELSE j.tried \cup {i}
<1> DEFINE last == uploaded \cup tried = j.files
<1> DEFINE after == [j EXCEPT !.done = uploaded, !.tried = tried, !.active = ~last]
<1> DEFINE e0 == IF ok THEN [ed EXCEPT !.attachments = @ \cup {i}, !.localFiles = @ \ {i}] ELSE ed
<1> DEFINE refs == IF uploaded = j.files THEN uploaded ELSE {}
<1> DEFINE e == [Published(e0, jobs') EXCEPT !.content = @ \cup refs]
<1> USE DEF EditorInv
<1>1. /\ i \in j.files \ (j.done \cup j.tried)
      /\ jobs' = (jobs \ {j}) \cup (IF uploaded = j.files THEN {} ELSE {after})
      /\ Dispatch(e) /\ Edited
      /\ IF ok THEN Owe({i}) ELSE UNCHANGED unsaved
      /\ UNCHANGED <<parent, mounted, stored, saves, rec, mic>>
  BY DEF UploadNext
<1>2. mounted /\ jobs # {} /\ j \in Job /\ IsFiniteSet(jobs) /\ jobs \subseteq Job
  BY JobsAreMounted
<1>3. uploaded \in SUBSET Image /\ tried \in SUBSET Image /\ (~last) \in BOOLEAN
  BY <1>2 DEF Job
<1>4. ~ok => refs = {}
  BY <1>1
<1>5. refs \subseteq Image
  BY <1>3
<1>6. after \in Job
  <2> HIDE DEF uploaded, tried, last
  <2> QED
    BY <1>2, <1>3 DEF Job
<1> HIDE DEF after, last, tried, uploaded
<1>7. IsFiniteSet(jobs') /\ jobs' \subseteq Job
  <2>1. IsFiniteSet(jobs \ {j})
    BY <1>2, FS_RemoveElement
  <2>2. IsFiniteSet((jobs \ {j}) \cup {after})
    BY <2>1, FS_AddElement
  <2>3. jobs' \in {jobs \ {j}, (jobs \ {j}) \cup {after}}
    BY <1>1
  <2> QED
    BY <1>2, <1>6, <2>1, <2>2, <2>3
<1>8. /\ e0 \in EditorState /\ e0.content = ed.content /\ e0.saving = ed.saving
      /\ e0.recorderBusy = ed.recorderBusy
      /\ IF ok THEN e0.attachments = ed.attachments \cup {i} /\ e0.localFiles = ed.localFiles \ {i}
               ELSE e0.attachments = ed.attachments /\ e0.localFiles = ed.localFiles
  <2>1. CASE ~ok
    BY <2>1, EditFacts
  <2>2. CASE ok
    <3> DEFINE e1 == [ed EXCEPT !.attachments = @ \cup {i}]
    <3> DEFINE e2 == [e1 EXCEPT !.localFiles = @ \ {i}]
    <3>1. /\ e1 \in EditorState /\ e1.content = ed.content /\ e1.saving = ed.saving
          /\ e1.recorderBusy = ed.recorderBusy /\ e1.attachments = ed.attachments \cup {i}
          /\ e1.localFiles = ed.localFiles
      BY EditFacts DEF EditorState
    <3>2. e0 = e2
      BY <2>2
    <3> HIDE DEF e1
    <3>3. /\ e2 \in EditorState /\ e2.content = ed.content /\ e2.saving = ed.saving
          /\ e2.recorderBusy = ed.recorderBusy /\ e2.attachments = ed.attachments \cup {i}
          /\ e2.localFiles = ed.localFiles \ {i}
      BY <3>1 DEF EditorState
    <3> QED
      BY <2>2, <3>2, <3>3
  <2> QED
    BY <2>1, <2>2
<1> HIDE DEF e0, refs
<1>9. /\ e \in EditorState /\ e.content = ed.content \cup refs /\ e.attachments = e0.attachments
      /\ e.localFiles = e0.localFiles /\ e.saving = ed.saving
      /\ e.recorderBusy = ed.recorderBusy /\ e.pending = Cardinality(jobs')
      /\ e.uploading <=> \E x \in jobs' : x.active
  <2> DEFINE f == Published(e0, jobs')
  <2>1. /\ f \in EditorState /\ f.content = ed.content /\ f.attachments = e0.attachments
        /\ f.localFiles = e0.localFiles /\ f.saving = ed.saving
        /\ f.recorderBusy = ed.recorderBusy /\ f.pending = Cardinality(jobs')
        /\ f.uploading <=> \E x \in jobs' : x.active
    BY <1>7, <1>8, PublishedEffect
  <2>2. e = [f EXCEPT !.content = @ \cup refs]
    OBVIOUS
  <2> HIDE DEF f, e
  <2> QED
    BY <1>5, <2>1, <2>2, PiecesApart DEF EditorState
<1> HIDE DEF e
<1>10. /\ ed' = e /\ Redrafted
       /\ timer' \in Draft \cup {NoDraft} /\ discarded' \in Draft \cup {NoDraft}
  BY <1>1, <1>9, EditFacts, DispatchEffect
<1>11. unsaved' = IF ~ok THEN unsaved
                  ELSE IF saves = {} THEN unsaved \cup {i} ELSE unsaved \ {i}
  BY <1>1 DEF Owe
<1>12. ShapeInv'
  BY <1>1, <1>2, <1>7, <1>9, <1>10, <1>11, EditFacts, PiecesApart, EditedKeepsDone, JobsKeep
<1>13. DraftsInv'
  <2>1. unsaved' \subseteq InEditor'
    BY <1>1, <1>2, <1>8, <1>9, <1>10, <1>11, EditFacts DEF InEditor
  <2>2. rec'.texts \cap (ed'.content \cup ed'.attachments) = {}
    BY <1>1, <1>5, <1>8, <1>9, <1>10, EditFacts, PiecesApart
  <2>3. saves # {} => unsaved' \subseteq unsaved /\ unsaved' \cap rec.texts \subseteq rec'.texts
    BY <1>1, <1>11
  <2>4. DraftStays /\ unsaved \subseteq LocalOnly
          /\ (saves = {} => ed.content \cup ed.attachments = {}) => unsaved' \subseteq LocalOnly'
    BY <1>1, <1>4, <1>8, <1>9, <1>10, <1>11, EditFacts, LocalOnlyNext DEF DraftStays
  <2> QED
    BY <1>1, <1>2, <1>9, <1>10, <2>1, <2>2, <2>3, <2>4, EditFacts, EditKeeps
<1> QED
  BY <1>12, <1>13

-----------------------------------------------------------------------------
(* Saving.                                                                 *)

\* Steps that concern the saves and the editor's flag.
LEMMA SavesKeepShape ==
  ASSUME ShapeInv, ed' \in EditorState, ed'.pending = ed.pending,
         ed'.uploading = ed.uploading, ed'.recorderBusy = ed.recorderBusy,
         \A x \in saves' : IsSave(x) /\ (x.own => ed'.saving /\ jobs = {} /\ ~isBusy(rec)),
         \A x, y \in saves' : x.own /\ y.own => x = y,
         ~mounted => ed' = ed /\ timer' = NoDraft /\ discarded' = NoDraft
                     /\ \A x \in saves' : ~x.own,
         stored' \in Draft, timer' \in Draft \cup {NoDraft}, discarded' \in Draft \cup {NoDraft},
         unsaved' \subseteq Piece, done' \subseteq Piece,
         UNCHANGED <<mounted, jobs, rec, mic>>
  PROVE  ShapeInv'
<1>1. Typed'
  BY DEF ShapeInv, Typed
<1>2. Mirrored' /\ ClosedIsClean' /\ OwnSaveFreezes'
  BY DEF ShapeInv, Mirrored, ClosedIsClean, OwnSaveFreezes
<1>3. MicInv'
  BY DEF ShapeInv, MicInv, MicrophoneIsShown
<1> QED
  BY <1>1, <1>2, <1>3 DEF ShapeInv

\* The save of the editor that is open.
LEMMA OwnSaveFacts ==
  ASSUME ShapeInv, NEW s \in saves, s.own
  PROVE  /\ mounted /\ ed.saving /\ jobs = {} /\ ~isBusy(rec)
         /\ \A x \in saves : x.own => x = s
         /\ ed.pending = 0 /\ ed.uploading = FALSE /\ ed.recorderBusy = FALSE
<1>1. /\ mounted /\ ed.saving /\ jobs = {} /\ ~isBusy(rec)
      /\ \A x \in saves : x.own => x = s
  BY DEF ShapeInv, ClosedIsClean, OwnSaveFreezes
<1>2. ed.pending = 0
  BY <1>1, FS_EmptySet DEF ShapeInv, Mirrored
<1>3. ed.uploading = FALSE /\ ed.recorderBusy = FALSE
  BY <1>1 DEF ShapeInv, Mirrored, Typed, EditorState
<1> QED
  BY <1>1, <1>2, <1>3

\* Sending a save keeps the invariant.
LEMMA BeginSaveKeeps ==
  ASSUME EditorInv, BeginSave
  PROVE  EditorInv'
<1> DEFINE e == [ed EXCEPT !.saving = TRUE]
<1> DEFINE new == [id |-> FreeSlot, phase |-> "posting", own |-> TRUE,
                   draft |-> DraftOf(ed), files |-> ed.localFiles]
<1> USE DEF EditorInv
<1>1. /\ mounted /\ canSave /\ Dispatch(e) /\ saves' = saves \cup {new}
      /\ UNCHANGED <<parent, mounted, stored, jobs, rec, mic, unsaved, done>>
  BY DEF BeginSave
<1>2. /\ e \in EditorState /\ e.content = ed.content /\ e.attachments = ed.attachments
      /\ e.localFiles = ed.localFiles /\ e.pending = ed.pending
      /\ e.uploading = ed.uploading
      /\ e.recorderBusy = ed.recorderBusy /\ e.saving = TRUE
  BY EditFacts DEF EditorState
<1>3. IsSave(new) /\ Sent(new) = ed.content \cup ed.attachments \cup ed.localFiles
      /\ new.phase = "posting" /\ new.own
  BY EditFacts, DraftOfEditor DEF IsSave, Sent
<1> HIDE DEF e, new
<1>4. /\ ed' = e /\ Redrafted
      /\ timer' \in Draft \cup {NoDraft} /\ discarded' \in Draft \cup {NoDraft}
  BY <1>1, <1>2, EditFacts, DispatchEffect
<1>5. DraftStays /\ UNCHANGED <<timer, discarded>>
  BY <1>2, <1>4 DEF DraftStays, Redrafted
<1>6. jobs = {} /\ ~isBusy(rec) /\ \A x \in saves : ~x.own
  <2>1. \A x \in saves : ~x.own
    BY <1>1 DEF canSave, ShapeInv, OwnSaveFreezes
  <2>2. ~isBusy(rec)
    BY <1>1 DEF canSave, ShapeInv, Mirrored
  <2>3. jobs = {}
    BY <1>1, FS_EmptySet DEF canSave, ShapeInv, Mirrored, Typed
  <2> QED
    BY <2>1, <2>2, <2>3
<1>7. ShapeInv'
  <2>1. \A x \in saves' : IsSave(x) /\ (x.own => ed'.saving /\ jobs = {} /\ ~isBusy(rec))
    BY <1>1, <1>2, <1>3, <1>4, <1>6 DEF ShapeInv, Typed
  <2>2. \A x, y \in saves' : x.own /\ y.own => x = y
    BY <1>1, <1>6
  <2>3. stored \in Draft
    BY DEF ShapeInv, Typed
  <2> QED
    BY <1>1, <1>2, <1>4, <2>1, <2>2, <2>3, EditFacts, SavesKeepShape
<1>8. DraftsInv'
  <2>1. \A s \in saves' :
          unsaved \subseteq (IF s.phase = "posting" THEN Sent(s) ELSE {}) \cup rec.texts
    <3>1. unsaved \subseteq Sent(new) \cup rec.texts
      BY <1>1, <1>3, EditFacts DEF InEditor
    <3> QED
      BY <1>1, <1>3, <3>1 DEF DraftsInv, OwedInv
  <2>2. ed' \in EditorState /\ ed'.localFiles = ed.localFiles /\ rec'.texts = rec.texts
    BY <1>1, <1>2, <1>4
  <2> QED
    BY <1>1, <1>5, <1>6, <2>1, <2>2, EditFacts, QuietKeeps
<1> QED
  BY <1>7, <1>8

\* A save that fails keeps the invariant.
LEMMA SaveFailsKeeps ==
  ASSUME EditorInv, NEW s \in saves, SaveFails(s)
  PROVE  EditorInv'
<1> USE DEF EditorInv
<1>1. /\ s.phase = "posting" /\ saves' = saves \ {s}
      /\ UNCHANGED <<parent, mounted, stored, jobs, rec, mic, unsaved, done>>
  BY DEF SaveFails
<1>2. stored \in Draft /\ timer \in Draft \cup {NoDraft} /\ discarded \in Draft \cup {NoDraft}
      /\ \A x \in saves : IsSave(x)
  BY DEF ShapeInv, Typed
<1>3. \A x \in saves' :
        unsaved \subseteq (IF x.phase = "posting" THEN Sent(x) ELSE {}) \cup rec.texts
  BY <1>1 DEF DraftsInv, OwedInv
<1>4. CASE ~s.own
  <2>1. UNCHANGED <<ed, timer, discarded>>
    BY <1>4 DEF SaveFails
  <2>2. ShapeInv'
    <3>1. \A x \in saves' : IsSave(x) /\ (x.own => ed'.saving /\ jobs = {} /\ ~isBusy(rec))
      BY <1>1, <1>2, <2>1 DEF ShapeInv, OwnSaveFreezes
    <3>2. \A x, y \in saves' : x.own /\ y.own => x = y
      BY <1>1 DEF ShapeInv, OwnSaveFreezes
    <3>3. ~mounted => timer = NoDraft /\ discarded = NoDraft /\ \A x \in saves : ~x.own
      BY DEF ShapeInv, ClosedIsClean
    <3> QED
      BY <1>1, <1>2, <2>1, <3>1, <3>2, <3>3, EditFacts, SavesKeepShape
  <2>3. (\E x \in saves : x.own /\ x.phase = "refreshing") =>
           \E x \in saves' : x.own /\ x.phase = "refreshing"
    BY <1>1, <1>4
  <2> QED
    BY <1>1, <1>3, <2>1, <2>2, <2>3, EditFacts, QuietKeeps DEF DraftStays
<1>5. CASE s.own
  <2> DEFINE e == [ed EXCEPT !.saving = FALSE]
  <2>1. Dispatch(e)
    BY <1>5 DEF SaveFails
  <2>2. /\ e \in EditorState /\ e.content = ed.content /\ e.attachments = ed.attachments
        /\ e.localFiles = ed.localFiles /\ e.pending = ed.pending
        /\ e.uploading = ed.uploading /\ e.recorderBusy = ed.recorderBusy
    BY EditFacts DEF EditorState
  <2> HIDE DEF e
  <2>3. ed' = e /\ Redrafted
    BY <2>1, <2>2, EditFacts, DispatchEffect
  <2>4. DraftStays /\ UNCHANGED <<timer, discarded>>
    BY <2>2, <2>3 DEF DraftStays, Redrafted
  <2>5. mounted /\ \A x \in saves' : ~x.own
    BY <1>1, <1>5, OwnSaveFacts
  <2>6. ShapeInv'
    BY <1>1, <1>2, <2>2, <2>3, <2>4, <2>5, EditFacts, SavesKeepShape
  <2>7. ~\E x \in saves : x.own /\ x.phase = "refreshing"
    BY <1>1, <1>5, OwnSaveFacts
  <2> QED
    BY <1>1, <1>3, <2>2, <2>3, <2>4, <2>6, <2>7, EditFacts, QuietKeeps
<1>6. s.own \in BOOLEAN
  BY <1>2 DEF IsSave
<1> QED
  BY <1>4, <1>5, <1>6

\* A save of an editor that has gone reaches only the cache: what the editor
\* that is open now owes is still there, and what the closed one owed was sent.
LEMMA LateSaveKeeps ==
  ASSUME EditorInv, NEW s \in saves, ~s.own, s.phase = "posting", Acknowledge(s),
         stored' = Empty, timer' = NoDraft,
         \A x \in saves' : x \in saves \/ (IsSave(x) /\ ~x.own /\ x.phase = "refreshing"),
         \A x \in saves \ {s} : x \in saves',
         UNCHANGED <<mounted, ed, discarded, jobs, rec, mic>>
  PROVE  EditorInv'
<1> USE DEF EditorInv
<1>1. /\ unsaved' = unsaved \ Sent(s)
      /\ done' = done \cup (Held(s.draft) \ Held(DraftOf(ed)))
  BY DEF Acknowledge
<1>2. /\ \A x \in saves : IsSave(x)
      /\ discarded \in Draft \cup {NoDraft}
      /\ Held(s.draft) \subseteq Piece
  BY PiecesApart DEF ShapeInv, Typed, IsSave, Draft, Held
<1>3. ShapeInv'
  <2>1. \A x \in saves' : IsSave(x) /\ (x.own => ed.saving /\ jobs = {} /\ ~isBusy(rec))
    BY <1>2 DEF ShapeInv, OwnSaveFreezes
  <2>2. \A x, y \in saves' : x.own /\ y.own => x = y
    BY DEF ShapeInv, OwnSaveFreezes
  <2>3. ~mounted => discarded = NoDraft /\ \A x \in saves' : ~x.own
    BY DEF ShapeInv, ClosedIsClean
  <2> QED
    BY <1>1, <1>2, <2>1, <2>2, <2>3, EditFacts, DraftIsNoMark, SavesKeepShape
<1>4. unsaved' \subseteq unsaved /\ unsaved' \subseteq rec.texts
  BY <1>1 DEF DraftsInv, OwedInv
<1>5. DiscardInv'
  <2>1. LocalOnly' = LocalOnly
    BY DEF LocalOnly
  <2> QED
    BY <1>4, <2>1 DEF DraftsInv, DiscardInv
<1>6. OwedInv'
  <2>1. NothingIsLost'
    BY <1>4, InitialRecorder DEF DraftsInv, OwedInv, NothingIsLost, ShapeInv, ClosedIsClean
  <2> QED
    BY <1>4, <2>1 DEF DraftsInv, OwedInv
<1>7. DoneInv'
  BY <1>1, DraftIsNoMark DEF DraftsInv, DoneInv, SavedDraftStaysGone
<1> QED
  BY <1>3, <1>5, <1>6, <1>7 DEF DraftsInv

\* The answer to the save of a memo keeps the invariant.
LEMMA MemoSavedKeeps ==
  ASSUME EditorInv, NEW s \in saves, MemoSaved(s)
  PROVE  EditorInv'
<1> DEFINE t == [s EXCEPT !.phase = "refreshing"]
<1> USE DEF EditorInv
<1>1. /\ s.phase = "posting" /\ stored' = Empty /\ timer' = NoDraft /\ Acknowledge(s)
      /\ discarded' = IF s.own THEN DraftOf(ed) ELSE discarded
      /\ saves' = (saves \ {s}) \cup {t}
      /\ UNCHANGED <<parent, mounted, ed, jobs, rec, mic>>
  BY DEF MemoSaved, discardDraft, ClearDraft
<1>2. /\ IsSave(s) /\ \A x \in saves : IsSave(x)
      /\ Held(s.draft) \subseteq Piece
  BY PiecesApart DEF ShapeInv, Typed, IsSave, Draft, Held
<1>3. IsSave(t) /\ t.phase = "refreshing" /\ t.own = s.own
  BY <1>2 DEF IsSave
<1> HIDE DEF t
<1>4. CASE ~s.own
  BY <1>1, <1>3, <1>4, LateSaveKeeps
<1>5. CASE s.own
  <2>1. /\ unsaved' = unsaved \ Sent(s) /\ done' = done \cup Held(s.draft)
    BY <1>1, <1>5 DEF Acknowledge
  <2>2. /\ mounted /\ ed.saving /\ jobs = {} /\ ~isBusy(rec)
        /\ \A x \in saves : x.own => x = s
    BY <1>5, OwnSaveFacts
  <2>3. DraftOf(ed) \in Draft /\ DraftOf(ed) # NoDraft
        /\ Held(DraftOf(ed)) = ed.content \cup ed.attachments
    BY EditFacts, DraftOfEditor
  <2>4. ShapeInv'
    <3>1. \A x \in saves' : IsSave(x) /\ (x.own => ed'.saving /\ jobs = {} /\ ~isBusy(rec))
      BY <1>1, <1>2, <1>3, <2>2
    <3>2. \A x, y \in saves' : x.own /\ y.own => x = y
      BY <1>1, <2>2
    <3> QED
      BY <1>1, <1>2, <1>5, <2>1, <2>2, <2>3, <3>1, <3>2, EditFacts, DraftIsNoMark, SavesKeepShape
  <2>5. unsaved' \subseteq unsaved /\ unsaved' \subseteq rec.texts
    BY <1>1, <2>1 DEF DraftsInv, OwedInv
  <2>6. DiscardInv'
    <3>1. LocalOnly' = (ed.localFiles \cup rec.texts) \ (ed.content \cup ed.attachments)
      BY <1>1, EditFacts, LocalOnlyNext
    <3>2. unsaved' \subseteq LocalOnly'
      BY <2>5, <3>1, EditFacts
    <3> QED
      BY <1>1, <1>3, <1>5, <3>2 DEF DiscardInv
  <2>7. OwedInv'
    <3>1. NothingIsLost'
      BY <1>1, <2>2, <2>5 DEF NothingIsLost
    <3>2. \A x \in saves' :
            unsaved' \subseteq (IF x.phase = "posting" THEN Sent(x) ELSE {}) \cup rec'.texts
      BY <1>1, <2>5
    <3> QED
      BY <1>1, <3>1, <3>2 DEF DraftsInv, OwedInv
  <2>8. DoneInv'
    BY <1>1, <1>5, <2>2, <2>3 DEF DoneInv, SavedDraftStaysGone
  <2> QED
    BY <2>4, <2>6, <2>7, <2>8 DEF DraftsInv
<1>6. s.own \in BOOLEAN
  BY <1>2 DEF IsSave
<1> QED
  BY <1>4, <1>5, <1>6

\* The reset at the end of a save: only transcriptions are owed, and the
\* recorder keeps them.
LEMMA ResetKeeps ==
  ASSUME EditorInv, NEW s \in saves, s.own, saves' = saves \ {s},
         ed' = createInitialState, UNCHANGED <<mounted, jobs, rec, mic>>,
         stored' \in Draft,
         unsaved' \subseteq unsaved, unsaved' \subseteq rec.texts, done' \subseteq Piece,
         \/ discarded' = NoDraft /\ timer' \in Draft \cup {NoDraft}
         \/ discarded' = Empty /\ timer' = NoDraft /\ stored' = Empty
  PROVE  EditorInv'
<1> USE DEF EditorInv
<1>1. /\ mounted /\ \A x \in saves' : ~x.own
      /\ ed.pending = 0 /\ ed.uploading = FALSE /\ ed.recorderBusy = FALSE
  BY OwnSaveFacts
<1>2. \A x \in saves : IsSave(x)
  BY DEF ShapeInv, Typed
<1>3. ShapeInv'
  <2>1. \A x \in saves' : IsSave(x)
    BY <1>2
  <2> QED
    BY <1>1, <2>1, EditFacts, InitialEditor, DraftIsNoMark, SavesKeepShape
<1>4. /\ LocalOnly' = rec.texts /\ Held(DraftOf(ed')) = {} /\ ed'.localFiles = {}
      /\ DraftOf(ed') = Empty
  BY InitialEditor, DraftIsNoMark, LocalOnlyNext
<1>5. DiscardInv'
  BY <1>4 DEF DiscardInv
<1>6. OwedInv'
  BY <1>1, <1>4 DEF DraftsInv, OwedInv, NothingIsLost
<1>7. DoneInv'
  BY <1>1, <1>4 DEF DoneInv, SavedDraftStaysGone
<1> QED
  BY <1>3, <1>5, <1>6, <1>7 DEF DraftsInv

\* What follows the refetch after a save keeps the invariant.
LEMMA MemoSaveEndsKeeps ==
  ASSUME EditorInv, NEW s \in saves, MemoSaveEnds(s)
  PROVE  EditorInv'
<1> USE DEF EditorInv
<1>1. /\ s.phase = "refreshing" /\ saves' = saves \ {s}
      /\ UNCHANGED <<parent, mounted, stored, jobs, rec, mic, unsaved, done>>
  BY DEF MemoSaveEnds
<1>2. /\ IsSave(s) /\ \A x \in saves : IsSave(x)
      /\ stored \in Draft /\ timer \in Draft \cup {NoDraft} /\ discarded \in Draft \cup {NoDraft}
  BY DEF ShapeInv, Typed
<1>3. unsaved \subseteq rec.texts
  BY <1>1 DEF DraftsInv, OwedInv
<1>4. CASE s.own
  <2>1. Dispatch(createInitialState)
    BY <1>4 DEF MemoSaveEnds
  <2>2. /\ ed' = createInitialState /\ Redrafted
        /\ timer' \in Draft \cup {NoDraft} /\ discarded' \in Draft \cup {NoDraft}
    BY <2>1, EditFacts, InitialEditor, DispatchEffect
  <2>3. \/ discarded' = NoDraft
        \/ discarded' = Empty /\ timer' = NoDraft /\ stored' = Empty
    <3> SUFFICES ASSUME discarded' # NoDraft
                 PROVE  discarded' = Empty /\ timer' = NoDraft /\ stored' = Empty
      OBVIOUS
    <3>1. DraftStays /\ UNCHANGED <<timer, discarded>>
      BY <2>2 DEF Redrafted
    <3>2. DraftOf(ed) = Empty
      BY <2>2, <3>1, EditFacts, InitialEditor, SameDraft DEF DraftStays
    <3> QED
      BY <1>1, <3>1, <3>2 DEF DraftsInv, DiscardInv
  <2> QED
    BY <1>1, <1>2, <1>3, <1>4, <2>2, <2>3, EditFacts, ResetKeeps
<1>5. CASE ~s.own
  <2>1. UNCHANGED <<ed, timer, discarded>>
    BY <1>5 DEF MemoSaveEnds
  <2>2. ShapeInv'
    <3>1. \A x \in saves' : IsSave(x) /\ (x.own => ed'.saving /\ jobs = {} /\ ~isBusy(rec))
      BY <1>1, <1>2, <2>1 DEF ShapeInv, OwnSaveFreezes
    <3>2. \A x, y \in saves' : x.own /\ y.own => x = y
      BY <1>1 DEF ShapeInv, OwnSaveFreezes
    <3>3. ~mounted => timer = NoDraft /\ discarded = NoDraft /\ \A x \in saves : ~x.own
      BY DEF ShapeInv, ClosedIsClean
    <3> QED
      BY <1>1, <1>2, <2>1, <3>1, <3>2, <3>3, EditFacts, SavesKeepShape
  <2>3. (\E x \in saves : x.own /\ x.phase = "refreshing") =>
           \E x \in saves' : x.own /\ x.phase = "refreshing"
    BY <1>1, <1>5
  <2>4. \A x \in saves' :
          unsaved \subseteq (IF x.phase = "posting" THEN Sent(x) ELSE {}) \cup rec.texts
    BY <1>3
  <2> QED
    BY <1>1, <2>1, <2>2, <2>3, <2>4, EditFacts, QuietKeeps DEF DraftStays
<1>6. s.own \in BOOLEAN
  BY <1>2 DEF IsSave
<1> QED
  BY <1>4, <1>5, <1>6

\* The answer to the save of a comment keeps the invariant.
LEMMA CommentSavedKeeps ==
  ASSUME EditorInv, NEW s \in saves, CommentSaved(s)
  PROVE  EditorInv'
<1> USE DEF EditorInv
<1>1. /\ s.phase = "posting" /\ stored' = Empty /\ Acknowledge(s) /\ saves' = saves \ {s}
      /\ UNCHANGED <<parent, mounted, jobs, rec, mic>>
  BY DEF CommentSaved
<1>2. IsSave(s) /\ Held(s.draft) \subseteq Piece
  BY PiecesApart DEF ShapeInv, Typed, IsSave, Draft, Held
<1>3. CASE ~s.own
  <2>1. timer' = NoDraft /\ UNCHANGED <<ed, discarded>>
    BY <1>3 DEF CommentSaved
  <2> QED
    BY <1>1, <1>3, <2>1, LateSaveKeeps
<1>4. CASE s.own
  <2>1. /\ ed' = createInitialState
        /\ \/ discarded' = NoDraft /\ timer' = Empty
           \/ discarded' = Empty /\ timer' = NoDraft
    BY <1>4 DEF CommentSaved
  <2>2. unsaved' = unsaved \ Sent(s) /\ done' = done \cup Held(s.draft)
    BY <1>1, <1>4 DEF Acknowledge
  <2>3. unsaved' \subseteq unsaved /\ unsaved' \subseteq rec.texts /\ done' \subseteq Piece
    BY <1>1, <1>2, <2>2, EditFacts DEF DraftsInv, OwedInv
  <2> QED
    BY <1>1, <1>4, <2>1, <2>3, DraftIsNoMark, ResetKeeps
<1>5. s.own \in BOOLEAN
  BY <1>2 DEF IsSave
<1> QED
  BY <1>3, <1>4, <1>5

-----------------------------------------------------------------------------
(* The recorder.                                                           *)

\* A recorder that does or holds anything is in a mounted editor.
LEMMA ActiveIsMounted ==
  ASSUME ShapeInv,
         \/ rec.status # "idle" \/ rec.recorder # "none"
         \/ rec.isTranscribing \/ rec.texts # {}
  PROVE  mounted
<1>1. NewRecorder.isTranscribing = FALSE
  BY DEF NewRecorder
<1> QED
  BY <1>1, InitialRecorder DEF ShapeInv, ClosedIsClean

MicTyped == DOMAIN mic = {"waiting", "live", "stray", "left"}

\* The busy flag may be raised while the editor does not save.
LEMMA RecorderKeepsShape ==
  ASSUME ShapeInv, mounted, ed' \in EditorState, ed'.pending = ed.pending,
         ed'.uploading = ed.uploading, ed'.saving = ed.saving,
         ed'.recorderBusy <=> isBusy(rec'), isBusy(rec') => isBusy(rec) \/ ~ed.saving,
         IsRecorder(rec'), MicTyped', MicInv',
         timer' \in Draft \cup {NoDraft}, discarded' \in Draft \cup {NoDraft},
         unsaved' \subseteq Piece, done' \subseteq Piece,
         UNCHANGED <<mounted, stored, saves, jobs>>
  PROVE  ShapeInv'
<1>1. Typed'
  BY DEF ShapeInv, Typed, MicTyped
<1>2. Mirrored' /\ ClosedIsClean' /\ OwnSaveFreezes'
  BY DEF ShapeInv, Mirrored, ClosedIsClean, OwnSaveFreezes
<1> QED
  BY <1>1, <1>2 DEF ShapeInv

\* A change of the recorder that the editor mirrors keeps the invariant.
LEMMA MirrorKeeps ==
  ASSUME EditorInv, mounted, NEW r, IsRecorder(r), Mirror(r), r.texts = rec.texts,
         isBusy(r) => isBusy(rec) \/ ~ed.saving, MicTyped', MicInv',
         UNCHANGED <<parent, mounted, stored, saves, jobs, unsaved, done>>
  PROVE  EditorInv'
<1> DEFINE busy == isBusy(r)
<1> DEFINE e == [ed EXCEPT !.recorderBusy = busy]
<1> USE DEF EditorInv
<1>1. rec' = r /\ Dispatch(e)
  BY DEF Mirror
<1>2. busy \in BOOLEAN
  BY DEF isBusy
<1> HIDE DEF busy
<1>3. /\ e \in EditorState /\ e.content = ed.content /\ e.attachments = ed.attachments
      /\ e.localFiles = ed.localFiles /\ e.pending = ed.pending
      /\ e.uploading = ed.uploading /\ e.saving = ed.saving /\ e.recorderBusy = busy
  BY <1>2, EditFacts DEF EditorState
<1> HIDE DEF e
<1>4. /\ ed' = e /\ Redrafted
      /\ timer' \in Draft \cup {NoDraft} /\ discarded' \in Draft \cup {NoDraft}
  BY <1>1, <1>3, EditFacts, DispatchEffect
<1>5. DraftStays /\ UNCHANGED <<timer, discarded>>
  BY <1>3, <1>4 DEF DraftStays, Redrafted
<1>6. ed'.recorderBusy <=> isBusy(rec')
  BY <1>1, <1>3, <1>4 DEF busy
<1>7. ShapeInv'
  BY <1>1, <1>3, <1>4, <1>6, EditFacts, RecorderKeepsShape
<1>8. DraftsInv'
  <2>1. \A s \in saves :
          unsaved \subseteq (IF s.phase = "posting" THEN Sent(s) ELSE {}) \cup rec.texts
    BY DEF DraftsInv, OwedInv
  <2> QED
    BY <1>1, <1>3, <1>4, <1>5, <2>1, EditFacts, QuietKeeps
<1> QED
  BY <1>7, <1>8

\* Steps of the browser that the editor does not notice.
LEMMA UnnoticedKeeps ==
  ASSUME EditorInv, mounted \/ rec' = rec, IsRecorder(rec'), rec'.texts = rec.texts,
         isBusy(rec') <=> isBusy(rec), MicTyped', MicInv',
         UNCHANGED <<parent, mounted, ed, stored, timer, discarded, saves, jobs, unsaved, done>>
  PROVE  EditorInv'
<1> USE DEF EditorInv
<1>1. ShapeInv'
  <2>1. Typed'
    BY DEF ShapeInv, Typed, MicTyped
  <2>2. Mirrored' /\ ClosedIsClean' /\ OwnSaveFreezes'
    BY DEF ShapeInv, Mirrored, ClosedIsClean, OwnSaveFreezes
  <2> QED
    BY <2>1, <2>2 DEF ShapeInv
<1>2. \A s \in saves :
        unsaved \subseteq (IF s.phase = "posting" THEN Sent(s) ELSE {}) \cup rec.texts
  BY DEF DraftsInv, OwedInv
<1> QED
  BY <1>1, <1>2, EditFacts, QuietKeeps DEF DraftStays

\* No microphone but that of the current recording is open.
LEMMA RecorderFacts ==
  ASSUME EditorInv
  PROVE  /\ IsRecorder(rec) /\ MicTyped /\ MicInv /\ Closed = mic.live \ {rec.ref}
         /\ mic.live \subseteq {rec.ref}
         /\ rec.status # "recording" => mic.live = {} /\ rec.recorder = "none"
BY DEF EditorInv, ShapeInv, Typed, MicTyped, MicInv, MicrophoneIsShown, Closed

\* Asking for the microphone keeps the invariant.
LEMMA startRecordingKeeps ==
  ASSUME EditorInv, startRecording
  PROVE  EditorInv'
<1> DEFINE q == Min(Request \ mic.waiting)
<1> DEFINE r == [rec EXCEPT !.status = "requesting_permission", !.current = q]
<1>1. /\ mounted /\ ~isBusy(rec) /\ ~ed.saving /\ Mirror(r)
      /\ mic' = [mic EXCEPT !.waiting = @ \cup {q}]
      /\ UNCHANGED <<parent, mounted, stored, saves, jobs, unsaved, done>>
  BY DEF startRecording
<1> HIDE DEF q
<1>2. /\ IsRecorder(r) /\ r.status = "requesting_permission" /\ r.texts = rec.texts
      /\ r.recorder = rec.recorder
  BY RecorderFacts DEF IsRecorder
<1>3. MicTyped' /\ mic'.live = mic.live
  BY <1>1, RecorderFacts DEF MicTyped
<1> HIDE DEF r
<1>4. rec.status # "recording" /\ rec' = r
  BY <1>1 DEF isBusy, Mirror
<1>5. MicInv'
  BY <1>2, <1>3, <1>4, RecorderFacts DEF MicInv, MicrophoneIsShown
<1> QED
  BY <1>1, <1>2, <1>3, <1>5, MirrorKeeps

\* A microphone that is granted keeps the invariant.
LEMMA GrantedKeeps ==
  ASSUME EditorInv, NEW q \in Request, Granted(q)
  PROVE  EditorInv'
<1>1. CASE q = rec.current
  <2> DEFINE r == [rec EXCEPT !.status = "recording", !.ref = q, !.recorder = "recording"]
  <2>1. /\ q \in mic.waiting /\ Mirror(r)
        /\ mic' = [mic EXCEPT !.waiting = @ \ {q}, !.live = @ \cup {q}]
        /\ UNCHANGED <<parent, mounted, stored, saves, jobs, unsaved, done>>
    BY <1>1 DEF Granted
  <2>2. /\ IsRecorder(r) /\ r.status = "recording" /\ r.texts = rec.texts
        /\ r.recorder = "recording" /\ r.ref = q /\ r.current = q
    BY <1>1, RecorderFacts DEF IsRecorder
  <2>3. MicTyped' /\ mic'.live = mic.live \cup {q} /\ mic'.waiting = mic.waiting \ {q}
    BY <2>1, RecorderFacts DEF MicTyped
  <2> HIDE DEF r
  <2>4. rec.status = "requesting_permission" /\ rec' = r
    BY <1>1, <2>1, RecorderFacts DEF MicInv, Mirror
  <2>5. MicInv'
    BY <2>2, <2>3, <2>4, RecorderFacts DEF MicInv, MicrophoneIsShown
  <2>6. mounted /\ isBusy(rec)
    BY <2>4, ActiveIsMounted DEF EditorInv, isBusy
  <2> QED
    BY <2>1, <2>2, <2>3, <2>5, <2>6, MirrorKeeps
<1>2. CASE q # rec.current
  <2> DEFINE left == mic.left \/ q \in mic.stray
  <2>1. /\ mic' = [mic EXCEPT !.waiting = @ \ {q}, !.stray = @ \ {q}, !.left = left]
        /\ UNCHANGED <<parent, mounted, ed, stored, timer, discarded, rec, saves, jobs, unsaved, done>>
    BY <1>2 DEF Granted
  <2> HIDE DEF left
  <2>2. MicTyped' /\ mic'.live = mic.live /\ mic'.waiting = mic.waiting \ {q}
    BY <2>1, RecorderFacts DEF MicTyped
  <2>3. MicInv'
    BY <2>1, <2>2, RecorderFacts DEF MicInv, MicrophoneIsShown
  <2> QED
    BY <2>1, <2>2, <2>3, RecorderFacts, UnnoticedKeeps
<1> QED
  BY <1>1, <1>2

\* Releasing the recorder drops its stream only.
LEMMA ReleasedEffect ==
  ASSUME IsRecorder(rec)
  PROVE  /\ IsRecorder(Released(rec)) /\ Released(rec).recorder = "none"
         /\ Released(rec).texts = rec.texts /\ Released(rec).status = rec.status
         /\ Released(rec).isTranscribing = rec.isTranscribing
BY DEF IsRecorder, Released

\* Requests for the microphone are numbered from one.
LEMMA ZeroIsNoRequest == 0 \notin Request
BY ComposerBounds DEF Request

\* A microphone that is refused, or granted too late, keeps the invariant.
LEMMA NotGrantedKeeps ==
  ASSUME EditorInv, NEW q \in Request, NEW opened \in BOOLEAN, NotGranted(q, opened)
  PROVE  EditorInv'
<1> DEFINE left == mic.left \/ (opened /\ q \in mic.stray \cup {rec.current})
<1>1. /\ q \in mic.waiting
      /\ mic' = [mic EXCEPT !.waiting = @ \ {q}, !.stray = @ \ {q}, !.left = left]
      /\ UNCHANGED <<parent, mounted, stored, saves, jobs, unsaved, done>>
  BY DEF NotGranted
<1> HIDE DEF left
<1>2. MicTyped' /\ mic'.live = mic.live /\ mic'.waiting = mic.waiting \ {q}
  BY <1>1, RecorderFacts DEF MicTyped
<1>3. CASE q = rec.current
  <2> DEFINE r == [Released(rec) EXCEPT !.status = "error", !.current = 0]
  <2>1. Mirror(r)
    BY <1>3 DEF NotGranted
  <2>2. /\ IsRecorder(r) /\ r.status = "error" /\ r.texts = rec.texts
        /\ r.recorder = "none" /\ r.current = 0
    BY RecorderFacts, ReleasedEffect DEF IsRecorder
  <2> HIDE DEF r
  <2>3. rec.status = "requesting_permission" /\ rec' = r
    BY <1>1, <1>3, <2>1, RecorderFacts DEF MicInv, Mirror
  <2>4. MicInv'
    BY <1>2, <2>2, <2>3, RecorderFacts, ZeroIsNoRequest DEF MicInv, MicrophoneIsShown
  <2>5. mounted /\ isBusy(rec)
    BY <2>3, ActiveIsMounted DEF EditorInv, isBusy
  <2> QED
    BY <1>1, <1>2, <2>1, <2>2, <2>4, <2>5, MirrorKeeps
<1>4. CASE q # rec.current
  <2>1. UNCHANGED <<ed, timer, discarded, rec>>
    BY <1>4 DEF NotGranted
  <2>2. MicInv'
    BY <1>2, <2>1, RecorderFacts DEF MicInv, MicrophoneIsShown
  <2> QED
    BY <1>1, <1>2, <2>1, <2>2, RecorderFacts, UnnoticedKeeps
<1> QED
  BY <1>3, <1>4

\* Stopping a recording keeps the invariant.
LEMMA stopRecordingKeeps ==
  ASSUME EditorInv, NEW mode, stopRecording(mode)
  PROVE  EditorInv'
<1> DEFINE b == rec.isTranscribing \/ mode = "transcribe"
<1> DEFINE r == [rec EXCEPT !.mode = mode, !.recorder = "inactive", !.isTranscribing = b]
<1>1. /\ rec.recorder = "recording" /\ rec' = r
      /\ UNCHANGED <<parent, mounted, ed, stored, timer, discarded, saves, jobs, mic, unsaved, done>>
  BY DEF stopRecording
<1>2. b \in BOOLEAN
  OBVIOUS
<1> HIDE DEF b
<1>3. /\ IsRecorder(r) /\ r.status = rec.status /\ r.texts = rec.texts /\ r.ref = rec.ref
      /\ r.current = rec.current
  BY <1>2, RecorderFacts DEF IsRecorder
<1> HIDE DEF r
<1>4. rec.status = "recording" /\ mounted
  BY <1>1, RecorderFacts, ActiveIsMounted DEF EditorInv
<1>5. MicInv' /\ MicTyped'
  BY <1>1, <1>3, <1>4, RecorderFacts DEF MicInv, MicrophoneIsShown, MicTyped
<1>6. isBusy(rec') <=> isBusy(rec)
  BY <1>1, <1>3 DEF isBusy
<1> QED
  BY <1>1, <1>3, <1>4, <1>5, <1>6, UnnoticedKeeps

\* Cancelling a recording keeps the invariant.
LEMMA CancelKeeps ==
  ASSUME EditorInv, handleCancelAudioRecording
  PROVE  EditorInv'
<1> DEFINE r == [Released(rec) EXCEPT !.status = "idle", !.current = 0, !.mode = "attach",
                                      !.isTranscribing = FALSE]
<1>1. /\ isBusy(rec) \/ rec.isTranscribing
      /\ Mirror(r) /\ mic' = [mic EXCEPT !.live = Closed]
      /\ UNCHANGED <<parent, mounted, stored, saves, jobs, unsaved, done>>
  BY DEF handleCancelAudioRecording
<1>2. /\ IsRecorder(r) /\ r.status = "idle" /\ r.texts = rec.texts
      /\ r.recorder = "none" /\ r.current = 0
  BY RecorderFacts, ReleasedEffect DEF IsRecorder
<1> HIDE DEF r
<1>3. mounted
  BY <1>1, ActiveIsMounted DEF EditorInv, isBusy
<1>4. MicTyped' /\ mic'.live = {}
  BY <1>1, RecorderFacts DEF MicTyped
<1>5. rec' = r /\ ~isBusy(r)
  BY <1>1, <1>2 DEF Mirror, isBusy
<1>6. MicInv'
  BY <1>2, <1>4, <1>5, ZeroIsNoRequest DEF MicInv, MicrophoneIsShown
<1> QED
  BY <1>1, <1>2, <1>3, <1>4, <1>5, <1>6, MirrorKeeps

\* The recording becomes a file, or waits for its transcription, or is empty.
LEMMA StoppedKeeps ==
  ASSUME EditorInv, NEW v \in Voice, NEW data \in BOOLEAN, NEW transcribe \in BOOLEAN,
         Stopped(v, data, transcribe)
  PROVE  EditorInv'
<1> DEFINE idle == [Released(rec) EXCEPT !.status = "idle", !.current = 0, !.mode = "attach"]
<1> DEFINE b == idle.isTranscribing /\ rec.mode # "transcribe"
<1> DEFINE ended == [idle EXCEPT !.isTranscribing = b]
<1> DEFINE waits == [idle EXCEPT !.texts = @ \cup {v}]
<1> DEFINE files == IF data /\ ~transcribe THEN {v} ELSE {}
<1> DEFINE e1 == [ed EXCEPT !.recorderBusy = FALSE]
<1> DEFINE e == [e1 EXCEPT !.localFiles = @ \cup files]
<1> USE DEF EditorInv
<1>1. /\ rec.recorder = "inactive"
      /\ data => v \notin ed.content \cup ed.localFiles \cup rec.texts
      /\ transcribe => data
      /\ rec' = IF transcribe THEN waits ELSE ended
      /\ Dispatch(e)
      /\ IF data THEN Owe({v}) ELSE UNCHANGED unsaved
      /\ mic' = [mic EXCEPT !.live = Closed]
      /\ UNCHANGED <<parent, mounted, stored, saves, jobs, done>>
  BY DEF Stopped
<1>2. /\ IsRecorder(idle) /\ idle.status = "idle" /\ idle.recorder = "none" /\ idle.current = 0
      /\ idle.texts = rec.texts
  BY RecorderFacts, ReleasedEffect DEF IsRecorder
<1> HIDE DEF idle
<1>3. b \in BOOLEAN
  OBVIOUS
<1> HIDE DEF b
<1>4. /\ IsRecorder(ended) /\ ended.status = "idle" /\ ended.recorder = "none"
      /\ ended.current = 0 /\ ended.texts = rec.texts
  BY <1>2, <1>3 DEF IsRecorder
<1>5. /\ IsRecorder(waits) /\ waits.status = "idle" /\ waits.recorder = "none"
      /\ waits.current = 0 /\ waits.texts = rec.texts \cup {v}
  BY <1>2 DEF IsRecorder
<1> HIDE DEF ended, waits
<1>6. /\ IsRecorder(rec') /\ rec'.status = "idle" /\ rec'.recorder = "none" /\ rec'.current = 0
      /\ rec'.texts = rec.texts \cup (IF transcribe THEN {v} ELSE {})
      /\ ~isBusy(rec')
  BY <1>1, <1>4, <1>5 DEF isBusy
<1>7. files \subseteq Voice
  OBVIOUS
<1>8. /\ e1 \in EditorState /\ e1.content = ed.content /\ e1.attachments = ed.attachments
      /\ e1.localFiles = ed.localFiles /\ e1.pending = ed.pending
      /\ e1.uploading = ed.uploading /\ e1.saving = ed.saving /\ e1.recorderBusy = FALSE
  BY EditFacts DEF EditorState
<1> HIDE DEF e1, files
<1>9. /\ e \in EditorState /\ e.content = ed.content /\ e.attachments = ed.attachments
      /\ e.localFiles = ed.localFiles \cup files /\ e.pending = ed.pending
      /\ e.uploading = ed.uploading /\ e.saving = ed.saving /\ e.recorderBusy = FALSE
  BY <1>7, <1>8 DEF EditorState
<1> HIDE DEF e
<1>10. /\ ed' = e /\ Redrafted
       /\ timer' \in Draft \cup {NoDraft} /\ discarded' \in Draft \cup {NoDraft}
  BY <1>1, <1>9, EditFacts, DispatchEffect
<1>11. unsaved' = IF ~data THEN unsaved
                  ELSE IF saves = {} THEN unsaved \cup {v} ELSE unsaved \ {v}
  BY <1>1 DEF Owe
<1>12. mounted
  BY <1>1, ActiveIsMounted
<1>13. MicTyped' /\ mic'.live = {}
  BY <1>1, RecorderFacts DEF MicTyped
<1>14. MicInv'
  BY <1>6, <1>13, ZeroIsNoRequest DEF MicInv, MicrophoneIsShown
<1>15. ShapeInv'
  <2>1. unsaved' \subseteq Piece /\ done' \subseteq Piece
    BY <1>1, <1>11, EditFacts, PiecesApart
  <2> QED
    BY <1>1, <1>6, <1>9, <1>10, <1>12, <1>13, <1>14, <2>1, RecorderKeepsShape
<1>16. DraftStays /\ Edited
  BY <1>1, <1>9, <1>10, EditFacts, QuietIsEdited DEF DraftStays
<1>17. data /\ ~transcribe => files = {v}
  BY DEF files
<1>18. DraftsInv'
  <2>1. unsaved' \subseteq InEditor'
    BY <1>1, <1>6, <1>9, <1>10, <1>11, <1>12, <1>17, EditFacts DEF InEditor
  <2>2. v \notin ed.attachments
    BY EditFacts, PiecesApart
  <2>3. rec'.texts \cap (ed'.content \cup ed'.attachments) = {}
    BY <1>1, <1>6, <1>9, <1>10, <2>2, EditFacts
  <2>4. saves # {} => unsaved' \subseteq unsaved /\ unsaved' \cap rec.texts \subseteq rec'.texts
    BY <1>6, <1>11
  <2>5. unsaved \subseteq LocalOnly => unsaved' \subseteq LocalOnly'
    BY <1>1, <1>6, <1>9, <1>10, <1>11, <1>17, <2>2, EditFacts, LocalOnlyNext
  <2> QED
    BY <1>1, <1>9, <1>10, <1>12, <1>16, <2>1, <2>3, <2>4, <2>5, EditFacts, EditKeeps
<1> QED
  BY <1>15, <1>18

\* The answer of the transcription keeps the invariant.
LEMMA TranscribedKeeps ==
  ASSUME EditorInv, NEW v \in Voice, NEW ok \in BOOLEAN, Transcribed(v, ok)
  PROVE  EditorInv'
<1> DEFINE r == [rec EXCEPT !.texts = @ \ {v}, !.isTranscribing = FALSE]
<1> DEFINE e1 == [ed EXCEPT !.content = @ \cup {v}]
<1> DEFINE e2 == [ed EXCEPT !.localFiles = @ \cup {v}]
<1> DEFINE e == IF ok THEN e1 ELSE e2
<1> USE DEF EditorInv
<1>1. /\ v \in rec.texts /\ rec' = r /\ Dispatch(e) /\ Owe({v}) /\ Edited
      /\ UNCHANGED <<parent, mounted, stored, saves, jobs, mic>>
  BY DEF Transcribed
<1>2. /\ IsRecorder(r) /\ r.status = rec.status /\ r.recorder = rec.recorder
      /\ r.current = rec.current /\ r.ref = rec.ref /\ r.texts = rec.texts \ {v}
  BY RecorderFacts DEF IsRecorder
<1>3. /\ e1 \in EditorState /\ e1.content = ed.content \cup {v} /\ e1.attachments = ed.attachments
      /\ e1.localFiles = ed.localFiles /\ e1.pending = ed.pending
      /\ e1.uploading = ed.uploading /\ e1.saving = ed.saving
      /\ e1.recorderBusy = ed.recorderBusy
  BY EditFacts, PiecesApart DEF EditorState
<1>4. /\ e2 \in EditorState /\ e2.content = ed.content /\ e2.attachments = ed.attachments
      /\ e2.localFiles = ed.localFiles \cup {v} /\ e2.pending = ed.pending
      /\ e2.uploading = ed.uploading /\ e2.saving = ed.saving
      /\ e2.recorderBusy = ed.recorderBusy
  BY EditFacts, PiecesApart DEF EditorState
<1> HIDE DEF r, e1, e2
<1>5. /\ e \in EditorState /\ e.content = ed.content \cup (IF ok THEN {v} ELSE {})
      /\ e.attachments = ed.attachments
      /\ e.localFiles = ed.localFiles \cup (IF ok THEN {} ELSE {v}) /\ e.pending = ed.pending
      /\ e.uploading = ed.uploading /\ e.saving = ed.saving
      /\ e.recorderBusy = ed.recorderBusy
  BY <1>3, <1>4
<1> HIDE DEF e
<1>6. /\ ed' = e /\ Redrafted
      /\ timer' \in Draft \cup {NoDraft} /\ discarded' \in Draft \cup {NoDraft}
  BY <1>1, <1>5, EditFacts, DispatchEffect
<1>7. unsaved' = IF saves = {} THEN unsaved \cup {v} ELSE unsaved \ {v}
  BY <1>1 DEF Owe
<1>8. mounted
  BY <1>1, ActiveIsMounted
<1>9. MicTyped' /\ MicInv'
  BY <1>1, <1>2, RecorderFacts DEF MicTyped, MicInv, MicrophoneIsShown
<1>10. isBusy(rec') <=> isBusy(rec)
  BY <1>1, <1>2 DEF isBusy
<1>11. ShapeInv'
  <2>1. unsaved' \subseteq Piece /\ done' \subseteq Piece
    BY <1>1, <1>7, EditFacts, PiecesApart, EditedKeepsDone
  <2>2. ed'.recorderBusy <=> isBusy(rec')
    BY <1>5, <1>6, <1>10 DEF ShapeInv, Mirrored
  <2> QED
    BY <1>1, <1>2, <1>5, <1>6, <1>8, <1>9, <1>10, <2>1, <2>2, RecorderKeepsShape
<1>12. DraftsInv'
  <2>1. unsaved' \subseteq InEditor'
    BY <1>1, <1>2, <1>5, <1>6, <1>7, <1>8, EditFacts DEF InEditor
  <2>2. v \notin ed.content \cup ed.attachments
    BY <1>1, EditFacts
  <2>3. rec'.texts \cap (ed'.content \cup ed'.attachments) = {}
    BY <1>1, <1>2, <1>5, <1>6, EditFacts
  <2>4. saves # {} => unsaved' \subseteq unsaved /\ unsaved' \cap rec.texts \subseteq rec'.texts
    BY <1>1, <1>2, <1>7
  <2>5. DraftStays /\ unsaved \subseteq LocalOnly => unsaved' \subseteq LocalOnly'
    BY <1>1, <1>2, <1>5, <1>6, <1>7, <2>2, EditFacts, LocalOnlyNext DEF DraftStays
  <2> QED
    BY <1>1, <1>5, <1>6, <1>8, <2>1, <2>3, <2>4, <2>5, EditFacts, EditKeeps
<1> QED
  BY <1>11, <1>12

-----------------------------------------------------------------------------
(* The cache, and the editor's coming and going.                           *)

\* What is written while the editor is open matters only when the page dies.
LEMMA CacheKeeps ==
  ASSUME EditorInv, mounted, discarded = NoDraft, stored' \in Draft,
         timer' \in Draft \cup {NoDraft},
         UNCHANGED <<parent, mounted, ed, discarded, saves, jobs, rec, mic, unsaved, done>>
  PROVE  EditorInv'
<1> USE DEF EditorInv
<1>1. ShapeInv'
  <2>1. \A x \in saves' : IsSave(x)
    BY DEF ShapeInv, Typed
  <2>2. Typed'
    BY <2>1 DEF ShapeInv, Typed
  <2>3. Mirrored' /\ ClosedIsClean' /\ OwnSaveFreezes'
    BY DEF ShapeInv, Mirrored, ClosedIsClean, OwnSaveFreezes
  <2>4. MicInv'
    BY DEF ShapeInv, MicInv, MicrophoneIsShown
  <2> QED
    BY <2>2, <2>3, <2>4 DEF ShapeInv
<1>2. DraftsInv'
  BY DEF DraftsInv, DiscardInv, OwedInv, NothingIsLost, DoneInv, SavedDraftStaysGone
<1> QED
  BY <1>1, <1>2

\* The delayed write of a draft keeps the invariant.
LEMMA WriteLaterKeeps ==
  ASSUME EditorInv, WriteLater
  PROVE  EditorInv'
<1>1. timer # NoDraft /\ timer \in Draft \cup {NoDraft}
  BY DEF WriteLater, EditorInv, ShapeInv, Typed
<1>2. mounted /\ discarded = NoDraft
  BY <1>1 DEF EditorInv, ShapeInv, ClosedIsClean, DraftsInv, DiscardInv
<1> QED
  BY <1>1, <1>2, CacheKeeps DEF WriteLater

\* A flush writes what is in the editor, unless that has just been saved.
LEMMA FlushEffect ==
  ASSUME EditorInv, mounted, flushDraft
  PROVE  \/ /\ discarded = DraftOf(ed) /\ timer = NoDraft /\ stored = Empty
            /\ UNCHANGED <<stored, timer>>
            /\ unsaved \subseteq LocalOnly
         \/ discarded = NoDraft /\ stored' = DraftOf(ed) /\ timer' = NoDraft
<1>1. DraftOf(ed) # NoDraft
  BY EditFacts, DraftOfEditor DEF EditorInv
<1>2. DiscardInv
  BY DEF EditorInv, DraftsInv
<1> QED
  BY <1>1, <1>2 DEF flushDraft, DiscardInv

\* Hiding the page keeps the invariant.
LEMMA HideKeeps ==
  ASSUME EditorInv, Hide
  PROVE  EditorInv'
<1>1. /\ mounted /\ flushDraft
      /\ UNCHANGED <<parent, mounted, ed, discarded, saves, jobs, rec, mic, unsaved, done>>
  BY DEF Hide
<1>2. CASE UNCHANGED <<stored, timer>>
  <2>1. ed \in EditorState /\ IsRecorder(rec) /\ MicTyped' /\ MicInv'
    BY <1>1, RecorderFacts, EditFacts DEF EditorInv, MicTyped, MicInv, MicrophoneIsShown
  <2> QED
    BY <1>1, <1>2, <2>1, UnnoticedKeeps
<1>3. CASE discarded = NoDraft /\ stored' = DraftOf(ed) /\ timer' = NoDraft
  <2>1. DraftOf(ed) \in Draft
    BY EditFacts, DraftOfEditor DEF EditorInv
  <2> QED
    BY <1>1, <1>3, <2>1, CacheKeeps
<1> QED
  BY <1>1, <1>2, <1>3, FlushEffect

\* Mounting the editor keeps the invariant.
LEMMA MountKeeps ==
  ASSUME EditorInv, Mount
  PROVE  EditorInv'
<1> DEFINE e1 == [createInitialState EXCEPT !.content = stored.content]
<1> DEFINE e == [e1 EXCEPT !.attachments = stored.attachments]
<1> USE DEF EditorInv
<1>1. /\ ~mounted /\ mounted' = TRUE /\ ed' = e /\ timer' = stored
      /\ UNCHANGED <<parent, stored, discarded, saves, jobs, rec, mic, unsaved, done>>
  BY DEF Mount
<1>2. stored \in Draft /\ stored.content \subseteq Piece /\ stored.attachments \subseteq Image
  BY DEF ShapeInv, Typed, Draft
<1>3. /\ e1 \in EditorState /\ e1.content = stored.content /\ e1.pending = 0
      /\ e1.uploading = FALSE /\ e1.recorderBusy = FALSE /\ e1.localFiles = {}
  BY <1>2, InitialEditor DEF EditorState
<1> HIDE DEF e1
<1>4. /\ e \in EditorState /\ e.content = stored.content /\ e.attachments = stored.attachments
      /\ e.pending = 0 /\ e.uploading = FALSE /\ e.recorderBusy = FALSE /\ e.localFiles = {}
  BY <1>2, <1>3 DEF EditorState
<1> HIDE DEF e
<1>5. /\ jobs = {} /\ rec = NewRecorder /\ discarded = NoDraft /\ \A s \in saves : ~s.own
  BY <1>1 DEF ShapeInv, ClosedIsClean
<1>6. Held(DraftOf(ed')) = Held(stored)
  BY <1>1, <1>4, DraftOfEditor DEF Held
<1>7. ShapeInv'
  <2>1. \A x \in saves' : IsSave(x)
    BY <1>1 DEF ShapeInv, Typed
  <2>2. Typed'
    BY <1>1, <1>2, <1>4, <2>1 DEF ShapeInv, Typed
  <2>3. Mirrored'
    BY <1>1, <1>4, <1>5, InitialRecorder, FS_EmptySet DEF Mirrored
  <2>4. ClosedIsClean' /\ OwnSaveFreezes'
    BY <1>1, <1>5 DEF ClosedIsClean, OwnSaveFreezes
  <2>5. MicInv'
    BY <1>1 DEF ShapeInv, MicInv, MicrophoneIsShown
  <2> QED
    BY <2>2, <2>3, <2>4, <2>5 DEF ShapeInv
<1>8. DraftsInv'
  <2>1. DiscardInv'
    BY <1>1, <1>5 DEF DiscardInv
  <2>2. OwedInv'
    BY <1>1, <1>5, <1>6, InitialRecorder DEF DraftsInv, OwedInv, NothingIsLost
  <2>3. DoneInv'
    BY <1>1, <1>6 DEF DraftsInv, DoneInv, SavedDraftStaysGone
  <2> QED
    BY <2>1, <2>2, <2>3 DEF DraftsInv
<1> QED
  BY <1>7, <1>8

\* The editor goes: what is still owed is in the cache, what is done is not.
LEMMA GoneKeeps ==
  ASSUME EditorInv, Gone, timer' = NoDraft, stored' \in Draft,
         \A s \in saves' : /\ IsSave(s) /\ ~s.own
                           /\ unsaved' \subseteq IF s.phase = "posting" THEN Sent(s) ELSE {},
         MicTyped', mic'.live = {},
         unsaved' \subseteq Held(stored'), unsaved' \subseteq Piece,
         done' \cap Held(stored') = {}, done' \subseteq Piece
  PROVE  EditorInv'
<1>1. /\ mounted' = FALSE /\ ed' = createInitialState /\ discarded' = NoDraft
      /\ jobs' = {} /\ rec' = NewRecorder
  BY DEF Gone
<1>2. ShapeInv'
  <2>1. Typed'
    BY <1>1, InitialEditor, InitialRecorder, FS_EmptySet DEF Typed, MicTyped
  <2>2. Mirrored'
    BY <1>1, InitialEditor, InitialRecorder, FS_EmptySet DEF Mirrored
  <2>3. ClosedIsClean' /\ OwnSaveFreezes'
    BY <1>1 DEF ClosedIsClean, OwnSaveFreezes
  <2>4. MicInv'
    BY <1>1, InitialRecorder, ZeroIsNoRequest DEF MicInv, MicrophoneIsShown
  <2> QED
    BY <2>1, <2>2, <2>3, <2>4 DEF ShapeInv
<1>3. DraftsInv'
  <2>1. DiscardInv' /\ DoneInv'
    BY <1>1 DEF DiscardInv, DoneInv, SavedDraftStaysGone
  <2>2. OwedInv'
    BY <1>1, InitialRecorder DEF OwedInv, NothingIsLost
  <2> QED
    BY <2>1, <2>2 DEF DraftsInv
<1> QED
  BY <1>2, <1>3 DEF EditorInv

\* What a flush leaves behind: it holds what the cache can hold of what is owed.
LEMMA FlushedHolds ==
  ASSUME EditorInv, mounted, unsaved' = unsaved \ LocalOnly, UNCHANGED done,
         \/ stored' = Empty /\ unsaved \subseteq LocalOnly
         \/ discarded = NoDraft /\ stored' = DraftOf(ed)
  PROVE  /\ stored' \in Draft /\ unsaved' \subseteq Held(stored') /\ unsaved' \subseteq Piece
         /\ done' \cap Held(stored') = {} /\ done' \subseteq Piece
         /\ \A s \in saves : unsaved' \subseteq IF s.phase = "posting" THEN Sent(s) ELSE {}
<1> USE DEF EditorInv
<1>1. Held(DraftOf(ed)) = ed.content \cup ed.attachments /\ DraftOf(ed) \in Draft
  BY EditFacts, DraftOfEditor
<1>2. ASSUME NEW s \in saves PROVE unsaved' \subseteq IF s.phase = "posting" THEN Sent(s) ELSE {}
  <2>1. unsaved \subseteq (IF s.phase = "posting" THEN Sent(s) ELSE {}) \cup rec.texts
    BY DEF DraftsInv, OwedInv
  <2>2. rec.texts \subseteq LocalOnly
    BY EditFacts
  <2> QED
    BY <2>1, <2>2
<1>3. CASE stored' = Empty /\ unsaved \subseteq LocalOnly
  BY <1>2, <1>3, EditFacts, DraftIsNoMark
<1>4. CASE discarded = NoDraft /\ stored' = DraftOf(ed)
  <2>1. done \cap Held(DraftOf(ed)) = {}
    BY <1>4 DEF DraftsInv, DoneInv
  <2>2. unsaved' \subseteq Held(stored')
    BY <1>1, <1>4, EditFacts DEF InEditor
  <2> QED
    BY <1>1, <1>2, <1>4, <2>1, <2>2, EditFacts
<1> QED
  BY <1>3, <1>4

\* Unmounting the editor keeps the invariant.
LEMMA UnmountKeeps ==
  ASSUME EditorInv, Unmount
  PROVE  EditorInv'
<1> DEFINE off(s) == [s EXCEPT !.own = FALSE]
<1> DEFINE stray == mic.stray \cup ({rec.current} \cap mic.waiting)
<1>1. /\ mounted /\ flushDraft /\ Gone /\ saves' = {off(s) : s \in saves}
      /\ mic' = [mic EXCEPT !.live = Closed, !.stray = stray]
      /\ unsaved' = unsaved \ LocalOnly /\ UNCHANGED done
  BY DEF Unmount
<1> HIDE DEF stray
<1>2. MicTyped' /\ mic'.live = {}
  BY <1>1, RecorderFacts DEF MicTyped
<1>3. ASSUME NEW s \in saves
      PROVE  IsSave(off(s)) /\ ~off(s).own /\ off(s).phase = s.phase /\ Sent(off(s)) = Sent(s)
  <2>1. IsSave(s)
    BY DEF EditorInv, ShapeInv, Typed
  <2> QED
    BY <2>1 DEF IsSave, Sent
<1>4. /\ stored' \in Draft /\ unsaved' \subseteq Held(stored') /\ unsaved' \subseteq Piece
      /\ done' \cap Held(stored') = {} /\ done' \subseteq Piece
      /\ \A s \in saves : unsaved' \subseteq IF s.phase = "posting" THEN Sent(s) ELSE {}
      /\ timer' = NoDraft
  BY <1>1, FlushEffect, FlushedHolds
<1>5. \A x \in saves' : /\ IsSave(x) /\ ~x.own
                        /\ unsaved' \subseteq IF x.phase = "posting" THEN Sent(x) ELSE {}
  <2> HIDE DEF off
  <2> QED
    BY <1>1, <1>3, <1>4
<1> QED
  BY <1>1, <1>2, <1>4, <1>5, GoneKeeps

\* A page that is gone has no save in flight and no open microphone.
LEMMA PageGoneEffect ==
  ASSUME PageGone
  PROVE  saves' = {} /\ MicTyped' /\ mic'.live = {}
BY DEF PageGone, NoMic, MicTyped

\* Leaving the page keeps the invariant.
LEMMA PageHideKeeps ==
  ASSUME EditorInv, PageHide
  PROVE  EditorInv'
<1>1. /\ mounted /\ Gone /\ PageGone /\ timer' = NoDraft
      /\ stored' = IF discarded = DraftOf(ed) THEN stored ELSE DraftOf(ed)
      /\ unsaved' = unsaved \ LocalOnly /\ UNCHANGED done
  BY DEF PageHide
<1>2. DraftOf(ed) # NoDraft /\ DiscardInv
  BY EditFacts, DraftOfEditor DEF EditorInv, DraftsInv
<1>3. \/ stored' = Empty /\ unsaved \subseteq LocalOnly
      \/ discarded = NoDraft /\ stored' = DraftOf(ed)
  BY <1>1, <1>2 DEF DiscardInv
<1>4. /\ stored' \in Draft /\ unsaved' \subseteq Held(stored') /\ unsaved' \subseteq Piece
      /\ done' \cap Held(stored') = {} /\ done' \subseteq Piece
  BY <1>1, <1>3, FlushedHolds
<1> QED
  BY <1>1, <1>4, PageGoneEffect, GoneKeeps

\* Killing the page keeps the invariant.
LEMMA KillKeeps ==
  ASSUME EditorInv, Kill
  PROVE  EditorInv'
<1>1. /\ Gone /\ PageGone /\ timer' = NoDraft /\ UNCHANGED stored
      /\ unsaved' = unsaved \cap Held(stored) /\ done' = done \ Held(stored)
  BY DEF Kill
<1>2. stored \in Draft /\ unsaved \subseteq Piece /\ done \subseteq Piece
  BY DEF EditorInv, ShapeInv, Typed
<1> QED
  BY <1>1, <1>2, PageGoneEffect, GoneKeeps

-----------------------------------------------------------------------------
(* The composer.                                                           *)

\* The first editor satisfies the invariant.
LEMMA InitIsClean == Init => EditorInv
<1> SUFFICES ASSUME Init PROVE EditorInv
  OBVIOUS
<1> USE DEF Init
<1>1. ShapeInv
  <2>1. Typed
    BY InitialEditor, InitialRecorder, DraftIsNoMark, FS_EmptySet DEF Typed, NoMic
  <2>2. Mirrored
    BY InitialEditor, InitialRecorder, FS_EmptySet DEF Mirrored
  <2>3. ClosedIsClean /\ OwnSaveFreezes
    BY DEF ClosedIsClean, OwnSaveFreezes
  <2>4. MicInv
    BY InitialRecorder, ZeroIsNoRequest DEF MicInv, MicrophoneIsShown, NoMic
  <2> QED
    BY <2>1, <2>2, <2>3, <2>4 DEF ShapeInv
<1>2. DraftsInv
  BY InitialRecorder DEF DraftsInv, DiscardInv, OwedInv, NothingIsLost, DoneInv,
     SavedDraftStaysGone
<1> QED
  BY <1>1, <1>2 DEF EditorInv

\* One step for each operation.
LEMMA EditorStep == EditorInv /\ [Next]_vars => EditorInv'
<1> SUFFICES ASSUME EditorInv, [Next]_vars PROVE EditorInv'
  OBVIOUS
<1>1. CASE UNCHANGED vars
  <2>1. IsRecorder(rec) /\ MicTyped' /\ MicInv'
    BY <1>1, RecorderFacts DEF vars, MicTyped, MicInv, MicrophoneIsShown
  <2> QED
    BY <1>1, <2>1, UnnoticedKeeps DEF vars
<1>2. CASE Edit
  BY <1>2, TypeKeeps, EraseKeeps, RemoveFileKeeps, AddFileKeeps, insertLocalImagesKeeps,
     RetryJobKeeps, dismissJobKeeps DEF Edit
<1>3. CASE Record
  BY <1>3, startRecordingKeeps, stopRecordingKeeps, CancelKeeps DEF Record
<1>4. CASE User
  BY <1>2, <1>3, <1>4, BeginSaveKeeps, MountKeeps, UnmountKeeps, PageHideKeeps, KillKeeps,
     HideKeeps DEF User
<1>5. ASSUME NEW s \in saves, Settled(s) PROVE EditorInv'
  BY <1>5, MemoSavedKeeps, CommentSavedKeeps, SaveFailsKeeps, MemoSaveEndsKeeps DEF Settled
<1>6. CASE RecordingStopped
  BY <1>6, StoppedKeeps DEF RecordingStopped
<1>7. CASE TranscriptionEnds
  BY <1>7, TranscribedKeeps DEF TranscriptionEnds
<1>8. CASE Browser
  BY <1>5, <1>6, <1>7, <1>8, WriteLaterKeeps, UploadNextKeeps, GrantedKeeps, NotGrantedKeeps
     DEF Browser
<1> QED
  BY <1>1, <1>4, <1>8 DEF Next

\* The inductive invariant holds throughout: the store and the recorder agree
\* with what runs, and the drafts with what is owed and done.
THEOREM EditorInvAlways == Spec => []EditorInv
BY InitIsClean, EditorStep, PTL DEF Spec

\* ComposerTypeOK: the store says of uploads and recordings what they are, so
\* that canSave is not misled, and no timer outlives the editor.
THEOREM ComposerTyped == Spec => []ComposerTypeOK
<1>1. EditorInv => ComposerTypeOK
  BY MirrorIsPublished DEF EditorInv, ShapeInv, Typed, EditorState, ClosedIsClean, ComposerTypeOK
<1> QED
  BY <1>1, EditorInvAlways, PTL

\* NothingIsLost: what the user has entered is in the editor or in the draft
\* until a save of it is acknowledged, through autosave, flushes, failed and
\* late saves, reloads and transcriptions (MemoEditor, cacheService).
THEOREM NothingIsLostAlways == Spec => []NothingIsLost
<1>1. EditorInv => NothingIsLost
  BY DEF EditorInv, DraftsInv, OwedInv
<1> QED
  BY <1>1, EditorInvAlways, PTL

\* SavedDraftStaysGone: no timer or flush that runs after a save brings its
\* draft back (discardDraft, flushDraft).
THEOREM SavedDraftsStayGone == Spec => []SavedDraftStaysGone
<1>1. EditorInv => SavedDraftStaysGone
  BY DEF EditorInv, DraftsInv, DoneInv
<1> QED
  BY <1>1, EditorInvAlways, PTL

\* SavesAreWhole: while an editor saves it neither uploads nor records
\* (canSave, insertLocalImages, startRecording).
THEOREM SavesAreAlwaysWhole == Spec => []SavesAreWhole
<1>1. EditorInv => SavesAreWhole
  BY DEF EditorInv, ShapeInv, OwnSaveFreezes, SavesAreWhole
<1> QED
  BY <1>1, EditorInvAlways, PTL

\* MicrophoneIsShown: an open microphone that the hook holds belongs to the
\* recording the editor shows (startRecording, resetRecorderRefs).
THEOREM OpenMicrophoneIsShown == Spec => []MicrophoneIsShown
<1>1. EditorInv => MicrophoneIsShown
  BY DEF EditorInv, ShapeInv, MicInv
<1> QED
  BY <1>1, EditorInvAlways, PTL
=============================================================================
