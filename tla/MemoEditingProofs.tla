-------------------------- MODULE MemoEditingProofs --------------------------
(***************************************************************************)
(* Proofs about MemoEditing, for any memos, contents, attachments, masks    *)
(* and number of requests in progress.                                     *)
(***************************************************************************)
EXTENDS MemoEditing, TLAPS

-----------------------------------------------------------------------------
(* The shapes of the requests, which EditingTypeOK leaves open.             *)

Reading ==
    [phase : {"read"}, memo : Memo, seen : MemoRow, mask : Mask, content : Content,
     location : Location, attachments : SUBSET Attachment, expected : Content \cup {None}]

Deleting == [phase : {"deleting"}, attachments : SUBSET Attachment, memos : SUBSET Memo]

Snapshot == UNION {[ms -> Content] : ms \in SUBSET Memo}

Delete == [phase : {"delete"}, attachments : SUBSET Attachment, expected : Snapshot]

Typed ==
    /\ memo \in [Memo -> MemoRow \cup {NoMemo, GoneMemo}]
    /\ binding \in [Attachment -> Memo \cup {"UNUSED", "FREE", "DELETED"}]
    /\ request \in [Request -> {Idle} \cup Reading \cup Prepared \cup Deleting \cup Delete]

\* A request's phase tells its shape.
LEMMA PhaseShape ==
  ASSUME Typed, NEW r \in Request
  PROVE  /\ request[r].phase = "read" => request[r] \in Reading
         /\ request[r].phase \in {"create", "update"} => request[r] \in Prepared
         /\ request[r].phase = "deleting" => request[r] \in Deleting
         /\ request[r].phase = "delete" => request[r] \in Delete
         /\ request[r] \in Prepared => request[r].phase \in {"create", "update"}
BY DEF Typed, Idle, Reading, Prepared, Deleting, Delete

\* The rows of unused and of deleted ids are no memo rows.
LEMMA NoRows == NoMemo \notin MemoRow /\ GoneMemo \notin MemoRow
BY DEF NoMemo, GoneMemo, MemoRow

\* What the handler hands to the store is well formed when what it read is.
LEMMA PrepareUpdateType ==
  ASSUME Typed, NEW r \in Request, PrepareUpdate(r)
  PROVE  request'[r] \in Prepared
<1> DEFINE q == request[r]
<1>1. q \in Reading
  BY PhaseShape DEF PrepareUpdate
<1>2. NextRow(q) \in MemoRow
  BY <1>1 DEF NextRow, Reading, MemoRow
<1>3. Attached(q.memo) \subseteq Attachment
  BY DEF Attached
<1>4. Refs[q.content] \subseteq Attachment
  BY <1>1, RefsType DEF Reading
<1>5. (IF q.expected # None THEN q.expected ELSE q.seen.content) \in Content
  BY <1>1 DEF Reading, MemoRow
<1> QED
  BY <1>1, <1>2, <1>3, <1>4, <1>5 DEF PrepareUpdate, Prepared, Typed, Reading

\* Every step keeps the tables and the requests well formed.
LEMMA TypedStep == Typed /\ [Next]_vars => Typed'
<1> SUFFICES ASSUME Typed, [Next]_vars PROVE Typed'
  OBVIOUS
<1>1. ASSUME NEW r \in Request, NEW m \in Memo, NEW c \in Content, NEW l \in Location,
             NEW as \in SUBSET Attachment, PrepareCreate(r, m, c, l, as)
      PROVE  Typed'
  <2>1. Refs[c] \subseteq Attachment
    BY RefsType
  <2>2. request'[r] \in Prepared
    BY <1>1, <2>1 DEF PrepareCreate, Prepared, MemoRow, Typed
  <2> QED
    BY <1>1, <2>2 DEF PrepareCreate, Typed
<1>2. ASSUME NEW r \in Request, NEW m \in Memo, NEW mask \in Mask, NEW c \in Content,
             NEW l \in Location, NEW as \in SUBSET Attachment, NEW e \in Content \cup {None},
             ReadMemo(r, m, mask, c, l, as, e)
      PROVE  Typed'
  <2>1. request'[r] \in Reading
    BY <1>2 DEF ReadMemo, Reading, MemoExists, Typed
  <2> QED
    BY <1>2, <2>1 DEF ReadMemo, Typed
<1>3. ASSUME NEW r \in Request, PrepareUpdate(r) PROVE Typed'
  BY <1>3, PrepareUpdateType DEF PrepareUpdate, Typed
<1>4. ASSUME NEW r \in Request, Commit(r) PROVE Typed'
  <2> DEFINE q == request[r]
  <2>1. q \in Prepared /\ q.phase \in {"create", "update"} /\ Applies(q)
    BY <1>4, PhaseShape DEF Commit
  <2>2. Written(q) \in MemoRow
    BY <2>1 DEF Written, Applies, MutationApplies, MemoExists, Prepared, MemoRow
  <2>3. q.memo \in Memo /\ q.added \subseteq Attachment /\ q.removed \subseteq Attachment
    BY <2>1 DEF Prepared
  <2> QED
    BY <1>4, <2>2, <2>3 DEF Commit, Typed
<1>5. ASSUME NEW r \in Request, NEW as \in SUBSET Attachment, ReadAttachments(r, as)
      PROVE  Typed'
  BY <1>5 DEF ReadAttachments, Typed, Deleting
<1>6. ASSUME NEW r \in Request, PrepareDelete(r) PROVE Typed'
  <2> DEFINE q == request[r]
  <2>1. q \in Deleting
    BY <1>6, PhaseShape DEF PrepareDelete
  <2>2. [m \in q.memos |-> memo[m].content] \in [q.memos -> Content]
    BY <1>6, <2>1 DEF PrepareDelete, MemoExists, MemoRow, Deleting
  <2>3. [m \in q.memos |-> memo[m].content] \in Snapshot
    BY <2>1, <2>2 DEF Snapshot, Deleting
  <2>4. request'[r] \in Delete
    BY <1>6, <2>1, <2>3 DEF PrepareDelete, Delete, Deleting, Typed
  <2> QED
    BY <1>6, <2>4 DEF PrepareDelete, Typed
<1>7. ASSUME NEW r \in Request, CommitDelete(r) PROVE Typed'
  BY <1>7 DEF CommitDelete, Typed
<1>8. ASSUME NEW r \in Request, Abandon(r) PROVE Typed'
  BY <1>8 DEF Abandon, Typed
<1>9. ASSUME NEW a \in Attachment, NEW m \in Memo \cup {"FREE"}, CreateAttachment(a, m)
      PROVE  Typed'
  BY <1>9 DEF CreateAttachment, Typed
<1>10. ASSUME NEW m \in Memo, DeleteMemo(m) PROVE Typed'
  BY <1>10 DEF DeleteMemo, Typed
<1>11. CASE UNCHANGED vars
  BY <1>11 DEF vars, Typed
<1> QED
  BY <1>1, <1>2, <1>3, <1>4, <1>5, <1>6, <1>7, <1>8, <1>9, <1>10, <1>11
     DEF Next, HandlerNext

\* Rows and prepared requests have their declared types in every reachable
\* state, whatever clients ask for.
THEOREM EditingTyped == Spec => []EditingTypeOK
<1>1. Init => Typed
  BY DEF Init, Typed
<1>2. Typed => EditingTypeOK
  BY PhaseShape DEF Typed, EditingTypeOK
<1> QED
  BY <1>1, <1>2, TypedStep, PTL DEF Spec

-----------------------------------------------------------------------------
(* Bindings.  A plain UpdateMemo compares nothing with the rows, so that    *)
(* no attachment outlives its memo rests on what such a request carries:    *)
(* neither an attachment nor a content.                                     *)

\* A field the mask does not name has what the memo had when it was read.
ReadsAreSound ==
    \A r \in Request : request[r].phase = "read" =>
        /\ "attachments" \notin request[r].mask => request[r].attachments = {}
        /\ "content" \notin request[r].mask => request[r].content = request[r].seen.content

\* A request without expectations leaves content and attachments alone.
PlainIsHarmless ==
    \A r \in Request : request[r].phase \in {"create", "update"} /\ ~request[r].mutation =>
        /\ request[r].phase = "update"
        /\ request[r].added = {} /\ request[r].removed = {}
        /\ "content" \notin request[r].paths

RequestInv == Typed /\ ReadsAreSound /\ PlainIsHarmless

BindInv == RequestInv /\ NoDanglingAttachment

\* A step that changes no request but r, and gives r a phase that neither
\* ReadsAreSound nor PlainIsHarmless speaks of.
LEMMA OtherPhase ==
  ASSUME RequestInv, NEW r \in Request, NEW q, request' = [request EXCEPT ![r] = q],
         q.phase \in {"idle", "deleting", "delete"}
  PROVE  (ReadsAreSound /\ PlainIsHarmless)'
BY DEF RequestInv, Typed, ReadsAreSound, PlainIsHarmless

\* Every step keeps what handlers have read and prepared sound.
LEMMA RequestStep == RequestInv /\ [Next]_vars => RequestInv'
<1> SUFFICES ASSUME RequestInv, [Next]_vars PROVE (ReadsAreSound /\ PlainIsHarmless)'
  BY TypedStep DEF RequestInv
<1>1. ASSUME NEW r \in Request, NEW m \in Memo, NEW c \in Content, NEW l \in Location,
             NEW as \in SUBSET Attachment, PrepareCreate(r, m, c, l, as)
      PROVE  (ReadsAreSound /\ PlainIsHarmless)'
  BY <1>1 DEF PrepareCreate, RequestInv, Typed, ReadsAreSound, PlainIsHarmless
<1>2. ASSUME NEW r \in Request, NEW m \in Memo, NEW mask \in Mask, NEW c \in Content,
             NEW l \in Location, NEW as \in SUBSET Attachment, NEW e \in Content \cup {None},
             ReadMemo(r, m, mask, c, l, as, e)
      PROVE  (ReadsAreSound /\ PlainIsHarmless)'
  BY <1>2 DEF ReadMemo, RequestInv, Typed, ReadsAreSound, PlainIsHarmless
<1>3. ASSUME NEW r \in Request, PrepareUpdate(r)
      PROVE  (ReadsAreSound /\ PlainIsHarmless)'
  <2> DEFINE q == request[r]
  <2>1. q \in Reading /\ ("attachments" \notin q.mask => q.attachments = {})
    BY <1>3, PhaseShape DEF RequestInv, ReadsAreSound, PrepareUpdate
  <2>2. ~ReferencesChecked(q) => "attachments" \notin q.mask /\ "content" \notin q.mask
    BY DEF ReferencesChecked
  <2>3. /\ request'[r].phase = "update"
        /\ ~request'[r].mutation => /\ request'[r].added = {} /\ request'[r].removed = {}
                                    /\ "content" \notin request'[r].paths
    BY <1>3, <2>1, <2>2 DEF PrepareUpdate, RequestInv, Typed
  <2>4. \A x \in Request \ {r} : request'[x] = request[x]
    BY <1>3 DEF PrepareUpdate, RequestInv, Typed
  <2> QED
    BY <2>3, <2>4 DEF RequestInv, ReadsAreSound, PlainIsHarmless
<1>4. ASSUME NEW r \in Request, Commit(r) \/ CommitDelete(r) \/ Abandon(r)
      PROVE  (ReadsAreSound /\ PlainIsHarmless)'
  BY <1>4, OtherPhase DEF Commit, CommitDelete, Abandon, Idle
<1>5. ASSUME NEW r \in Request, NEW as \in SUBSET Attachment, ReadAttachments(r, as)
      PROVE  (ReadsAreSound /\ PlainIsHarmless)'
  BY <1>5, OtherPhase DEF ReadAttachments
<1>6. ASSUME NEW r \in Request, PrepareDelete(r) PROVE (ReadsAreSound /\ PlainIsHarmless)'
  BY <1>6, OtherPhase DEF PrepareDelete
<1>7. CASE UNCHANGED request
  BY <1>7 DEF RequestInv, ReadsAreSound, PlainIsHarmless
<1> QED
  BY <1>1, <1>2, <1>3, <1>4, <1>5, <1>6, <1>7
     DEF Next, HandlerNext, CreateAttachment, DeleteMemo, vars

\* A transaction that commits adds only free attachments, removes only those of
\* its own memo, and leaves that memo with a row.
LEMMA CommitEffect ==
  ASSUME RequestInv, NEW r \in Request, Commit(r)
  PROVE  /\ request[r] \in Prepared
         /\ memo' = [memo EXCEPT ![request[r].memo] = Written(request[r])]
         /\ memo'[request[r].memo] \in MemoRow
         /\ \A a \in request[r].added : binding[a] = "FREE"
         /\ \A a \in request[r].removed : binding[a] = request[r].memo
         /\ binding' = [a \in Attachment |->
                          IF a \in request[r].added THEN request[r].memo
                          ELSE IF a \in request[r].removed THEN "DELETED" ELSE binding[a]]
<1> DEFINE q == request[r]
<1>1. q \in Prepared /\ q.phase \in {"create", "update"} /\ Applies(q)
  BY PhaseShape DEF Commit, RequestInv
<1>2. Written(q) \in MemoRow
  BY <1>1 DEF Written, Applies, MutationApplies, MemoExists, Prepared, MemoRow
<1>3. memo'[q.memo] = Written(q)
  BY <1>1 DEF Commit, RequestInv, Typed, Prepared
<1>4. (\A a \in q.added : binding[a] = "FREE") /\ (\A a \in q.removed : binding[a] = q.memo)
  BY <1>1 DEF Applies, MutationApplies, Bindable, Removable, RequestInv, PlainIsHarmless
<1> QED
  BY <1>1, <1>2, <1>3, <1>4 DEF Commit

\* Every step keeps attachments with memos that exist.
LEMMA BindStep == BindInv /\ [Next]_vars => BindInv'
<1> SUFFICES ASSUME BindInv, [Next]_vars PROVE NoDanglingAttachment'
  BY RequestStep DEF BindInv
<1> USE MarksAreNoMemos
<1>1. ASSUME NEW r \in Request, Commit(r) PROVE NoDanglingAttachment'
  <2> DEFINE q == request[r]
  <2>1. q.memo \in Memo /\ memo \in [Memo -> MemoRow \cup {NoMemo, GoneMemo}]
    BY <1>1, CommitEffect DEF BindInv, RequestInv, Typed, Prepared
  <2>2. \A m \in Memo : MemoExists(m) => MemoExists(m)'
    BY <1>1, <2>1, CommitEffect DEF BindInv, MemoExists
  <2>3. ASSUME NEW a \in Attachment, binding'[a] \in Memo PROVE memo'[binding'[a]] \in MemoRow
    BY <1>1, <2>2, <2>3, CommitEffect DEF BindInv, NoDanglingAttachment, MemoExists
  <2> QED
    BY <2>3 DEF NoDanglingAttachment, MemoExists
<1>2. ASSUME NEW r \in Request, CommitDelete(r) PROVE NoDanglingAttachment'
  BY <1>2 DEF CommitDelete, BindInv, NoDanglingAttachment, MemoExists
<1>3. ASSUME NEW a \in Attachment, NEW m \in Memo \cup {"FREE"}, CreateAttachment(a, m)
      PROVE  NoDanglingAttachment'
  BY <1>3 DEF CreateAttachment, BindInv, RequestInv, Typed, NoDanglingAttachment, MemoExists
<1>4. ASSUME NEW m \in Memo, DeleteMemo(m) PROVE NoDanglingAttachment'
  BY <1>4 DEF DeleteMemo, BindInv, RequestInv, Typed, NoDanglingAttachment, MemoExists
<1>5. CASE UNCHANGED <<memo, binding>>
  BY <1>5 DEF BindInv, NoDanglingAttachment, MemoExists
<1> QED
  BY <1>1, <1>2, <1>3, <1>4, <1>5
     DEF Next, HandlerNext, PrepareCreate, ReadMemo, PrepareUpdate, ReadAttachments,
         PrepareDelete, Abandon, vars

\* Initially there is nothing.
LEMMA BindInit == Init => BindInv
BY MarksAreNoMemos
   DEF Init, BindInv, RequestInv, Typed, ReadsAreSound, PlainIsHarmless,
       NoDanglingAttachment, Idle

\* No attachment row outlives its memo, however requests that bind, remove and
\* delete attachments interleave with the deletion of the memo.
THEOREM AttachmentsHaveMemos == Spec => []NoDanglingAttachment
<1>1. BindInv => NoDanglingAttachment
  BY DEF BindInv
<1> QED
  BY <1>1, BindInit, BindStep, PTL DEF Spec

\* An attachment never changes memo, even when several requests claim it
\* while it is free: Commit re-reads the binding it was prepared for.
THEOREM BindingsAreFinal == Spec => BindingIsFinal
<1>1. BindInv /\ [Next]_vars =>
        [\A a \in Attachment : binding[a] \in Memo =>
           binding'[a] \in {binding[a], "DELETED"}]_binding
  <2> SUFFICES ASSUME BindInv, [Next]_vars, NEW a \in Attachment, binding[a] \in Memo,
                      binding' # binding
               PROVE  binding'[a] \in {binding[a], "DELETED"}
    OBVIOUS
  <2> USE MarksAreNoMemos
  <2>1. ASSUME NEW r \in Request, Commit(r) PROVE binding'[a] \in {binding[a], "DELETED"}
    BY <2>1, CommitEffect DEF BindInv
  <2>2. ASSUME NEW r \in Request, CommitDelete(r)
        PROVE  binding'[a] \in {binding[a], "DELETED"}
    BY <2>2 DEF CommitDelete
  <2>3. ASSUME NEW b \in Attachment, NEW m \in Memo \cup {"FREE"}, CreateAttachment(b, m)
        PROVE  binding'[a] \in {binding[a], "DELETED"}
    BY <2>3 DEF CreateAttachment, BindInv, RequestInv, Typed
  <2>4. ASSUME NEW m \in Memo, DeleteMemo(m) PROVE binding'[a] \in {binding[a], "DELETED"}
    BY <2>4 DEF DeleteMemo
  <2> QED
    BY <2>1, <2>2, <2>3, <2>4
       DEF Next, HandlerNext, PrepareCreate, ReadMemo, PrepareUpdate, ReadAttachments,
           PrepareDelete, Abandon, vars
<1> QED
  BY <1>1, BindInit, BindStep, PTL DEF Spec, BindingIsFinal

-----------------------------------------------------------------------------
(* References.  A mutation is checked against the content it expects; that  *)
(* the attachments it keeps cover the references of the content it leaves   *)
(* behind needs the two to agree.  They do unless a request names an        *)
(* expected_content without writing the content itself.                     *)

\* How clients use expected_content (the AI proposals of ProposalCard.tsx).
ExpectsWithContent == \A mask \in Expecting : "content" \in mask

ExpectationsAreOwn ==
    \A r \in Request : request[r].phase = "read" /\ request[r].expected # None =>
        "content" \in request[r].mask

\* A mutation requires the references of the content it leaves, and removes
\* none of them.
MutationsAreSound ==
    \A r \in Request : request[r].phase \in {"create", "update"} /\ request[r].mutation =>
        /\ request[r].required \cap request[r].removed = {}
        /\ request[r].phase = "create" => "content" \in request[r].paths
        /\ "content" \in request[r].paths =>
             Refs[request[r].row.content] \subseteq request[r].required
        /\ "content" \notin request[r].paths =>
             Refs[request[r].expected] \subseteq request[r].required

\* A deletion expects contents that do not show what it deletes.
DeletesAreSound ==
    \A r \in Request : request[r].phase = "delete" =>
        \A m \in DOMAIN request[r].expected :
            Refs[request[r].expected[m]] \cap request[r].attachments = {}

RefInv == BindInv /\ ExpectationsAreOwn /\ MutationsAreSound /\ DeletesAreSound
            /\ ReferencesBound

\* The three conditions on requests in progress speak of the request that a
\* step changes.
LEMMA OneRequest ==
  ASSUME RefInv, NEW r \in Request, NEW q, request' = [request EXCEPT ![r] = q],
         q.phase = "read" /\ q.expected # None => "content" \in q.mask,
         q.phase \in {"create", "update"} /\ q.mutation =>
            /\ q.required \cap q.removed = {}
            /\ q.phase = "create" => "content" \in q.paths
            /\ "content" \in q.paths => Refs[q.row.content] \subseteq q.required
            /\ "content" \notin q.paths => Refs[q.expected] \subseteq q.required,
         q.phase = "delete" => \A m \in DOMAIN q.expected :
            Refs[q.expected[m]] \cap q.attachments = {}
  PROVE  (ExpectationsAreOwn /\ MutationsAreSound /\ DeletesAreSound)'
<1>1. request'[r] = q /\ \A x \in Request \ {r} : request'[x] = request[x]
  BY DEF RefInv, BindInv, RequestInv, Typed
<1>2. ExpectationsAreOwn'
  BY <1>1 DEF RefInv, ExpectationsAreOwn
<1>3. MutationsAreSound'
  BY <1>1 DEF RefInv, MutationsAreSound
<1>4. DeletesAreSound'
  BY <1>1 DEF RefInv, DeletesAreSound
<1> QED
  BY <1>2, <1>3, <1>4

\* The mutation that a handler builds requires the references of the content
\* it leaves: of the one it writes, or of the one it has read and expects.
LEMMA PrepareUpdateSound ==
  ASSUME RefInv, NEW r \in Request, PrepareUpdate(r)
  PROVE  (ExpectationsAreOwn /\ MutationsAreSound /\ DeletesAreSound)'
<1> DEFINE q == request[r]
           p == request'[r]
<1>1. /\ q \in Reading
      /\ "content" \notin q.mask => q.content = q.seen.content
      /\ q.expected # None => "content" \in q.mask
      /\ "attachments" \notin q.mask => q.attachments = {}
  BY PhaseShape DEF RefInv, BindInv, RequestInv, ReadsAreSound, ExpectationsAreOwn,
     PrepareUpdate
<1>2. request' = [request EXCEPT ![r] = p]
  BY DEF PrepareUpdate, RefInv, BindInv, RequestInv, Typed
<1>3. /\ p.phase = "update"
      /\ p.mutation = (ReferencesChecked(q) \/ q.expected # None)
      /\ p.expected = IF q.expected # None THEN q.expected ELSE q.seen.content
      /\ "content" \in p.paths <=> "content" \in q.mask
      /\ p.row = NextRow(q)
      /\ p.removed = IF "attachments" \in q.mask
                       THEN Attached(q.memo) \ q.attachments ELSE {}
      /\ p.required = IF ReferencesChecked(q) THEN Refs[q.content] ELSE {}
  BY DEF PrepareUpdate, RefInv, BindInv, RequestInv, Typed
<1>4. p.mutation => ReferencesChecked(q)
  BY <1>1, <1>3 DEF ReferencesChecked
<1>5. p.mutation => Refs[q.content] \subseteq FinalAttachments(q)
  BY <1>4 DEF PrepareUpdate
<1>6. p.mutation => p.required \cap p.removed = {}
  BY <1>3, <1>4, <1>5 DEF FinalAttachments
<1>7. p.row.content = q.content
  BY <1>3 DEF NextRow
<1>8. "content" \notin q.mask => p.expected = q.content
  BY <1>1, <1>3
<1> QED
  BY <1>2, <1>3, <1>4, <1>6, <1>7, <1>8, OneRequest

\* Every step keeps what is in progress sound.
LEMMA ProgressStep ==
  ASSUME ExpectsWithContent, RefInv, [Next]_vars
  PROVE  (ExpectationsAreOwn /\ MutationsAreSound /\ DeletesAreSound)'
<1>1. ASSUME NEW r \in Request, NEW m \in Memo, NEW c \in Content, NEW l \in Location,
             NEW as \in SUBSET Attachment, PrepareCreate(r, m, c, l, as)
      PROVE  (ExpectationsAreOwn /\ MutationsAreSound /\ DeletesAreSound)'
  BY <1>1, OneRequest DEF PrepareCreate
<1>2. ASSUME NEW r \in Request, NEW m \in Memo, NEW mask \in Mask, NEW c \in Content,
             NEW l \in Location, NEW as \in SUBSET Attachment, NEW e \in Content \cup {None},
             ReadMemo(r, m, mask, c, l, as, e)
      PROVE  (ExpectationsAreOwn /\ MutationsAreSound /\ DeletesAreSound)'
  BY <1>2, OneRequest DEF ReadMemo, ExpectsWithContent
<1>3. ASSUME NEW r \in Request, Commit(r) \/ CommitDelete(r) \/ Abandon(r)
      PROVE  (ExpectationsAreOwn /\ MutationsAreSound /\ DeletesAreSound)'
  BY <1>3, OneRequest DEF Commit, CommitDelete, Abandon, Idle
<1>4. ASSUME NEW r \in Request, NEW as \in SUBSET Attachment, ReadAttachments(r, as)
      PROVE  (ExpectationsAreOwn /\ MutationsAreSound /\ DeletesAreSound)'
  BY <1>4, OneRequest DEF ReadAttachments
<1>5. ASSUME NEW r \in Request, PrepareDelete(r)
      PROVE  (ExpectationsAreOwn /\ MutationsAreSound /\ DeletesAreSound)'
  BY <1>5, OneRequest DEF PrepareDelete
<1>6. CASE UNCHANGED request
  BY <1>6 DEF RefInv, ExpectationsAreOwn, MutationsAreSound, DeletesAreSound
<1> QED
  BY <1>1, <1>2, <1>3, <1>4, <1>5, <1>6, PrepareUpdateSound
     DEF Next, HandlerNext, CreateAttachment, DeleteMemo, vars

\* A mutation leaves its memo with every reference bound to it.
LEMMA CommitBinds ==
  ASSUME RefInv, NEW r \in Request, Commit(r)
  PROVE  ReferencesBound'
<1> DEFINE q == request[r]
<1>1. /\ q \in Prepared /\ q.phase \in {"create", "update"} /\ Applies(q)
      /\ memo'[q.memo] = Written(q)
      /\ \A m \in Memo \ {q.memo} : memo'[m] = memo[m]
  BY CommitEffect, PhaseShape DEF Commit, RefInv, BindInv, RequestInv, Typed, Prepared
<1>2. \A a \in Attachment :
        /\ a \in q.added => binding'[a] = q.memo
        /\ a \notin q.added \cup q.removed => binding'[a] = binding[a]
        /\ a \in q.added => binding[a] = "FREE"
        /\ a \in q.removed => binding[a] = q.memo
  BY CommitEffect DEF RefInv, BindInv
<1>3. q.memo \in Memo
  BY <1>1 DEF Prepared
<1>4. ASSUME NEW m \in Memo, m # q.memo, MemoExists(m)'
      PROVE  Refs[memo'[m].content] \subseteq Attached(m)'
  <2>1. MemoExists(m) /\ memo'[m] = memo[m]
    BY <1>1, <1>4 DEF MemoExists
  <2>2. Refs[memo[m].content] \subseteq Attached(m)
    BY <2>1 DEF RefInv, ReferencesBound
  <2>3. Attached(m) \subseteq Attached(m)'
    BY <1>2, <1>4, MarksAreNoMemos DEF Attached
  <2> QED
    BY <2>1, <2>2, <2>3
<1>5. Refs[memo'[q.memo].content] \subseteq {a \in Attachment : binding'[a] = q.memo}
  <2>1. CASE q.mutation
    <3>1. /\ q.required \cap q.removed = {}
          /\ q.phase = "create" => "content" \in q.paths
          /\ "content" \in q.paths => Refs[q.row.content] \subseteq q.required
          /\ "content" \notin q.paths => Refs[q.expected] \subseteq q.required
      BY <1>1, <2>1 DEF RefInv, MutationsAreSound
    <3>2. /\ q.phase = "update" => memo[q.memo].content = q.expected
          /\ \A a \in q.required : binding[a] = q.memo \/ a \in q.added
      BY <1>1, <2>1 DEF Applies, MutationApplies, RequiredBound
    <3>3. Refs[memo'[q.memo].content] \subseteq q.required
      BY <1>1, <3>1, <3>2 DEF Written
    <3>4. q.required \subseteq {a \in Attachment : binding'[a] = q.memo}
      <4>1. q.required \subseteq Attachment
        BY <1>1 DEF Prepared
      <4> QED
        BY <1>2, <3>1, <3>2, <4>1
    <3> QED
      BY <3>3, <3>4
  <2>2. CASE ~q.mutation
    <3>1. q.added = {} /\ q.removed = {} /\ "content" \notin q.paths /\ q.phase = "update"
      BY <1>1, <2>2 DEF RefInv, BindInv, RequestInv, PlainIsHarmless
    <3>2. MemoExists(q.memo) /\ memo'[q.memo].content = memo[q.memo].content
      BY <1>1, <2>2, <3>1 DEF Applies, Written
    <3>3. Refs[memo[q.memo].content] \subseteq Attached(q.memo)
      BY <1>3, <3>2 DEF RefInv, ReferencesBound
    <3> QED
      BY <1>2, <3>1, <3>2, <3>3 DEF Attached
  <2> QED
    BY <2>1, <2>2
<1> QED
  BY <1>4, <1>5 DEF ReferencesBound, Attached

\* Attachments that are deleted are shown by no memo.
LEMMA CommitDeleteBinds ==
  ASSUME RefInv, NEW r \in Request, CommitDelete(r)
  PROVE  ReferencesBound'
<1> DEFINE q == request[r]
<1>1. q \in Delete /\ SnapshotsCurrent(q) /\ memo' = memo
  BY PhaseShape DEF CommitDelete, RefInv, BindInv, RequestInv
<1>2. \A m \in DOMAIN q.expected : Refs[q.expected[m]] \cap q.attachments = {}
  BY DEF RefInv, DeletesAreSound, CommitDelete
<1>3. ASSUME NEW m \in Memo, MemoExists(m), NEW a \in Refs[memo[m].content]
      PROVE  a \in Attached(m)'
  <2>1. a \in Attachment /\ binding[a] = m
    BY <1>3 DEF RefInv, ReferencesBound, Attached
  <2>2. a \notin q.attachments
    <3> SUFFICES ASSUME a \in q.attachments PROVE FALSE
      OBVIOUS
    <3>1. m \in DOMAIN q.expected
      BY <1>1, <2>1 DEF SnapshotsCurrent
    <3>2. memo[m].content = q.expected[m]
      BY <1>1, <3>1 DEF SnapshotsCurrent
    <3> QED
      BY <1>2, <1>3, <3>1, <3>2
  <2> QED
    BY <2>1, <2>2 DEF CommitDelete, Attached
<1> QED
  BY <1>1, <1>3 DEF ReferencesBound, MemoExists

\* The inductive invariant behind ReferencesBound.
LEMMA RefStep == ExpectsWithContent /\ RefInv /\ [Next]_vars => RefInv'
<1> SUFFICES ASSUME ExpectsWithContent, RefInv, [Next]_vars PROVE ReferencesBound'
  BY BindStep, ProgressStep DEF RefInv
<1>1. ASSUME NEW a \in Attachment, NEW m \in Memo \cup {"FREE"}, CreateAttachment(a, m)
      PROVE  ReferencesBound'
  <2>1. binding[a] \notin Memo
    BY <1>1, MarksAreNoMemos DEF CreateAttachment
  <2>2. \A n \in Memo : Attached(n) \subseteq Attached(n)'
    BY <1>1, <2>1 DEF CreateAttachment, Attached, RefInv, BindInv, RequestInv, Typed
  <2> QED
    BY <1>1, <2>2 DEF CreateAttachment, RefInv, ReferencesBound, MemoExists
<1>2. ASSUME NEW m \in Memo, DeleteMemo(m) PROVE ReferencesBound'
  <2>1. \A n \in Memo \ {m} : memo'[n] = memo[n] /\ Attached(n) \subseteq Attached(n)'
    BY <1>2 DEF DeleteMemo, Attached, RefInv, BindInv, RequestInv, Typed
  <2>2. ~MemoExists(m)'
    BY <1>2, NoRows DEF DeleteMemo, MemoExists, RefInv, BindInv, RequestInv, Typed
  <2> QED
    BY <2>1, <2>2 DEF RefInv, ReferencesBound, MemoExists
<1>3. CASE UNCHANGED <<memo, binding>>
  BY <1>3 DEF RefInv, ReferencesBound, MemoExists, Attached
<1> QED
  BY <1>1, <1>2, <1>3, CommitBinds, CommitDeleteBinds
     DEF Next, HandlerNext, PrepareCreate, ReadMemo, PrepareUpdate, ReadAttachments,
         PrepareDelete, Abandon, vars

\* Every managed image in a memo's content is an attachment of that memo,
\* whatever edits, attachment changes and deletions are prepared side by side,
\* provided that expected_content comes with a content (ExpectsWithContent).
THEOREM ReferencesAreBound == ExpectsWithContent /\ Spec => []ReferencesBound
<1> SUFFICES ASSUME ExpectsWithContent PROVE Spec => []ReferencesBound
  OBVIOUS
<1>1. Init => RefInv
  BY BindInit, NoRows
     DEF Init, RefInv, ExpectationsAreOwn, MutationsAreSound, DeletesAreSound,
         ReferencesBound, MemoExists, Idle
<1>2. RefInv /\ [Next]_vars => RefInv'
  BY RefStep
<1>3. RefInv => ReferencesBound
  BY DEF RefInv
<1> QED
  BY <1>1, <1>2, <1>3, PTL DEF Spec
=============================================================================
