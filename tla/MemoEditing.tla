---------------------------- MODULE MemoEditing ----------------------------
(***************************************************************************)
(* Editing memos and their attachments.  A handler of the API reads the    *)
(* memo, then its attachments, decides from the two what to write, and     *)
(* hands the store a mutation; the store's transaction compares the state  *)
(* the mutation was built on with the rows of that moment and refuses it   *)
(* when they differ (ErrMemoMutationConflict).  Requests of one author     *)
(* (several tabs, a retry, an AI proposal) run side by side.               *)
(*                                                                         *)
(* The author's right to write, and memos in Spaces, are in SpaceMemos.    *)
(***************************************************************************)
EXTENDS FiniteSets

CONSTANTS
    Memo,       \* memo ids, used once
    Content,    \* memo contents
    Location,   \* values of the location field
    Attachment, \* attachment ids, used once
    Request,    \* requests that may be in progress at once
    Refs,       \* Refs[c]: the attachments content c shows as managed images
    Mask,       \* the update masks that clients send
    Expecting   \* the masks that clients send together with expected_content

ASSUME RefsType == Refs \in [Content -> SUBSET Attachment]
ASSUME MaskType ==
    /\ Mask \subseteq SUBSET {"content", "location", "attachments"}
    /\ Expecting \subseteq Mask

\* A memo_id is told apart from the marks of an attachment row.
ASSUME MarksAreNoMemos == Memo \cap {"UNUSED", "FREE", "DELETED"} = {}

VARIABLES
    memo,       \* memo[m]: the memo row
    binding,    \* binding[a]: the memo_id of the attachment row, or its absence
    request     \* request[r]: what the handler of r has read and prepared

vars == <<memo, binding, request>>

-----------------------------------------------------------------------------
(* Rows and requests.                                                      *)

\* tags is the content that payload.tags was extracted from.
MemoRow == [content : Content, tags : Content, location : Location]

NoMemo == [status |-> "UNUSED"]
GoneMemo == [status |-> "DELETED"]

MemoExists(m) == memo[m] \in MemoRow

\* An attachment row has a memo_id or NULL ("FREE").
RowExists(a) == binding[a] \in Memo \cup {"FREE"}

Idle == [phase |-> "idle"]

None == "NONE"

Attached(m) == {a \in Attachment : binding[a] = m}

\* What UpdateMemo and CreateMemo hand to the store.  row has the columns to
\* write; a plain UpdateMemo has no expectations (mutation = FALSE).
Prepared == [phase : {"create", "update"}, memo : Memo, mutation : BOOLEAN,
             expected : Content, paths : SUBSET {"content", "payload"}, row : MemoRow,
             kept : SUBSET Attachment, added : SUBSET Attachment,
             removed : SUBSET Attachment, required : SUBSET Attachment]

-----------------------------------------------------------------------------
(* CreateMemo, UpdateMemo and SetMemoAttachments: the handlers.            *)

\* prepareMemoCreate: the attachments must be free and cover the references.
PrepareCreate(r, m, c, l, as) ==
    /\ request[r] = Idle
    /\ memo[m] = NoMemo
    /\ \A a \in as : binding[a] = "FREE"
    /\ Refs[c] \subseteq as
    /\ request' = [request EXCEPT ![r] =
         [phase |-> "create", memo |-> m, mutation |-> TRUE, expected |-> c,
          paths |-> {"content", "payload"},
          row |-> [content |-> c, tags |-> c, location |-> l],
          kept |-> {}, added |-> as, removed |-> {}, required |-> Refs[c]]]
    /\ UNCHANGED <<memo, binding>>

\* The handler's first read, of the memo.  A field the mask does not name is
\* not used: it is given what the memo has.
ReadMemo(r, m, mask, c, l, as, e) ==
    /\ request[r] = Idle
    /\ MemoExists(m)
    /\ mask # {}
    /\ "content" \notin mask => c = memo[m].content
    /\ "location" \notin mask => l = memo[m].location
    /\ "attachments" \notin mask => as = {}
    /\ e # None => mask \in Expecting
    /\ request' = [request EXCEPT ![r] =
         [phase |-> "read", memo |-> m, seen |-> memo[m], mask |-> mask,
          content |-> c, location |-> l, attachments |-> as, expected |-> e]]
    /\ UNCHANGED <<memo, binding>>

\* normalizeMemoAttachmentRequest: a requested attachment is already here, or
\* free.
Attachable(m, as) == \A a \in as : binding[a] \in {m, "FREE"}

\* The attachments the memo would have.
FinalAttachments(q) ==
    IF "attachments" \in q.mask THEN q.attachments ELSE Attached(q.memo)

ReferencesChecked(q) == q.mask \cap {"content", "attachments"} # {}

\* content is written with a payload rebuilt from it; location is written
\* into a copy of the payload that was read.
NextRow(q) ==
    [content |-> q.content,
     tags |-> IF "content" \in q.mask THEN q.content ELSE q.seen.tags,
     location |-> IF "location" \in q.mask THEN q.location ELSE q.seen.location]

\* The second read, of the attachments, and the mutation built from both.
PrepareUpdate(r) ==
    LET q == request[r]
        current == Attached(q.memo)
    IN /\ q.phase = "read"
       /\ Attachable(q.memo, q.attachments)
       /\ ReferencesChecked(q) => Refs[q.content] \subseteq FinalAttachments(q)
       /\ request' = [request EXCEPT ![r] =
            [phase |-> "update", memo |-> q.memo,
             mutation |-> ReferencesChecked(q) \/ q.expected # None,
             expected |-> IF q.expected # None THEN q.expected ELSE q.seen.content,
             paths |-> {p \in {"content", "payload"} :
                          \/ "content" \in q.mask
                          \/ p = "payload" /\ "location" \in q.mask},
             row |-> NextRow(q),
             kept |-> q.attachments \cap current,
             added |-> q.attachments \ current,
             removed |-> IF "attachments" \in q.mask
                           THEN current \ q.attachments ELSE {},
             required |-> IF ReferencesChecked(q) THEN Refs[q.content] ELSE {}]]
       /\ UNCHANGED <<memo, binding>>

-----------------------------------------------------------------------------
(* ApplyMemoMutation and Store.UpdateMemo: the transactions.               *)

\* Mutant: a new binding does not look whether the attachment is still free.
BindableIfExists(q) ==
    /\ \A a \in q.kept : binding[a] = q.memo
    /\ \A a \in q.added : RowExists(a)

\* WasBoundToMemo: a kept attachment is still here, an added one still free.
Bindable(q) ==
    /\ \A a \in q.kept : binding[a] = q.memo
    /\ \A a \in q.added : binding[a] = "FREE"

Removable(q) == \A a \in q.removed : binding[a] = q.memo

RequiredBound(q) ==
    \A a \in q.required : binding[a] = q.memo \/ a \in q.added

MutationApplies(q) ==
    /\ q.phase = "update" => MemoExists(q.memo) /\ memo[q.memo].content = q.expected
    /\ q.phase = "create" => memo[q.memo] = NoMemo
    /\ Bindable(q)
    /\ Removable(q)
    /\ RequiredBound(q)

Applies(q) == IF q.mutation THEN MutationApplies(q) ELSE MemoExists(q.memo)

\* applyMemoUpdate writes the columns that are set.
Written(q) ==
    IF q.phase = "create" THEN q.row
    ELSE [content |-> IF "content" \in q.paths THEN q.row.content
                                               ELSE memo[q.memo].content,
          tags |-> IF "payload" \in q.paths THEN q.row.tags ELSE memo[q.memo].tags,
          location |-> IF "payload" \in q.paths THEN q.row.location
                                                ELSE memo[q.memo].location]

Commit(r) ==
    LET q == request[r]
    IN /\ q.phase \in {"create", "update"}
       /\ Applies(q)
       /\ memo' = [memo EXCEPT ![q.memo] = Written(q)]
       /\ binding' = [a \in Attachment |->
                        IF a \in q.added THEN q.memo
                        ELSE IF a \in q.removed THEN "DELETED" ELSE binding[a]]
       /\ request' = [request EXCEPT ![r] = Idle]

\* The transaction or the handler returns an error and nothing is written.
\* A request may also fail at any point, its context cancelled.
Abandon(r) ==
    /\ request[r] # Idle
    /\ request' = [request EXCEPT ![r] = Idle]
    /\ UNCHANGED <<memo, binding>>

-----------------------------------------------------------------------------
(* Attachments by themselves, and deleting memos.                          *)

\* Mutant: an attachment without a memo is stored with an empty memo_id.
CreateAttachmentEmptyMemo(a, m) ==
    /\ binding[a] = "UNUSED"
    /\ m = "FREE" \/ (m \in Memo /\ MemoExists(m))
    /\ binding' = [binding EXCEPT ![a] = IF m = "FREE" THEN "EMPTY" ELSE m]
    /\ UNCHANGED <<memo, request>>

\* CreateAttachment; the memo it names is checked by the insert's own
\* transaction.
CreateAttachment(a, m) ==
    /\ binding[a] = "UNUSED"
    /\ m = "FREE" \/ (m \in Memo /\ MemoExists(m))
    /\ binding' = [binding EXCEPT ![a] = m]
    /\ UNCHANGED <<memo, request>>

\* DeleteAttachment and BatchDeleteAttachments read the rows ...
ReadAttachments(r, as) ==
    /\ request[r] = Idle
    /\ as # {} /\ \A a \in as : RowExists(a)
    /\ request' = [request EXCEPT ![r] =
         [phase |-> "deleting", attachments |-> as,
          memos |-> {binding[a] : a \in as} \cap Memo]]
    /\ UNCHANGED <<memo, binding>>

\* ... then the memos they are bound to, whose contents must not show them.
PrepareDelete(r) ==
    LET q == request[r]
    IN /\ q.phase = "deleting"
       /\ \A m \in q.memos : /\ MemoExists(m)
                             /\ Refs[memo[m].content] \cap q.attachments = {}
       /\ request' = [request EXCEPT ![r] =
            [phase |-> "delete", attachments |-> q.attachments,
             expected |-> [m \in q.memos |-> memo[m].content]]]
       /\ UNCHANGED <<memo, binding>>

\* Mutant: only the bindings are compared, not the contents.
SnapshotsCurrentById(q) ==
    {binding[a] : a \in q.attachments} \cap Memo = DOMAIN q.expected

\* ValidateAttachmentDeletionMemoSnapshots and the content comparison.
SnapshotsCurrent(q) ==
    /\ {binding[a] : a \in q.attachments} \cap Memo = DOMAIN q.expected
    /\ \A m \in DOMAIN q.expected : MemoExists(m) /\ memo[m].content = q.expected[m]

CommitDelete(r) ==
    LET q == request[r]
    IN /\ q.phase = "delete"
       /\ \A a \in q.attachments : RowExists(a)
       /\ SnapshotsCurrent(q)
       /\ binding' = [a \in Attachment |->
                        IF a \in q.attachments THEN "DELETED" ELSE binding[a]]
       /\ request' = [request EXCEPT ![r] = Idle]
       /\ UNCHANGED memo

\* Mutant: the attachments of the deleted memo keep their binding.
DeleteMemoRowOnly(m) ==
    /\ MemoExists(m)
    /\ memo' = [memo EXCEPT ![m] = GoneMemo]
    /\ UNCHANGED <<binding, request>>

\* DeleteMemoWithPolicy takes the attachment rows along.
DeleteMemo(m) ==
    /\ MemoExists(m)
    /\ memo' = [memo EXCEPT ![m] = GoneMemo]
    /\ binding' = [a \in Attachment |->
                     IF binding[a] = m THEN "DELETED" ELSE binding[a]]
    /\ UNCHANGED request

-----------------------------------------------------------------------------
(* The system.                                                             *)

Init ==
    /\ memo = [m \in Memo |-> NoMemo]
    /\ binding = [a \in Attachment |-> "UNUSED"]
    /\ request = [r \in Request |-> Idle]

HandlerNext(r) ==
    \/ \E m \in Memo, c \in Content, l \in Location, as \in SUBSET Attachment :
         PrepareCreate(r, m, c, l, as)
    \/ \E m \in Memo, mask \in Mask, c \in Content, l \in Location,
          as \in SUBSET Attachment, e \in Content \cup {None} :
         ReadMemo(r, m, mask, c, l, as, e)
    \/ PrepareUpdate(r)
    \/ Commit(r)
    \/ \E as \in SUBSET Attachment : ReadAttachments(r, as)
    \/ PrepareDelete(r)
    \/ CommitDelete(r)
    \/ Abandon(r)

Next ==
    \/ \E r \in Request : HandlerNext(r)
    \/ \E a \in Attachment, m \in Memo \cup {"FREE"} : CreateAttachment(a, m)
    \/ \E m \in Memo : DeleteMemo(m)

Spec == Init /\ [][Next]_vars

-----------------------------------------------------------------------------
(* Properties.                                                             *)

\* Rows and prepared requests have their declared types.
EditingTypeOK ==
    /\ memo \in [Memo -> MemoRow \cup {NoMemo, GoneMemo}]
    /\ binding \in [Attachment -> Memo \cup {"UNUSED", "FREE", "DELETED"}]
    /\ \A r \in Request : request[r].phase \in {"create", "update"} =>
         request[r] \in Prepared

\* No attachment row outlives its memo, although requests that bind
\* attachments are prepared before the memo is deleted and the schema has no
\* foreign key.
NoDanglingAttachment == \A a \in Attachment : binding[a] \in Memo => MemoExists(binding[a])

\* Every managed image in a memo's content is an attachment of that memo,
\* whatever edits, attachment changes and attachment deletions were prepared
\* side by side: a reader never meets a broken or a foreign image.
ReferencesBound ==
    \A m \in Memo : MemoExists(m) => Refs[memo[m].content] \subseteq Attached(m)

\* An attachment never changes memo: once bound it stays until its row goes,
\* even when two memos claim the same free attachment at once.
BindingIsFinal ==
    [][\A a \in Attachment : binding[a] \in Memo =>
         binding'[a] \in {binding[a], "DELETED"}]_binding

\* "Memo Markdown is the source of truth for tags": the stored tags are those
\* of the stored content.
TagsAreDerived == \A m \in Memo : MemoExists(m) => memo[m].tags = memo[m].content
=============================================================================
