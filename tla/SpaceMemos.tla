----------------------------- MODULE SpaceMemos -----------------------------
(***************************************************************************)
(* Memos placed in Spaces: their author, audience, placement and bearer    *)
(* shares, on top of the membership store of module Spaces.                *)
(*                                                                         *)
(* Store transactions are atomic, as in Spaces.  The UpdateMemo handler is *)
(* not: it reads the memo, decides from what it read whether the request   *)
(* may use the lifecycle exception of a removed author, and only later     *)
(* runs the transaction, which validates the request against the rows of   *)
(* that moment (ValidateMemoWriteSnapshot).  A request in between is a     *)
(* record in inflight, and any other operation may come first.             *)
(***************************************************************************)
EXTENDS Spaces

CONSTANTS
    Memo,       \* memo ids, used once
    Share,      \* slots for memo_share rows
    Request,    \* UpdateMemo requests that may be in flight at once
    Audience    \* the audiences other than SPACE

ASSUME AudienceIsNotSpace == "SPACE" \notin Audience

VARIABLES
    memo,       \* memo[m]: the memo row
    share,      \* share[x]: the memo_share row in slot x
    inflight    \* inflight[q]: the update a handler has prepared

memoVars == <<memo, share, inflight>>
allVars == <<vars, memoVars>>

-----------------------------------------------------------------------------
(* Rows.                                                                   *)

Visibility == Audience \cup {"SPACE"}

NoSpace == "NONE"

\* content stands for everything in the row that is neither the placement,
\* the audience nor the archive state; a bit tells whether it changed.
MemoRow == [creator : User, state : {"NORMAL", "ARCHIVED"}, content : {0, 1},
            visibility : Visibility, space : Space \cup {NoSpace}]

Unused == [state |-> "UNUSED"]
Deleted == [state |-> "DELETED"]

NoShare == [status |-> "NONE"]

ShareRow == [status : {"ACTIVE", "EXPIRED"}, memo : Memo]

\* The paths of an update mask: the placement, the audience, and all others
\* together (content, state, pinned, attachments and so on).
Path == {"space", "visibility", "other"}

Update == [memo : Memo, actor : User, paths : SUBSET Path,
           space : Space \cup {NoSpace}, visibility : Visibility,
           lifecycleOnly : BOOLEAN]

Idle == [paths |-> {}]

-----------------------------------------------------------------------------
(* What the transactions read.                                             *)

MemoExists(m) == memo[m].state \in {"NORMAL", "ARCHIVED"}

\* A memo in slot NoSpace is personal; otherwise the space must exist.
PlacementWritable(s) == s # NoSpace => SpaceExists(s)

\* sqliteSpaceMemberActive.
PlacementMember(s, u) == s # NoSpace => ActiveMember(s, u)

HasActiveShare(m) ==
    \E x \in Share : share[x].status = "ACTIVE" /\ share[x].memo = m

\* Mutant: the shares of a deleted memo are kept with a null reference.
DeleteMemoSetNullShares(ms) ==
    /\ memo' = [m \in Memo |-> IF m \in ms THEN Deleted ELSE memo[m]]
    /\ share' = [x \in Share |->
                   IF share[x] # NoShare /\ share[x].memo \in ms
                     THEN [share[x] EXCEPT !.memo = "NULL"] ELSE share[x]]
    /\ UNCHANGED inflight

\* Deleting memos takes their shares along (deleteSQLiteMemoSetTx).
DeleteMemoSet(ms) ==
    /\ memo' = [m \in Memo |-> IF m \in ms THEN Deleted ELSE memo[m]]
    /\ share' = [x \in Share |->
                   IF share[x] # NoShare /\ share[x].memo \in ms
                     THEN NoShare ELSE share[x]]
    /\ UNCHANGED inflight

-----------------------------------------------------------------------------
(* Creating and deleting memos.                                            *)

CreateMemo(m, u, v, s) ==
    /\ memo[m] = Unused
    /\ ActiveUser(u)
    /\ PlacementWritable(s) /\ PlacementMember(s, u)
    /\ v = "SPACE" => s # NoSpace
    /\ memo' = [memo EXCEPT ![m] =
                  [creator |-> u, state |-> "NORMAL", content |-> 0,
                   visibility |-> v, space |-> s]]
    /\ UNCHANGED <<vars, share, inflight>>

\* The author may delete a memo whether or not it can still read it.
DeleteMemo(m, actor) ==
    /\ ActiveUser(actor)
    /\ MemoExists(m) /\ memo[m].creator = actor
    /\ DeleteMemoSet({m})
    /\ UNCHANGED vars

\* Mutant: an administrator deletes only the memos of its own.
DeleteSpaceWithOwnMemos(s, actor) ==
    /\ DeleteSpace(s, actor)
    /\ DeleteMemoSet({m \in Memo : /\ MemoExists(m) /\ memo[m].space = s
                                 /\ memo[m].creator = actor})

\* DeleteSpace and DeleteUser of Spaces, with the memos they take along.
DeleteSpaceWithMemos(s, actor) ==
    /\ DeleteSpace(s, actor)
    /\ DeleteMemoSet({m \in Memo : MemoExists(m) /\ memo[m].space = s})

DeleteUserWithMemos(u) ==
    /\ DeleteUser(u)
    /\ DeleteMemoSet({m \in Memo : MemoExists(m) /\ memo[m].creator = u})

-----------------------------------------------------------------------------
(* UpdateMemo.                                                             *)

ResultSpace(q) ==
    IF "space" \in q.paths THEN q.space ELSE memo[q.memo].space

ResultVisibility(q) ==
    IF "visibility" \in q.paths THEN q.visibility ELSE memo[q.memo].visibility

SpaceChanged(q) == ResultSpace(q) # memo[q.memo].space

\* The handler: everything it checks before it calls the store.  A field the
\* mask does not name carries nothing: it is given one fixed value.
PrepareUpdateMemo(r, q) ==
    /\ inflight[r] = Idle
    /\ q.paths # {}
    /\ "space" \notin q.paths => q.space = NoSpace
    /\ "visibility" \notin q.paths => q.visibility = "SPACE"
    /\ MemoExists(q.memo) /\ memo[q.memo].creator = q.actor
    /\ ActiveUser(q.actor)
    /\ "space" \in q.paths =>
         PlacementWritable(q.space) /\ PlacementMember(q.space, q.actor)
    /\ q.lifecycleOnly = (/\ "space" \in q.paths
                          /\ q.paths \subseteq {"space", "visibility"}
                          /\ SpaceChanged(q))
    /\ ResultVisibility(q) = "SPACE" => ResultSpace(q) # NoSpace
    /\ memo[q.memo].visibility = "SPACE" /\ SpaceChanged(q) =>
         "visibility" \in q.paths
    /\ inflight' = [inflight EXCEPT ![r] = q]
    /\ UNCHANGED <<vars, memo, share>>

\* The source placement: a removed author may act only on the lifecycle
\* exception, which covers a real move and nothing else.
SourceWritable(q) ==
    /\ PlacementWritable(memo[q.memo].space)
    /\ IF q.lifecycleOnly
         THEN /\ "space" \in q.paths
              /\ q.paths \subseteq {"space", "visibility"}
              /\ SpaceChanged(q)
         ELSE PlacementMember(memo[q.memo].space, q.actor)

\* Mutant: membership of the target is left to the handler's check.
TargetExists(q) == "space" \in q.paths => PlacementWritable(q.space)

TargetWritable(q) ==
    "space" \in q.paths =>
        PlacementWritable(q.space) /\ PlacementMember(q.space, q.actor)

\* Moving a memo with audience SPACE changes who can read it: the request
\* has to state the audience.
AudienceConfirmed(q) ==
    /\ SpaceChanged(q) /\ memo[q.memo].visibility = "SPACE" =>
         "visibility" \in q.paths
    /\ ResultVisibility(q) = "SPACE" => ResultSpace(q) # NoSpace

\* Mutant: shares are looked for only when the memo also moves.
ShareFreeWhenMoved(q) ==
    "visibility" \in q.paths /\ q.visibility = "SPACE" /\ SpaceChanged(q) =>
        ~HasActiveShare(q.memo)

ShareFree(q) ==
    "visibility" \in q.paths /\ q.visibility = "SPACE" => ~HasActiveShare(q.memo)

\* ValidateMemoWriteSnapshot, on the rows the write transaction reads.
ValidateMemoWriteSnapshot(q) ==
    /\ ActiveUser(q.actor)
    /\ MemoExists(q.memo) /\ memo[q.memo].creator = q.actor
    /\ SourceWritable(q)
    /\ TargetWritable(q)
    /\ AudienceConfirmed(q)
    /\ ShareFree(q)

\* applyMemoUpdate.  The other paths rewrite the state and the content.
ApplyMemoUpdate(q) ==
    \E st \in {"NORMAL", "ARCHIVED"}, c \in {0, 1} :
        /\ "other" \notin q.paths =>
             st = memo[q.memo].state /\ c = memo[q.memo].content
        /\ memo' = [memo EXCEPT ![q.memo] =
                      [creator |-> @.creator, state |-> st, content |-> c,
                       visibility |-> ResultVisibility(q),
                       space |-> ResultSpace(q)]]

CommitUpdateMemo(r) ==
    /\ inflight[r] # Idle
    /\ ValidateMemoWriteSnapshot(inflight[r])
    /\ ApplyMemoUpdate(inflight[r])
    /\ inflight' = [inflight EXCEPT ![r] = Idle]
    /\ UNCHANGED <<vars, share>>

\* The transaction refuses the request and the handler returns the error.
RejectUpdateMemo(r) ==
    /\ inflight[r] # Idle
    /\ ~ValidateMemoWriteSnapshot(inflight[r])
    /\ inflight' = [inflight EXCEPT ![r] = Idle]
    /\ UNCHANGED <<vars, memo, share>>

-----------------------------------------------------------------------------
(* Shares.                                                                 *)

\* The part of the write policy that applies when there is no update.
MemoWritable(m, actor) ==
    /\ ActiveUser(actor)
    /\ MemoExists(m) /\ memo[m].creator = actor
    /\ PlacementWritable(memo[m].space)
    /\ PlacementMember(memo[m].space, actor)

CreateMemoShare(x, m, actor) ==
    /\ share[x] = NoShare
    /\ MemoWritable(m, actor)
    /\ memo[m].state = "NORMAL"
    /\ memo[m].visibility # "SPACE"
    /\ share' = [share EXCEPT ![x] = [status |-> "ACTIVE", memo |-> m]]
    /\ UNCHANGED <<vars, memo, inflight>>

DeleteMemoShare(x, actor) ==
    /\ share[x] # NoShare
    /\ MemoWritable(share[x].memo, actor)
    /\ share' = [share EXCEPT ![x] = NoShare]
    /\ UNCHANGED <<vars, memo, inflight>>

\* The clock passes expires_ts; the row stays.
ExpireMemoShare(x) ==
    /\ share[x].status = "ACTIVE"
    /\ share' = [share EXCEPT ![x].status = "EXPIRED"]
    /\ UNCHANGED <<vars, memo, inflight>>

-----------------------------------------------------------------------------
(* The store with memos.                                                   *)

MemosInit ==
    /\ Init
    /\ memo = [m \in Memo |-> Unused]
    /\ share = [x \in Share |-> NoShare]
    /\ inflight = [r \in Request |-> Idle]

\* The operations of Spaces that do not touch memos.
MembershipNext ==
    /\ \/ InvitationNext
       \/ MemberNext
       \/ \E u \in User : CreateUser(u) \/ ArchiveUser(u) \/ RestoreUser(u)
       \/ \E s \in Space, p \in Profile, actor \in User :
            CreateSpace(s, p, actor) \/ UpdateSpace(s, p, actor)
    /\ UNCHANGED memoVars

MemoNext ==
    \/ \E m \in Memo, u \in User, v \in Visibility, s \in Space \cup {NoSpace} :
         CreateMemo(m, u, v, s)
    \/ \E m \in Memo, u \in User : DeleteMemo(m, u)
    \/ \E s \in Space, u \in User : DeleteSpaceWithMemos(s, u)
    \/ \E u \in User : DeleteUserWithMemos(u)
    \/ \E r \in Request, q \in Update : PrepareUpdateMemo(r, q)
    \/ \E r \in Request : CommitUpdateMemo(r) \/ RejectUpdateMemo(r)

ShareNext ==
    \E x \in Share :
        \/ \E m \in Memo, u \in User : CreateMemoShare(x, m, u)
        \/ \E u \in User : DeleteMemoShare(x, u)
        \/ ExpireMemoShare(x)

MemosNext == MembershipNext \/ MemoNext \/ ShareNext

MemosSpec == MemosInit /\ [][MemosNext]_allVars

-----------------------------------------------------------------------------
(* Properties.                                                             *)

\* Memo, share and request records have their declared shape, and the tables
\* of Spaces theirs.
MemosTypeOK ==
    /\ TypeOK
    /\ memo \in [Memo -> MemoRow \cup {Unused, Deleted}]
    /\ share \in [Share -> ShareRow \cup {NoShare}]
    /\ inflight \in [Request -> Update \cup {Idle}]

\* No memo points at a space or an author that is gone, and no share at a
\* memo that is gone, although no foreign key says so and an update prepared
\* before a deletion may reach the store after it.
NoDanglingMemo ==
    /\ \A m \in Memo : MemoExists(m) =>
         UserExists(memo[m].creator) /\ PlacementWritable(memo[m].space)
    /\ \A x \in Share : share[x] # NoShare => MemoExists(share[x].memo)

\* A memo whose audience is SPACE is in a space and no unexpired bearer
\* share discloses it, whatever order shares, audience changes and moves
\* come in.
SpaceAudienceIsClosed ==
    \A m \in Memo : MemoExists(m) /\ memo[m].visibility = "SPACE" =>
        memo[m].space # NoSpace /\ ~HasActiveShare(m)

\* An author who is not, or no longer, an active member of the memo's space
\* can only take the memo out, to where the author may write; content,
\* archive state, and the audience in place stay as they are.  A memo only
\* ever enters a space whose active member its author is at that moment.
AuthorStep ==
    \A m \in Memo :
        /\ MemoExists(m) /\ memo'[m] # memo[m] /\ MemoExists(m)' =>
             \/ PlacementMember(memo[m].space, memo[m].creator)
             \/ /\ memo'[m].space # memo[m].space
                /\ memo'[m].content = memo[m].content
                /\ memo'[m].state = memo[m].state
        /\ MemoExists(m)' /\ ~(MemoExists(m) /\ memo[m].space = memo'[m].space) =>
             /\ PlacementMember(memo'[m].space, memo'[m].creator)
             /\ ActiveUser(memo'[m].creator)

RemovedAuthorOnlyWithdraws == [][AuthorStep]_allVars
=============================================================================
