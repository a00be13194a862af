------------------------ MODULE SpacesReadCommitted ------------------------
(***************************************************************************)
(* The Space transactions as the PostgreSQL driver runs them: at READ      *)
(* COMMITTED, statement by statement, with the row locks the code asks for *)
(* (SELECT ... FOR UPDATE) and those every UPDATE, DELETE and INSERT       *)
(* takes.                                                                  *)
(*                                                                         *)
(* The variables of Spaces hold the committed rows.  A transaction reads   *)
(* them one statement at a time, keeps what it has read in tx[t], and      *)
(* publishes its writes at COMMIT.  Programs give the order of statements, *)
(* Holds the condition under which a statement lets the transaction go on, *)
(* Locks the rows it locks and Writes what it writes.                      *)
(*                                                                         *)
(* A blocked statement is one that is not taken yet; when its rows are     *)
(* free it sees their latest committed version, as PostgreSQL does when it *)
(* rechecks a row after waiting for it.  An UPDATE or DELETE that matches  *)
(* no committed row waits for nothing.                                     *)
(***************************************************************************)
EXTENDS Spaces, Sequences

CONSTANTS
    Tx,         \* connections that may hold a transaction at once
    Requested   \* the names of the operations that clients ask for

VARIABLE tx     \* tx[t]: the transaction on connection t, or NoTx

rcVars == <<vars, tx>>

-----------------------------------------------------------------------------
(* Transactions.                                                           *)

\* Mutant: the role of a request is not validated.
RoleRequestAny ==
    [name : {"Invite", "UpdateMember"}, s : Space, u : User, actor : User,
     role : Role \cup {"OWNER"}]

\* Requests that carry a role, which the store validates.
RoleRequest ==
    [name : {"Invite", "UpdateMember"}, s : Space, u : User, actor : User, role : Role]

\* A request: the space s and the user u it is about, the acting user.
Op ==
    [name : {"CreateSpace"}, s : Space, u : User, p : Profile]
      \cup [name : {"UpdateSpace"}, s : Space, actor : User, p : Profile]
      \cup [name : {"DeleteSpace"}, s : Space, actor : User]
      \cup RoleRequest
      \cup [name : {"Revoke", "DeleteMember"}, s : Space, u : User, actor : User]
      \cup [name : {"Accept", "Decline"}, s : Space, u : User]
      \cup [name : {"Archive", "Restore", "DeleteUser"}, u : User]

NoTx == [pc |-> 0]

Running(t) == tx[t] # NoTx

-----------------------------------------------------------------------------
(* The statements of each operation, in the order of the code.             *)

CreateSpaceProgram == <<"lockUser", "insertSpace">>
UpdateSpaceProgram ==
    <<"readActorStatus", "readSpace", "readActorAdmin", "updateSpace", "readSummary">>
DeleteSpaceProgram ==
    <<"readActorStatus", "lockSpace", "readActorRole", "deleteSpaceMemos",
      "deleteMembers", "deleteSpace">>

\* Mutant: the invitee is read without FOR UPDATE.
InviteWithoutUserLock ==
    <<"readSpace", "readActorAdmin", "lockSpace", "readUser", "insertInvitation">>

InviteProgram ==
    <<"readSpace", "readActorAdmin", "lockSpace", "lockUser", "insertInvitation">>

\* Mutant: the invitee is read without FOR UPDATE.
AcceptWithoutUserLock == <<"readUser", "accept">>

\* Mutant: the invitation row is updated before the invitee is locked.
AcceptRowFirst == <<"accept", "lockUser">>

AcceptProgram == <<"lockUser", "accept">>
DeclineProgram == <<"readUser", "deleteInvitation">>
RevokeProgram == <<"readSpace", "readActorAdmin", "deleteInvitation">>
UpdateMemberProgram ==
    <<"readSpace", "readActorAdmin", "readUser", "readMember", "countAdmins", "updateRole">>
DeleteMemberProgram ==
    <<"readActorStatusUnlessSelf", "readUserStatus", "readSpace",
      "readActorRoleUnlessSelf", "readMember", "countAdmins", "deleteMember">>
ArchiveProgram == <<"checkArchive", "updateUser">>
RestoreProgram == <<"updateUser">>
DeleteUserProgram ==
    <<"lockUserRow", "countMemberships", "deleteInvitations", "deleteUserMemos",
      "deleteUser">>

Program(name) ==
    CASE name = "CreateSpace"  -> CreateSpaceProgram
      [] name = "UpdateSpace"  -> UpdateSpaceProgram
      [] name = "DeleteSpace"  -> DeleteSpaceProgram
      [] name = "Invite"       -> InviteProgram
      [] name = "Accept"       -> AcceptProgram
      [] name = "Decline"      -> DeclineProgram
      [] name = "Revoke"       -> RevokeProgram
      [] name = "UpdateMember" -> UpdateMemberProgram
      [] name = "DeleteMember" -> DeleteMemberProgram
      [] name = "Archive"      -> ArchiveProgram
      [] name = "Restore"      -> RestoreProgram
      [] name = "DeleteUser"   -> DeleteUserProgram

Statement(t) == Program(tx[t].op.name)[tx[t].pc]

Finished(t) == Running(t) /\ tx[t].pc > Len(Program(tx[t].op.name))

-----------------------------------------------------------------------------
(* What a statement needs to see.                                          *)

\* The count is taken only for an ADMIN that would stop being an active one,
\* by what earlier statements of the transaction have read.
CountApplies(t) ==
    /\ tx[t].sawAdmin
    /\ IF tx[t].op.name = "UpdateMember" THEN tx[t].op.role # "ADMIN"
                                         ELSE tx[t].sawNormal

Holds(t) ==
    LET o == tx[t].op
        st == Statement(t)
    IN CASE st \in {"lockUser", "readUser"}   -> ActiveUser(o.u)
         [] st \in {"lockUserRow", "updateUser"} -> UserExists(o.u)
         [] st \in {"readSpace", "lockSpace", "updateSpace", "deleteSpace"} ->
                                                 SpaceExists(o.s)
         [] st = "readActorAdmin"             -> o.actor \in ActiveAdmins(o.s)
         [] st = "readActorStatus"            -> ActiveUser(o.actor)
         [] st = "readActorRole"              -> AdminRow(o.s, o.actor)
         [] st = "readSummary"                -> ActiveUser(o.actor) /\ ActiveMember(o.s, o.actor)
         [] st = "readActorStatusUnlessSelf"  -> o.actor # o.u => ActiveUser(o.actor)
         [] st = "readActorRoleUnlessSelf"    -> o.actor # o.u => AdminRow(o.s, o.actor)
         [] st \in {"readMember", "updateRole"} -> ActiveMember(o.s, o.u)
         [] st = "countAdmins"                -> CountApplies(t) => AnotherAdmin(o.s)
         [] st = "checkArchive"               -> ActiveUser(o.u) => ~WouldLoseAdmin(o.u)
         [] st = "countMemberships"           -> \A s \in Space : ~ActiveMember(s, o.u)
         [] st = "insertSpace"                -> space[o.s] = "UNUSED"
         [] st = "insertInvitation"           -> member[o.s][o.u] = NoRow
         [] st = "accept"                     -> Invited(o.s, o.u)
         [] st = "deleteInvitation"           -> Invited(o.s, o.u)
         [] OTHER                             -> TRUE

-----------------------------------------------------------------------------
(* The rows a statement locks, and what it writes.                         *)

MemberRows(ss, us) == {<<"member", s, u>> : s \in ss, u \in us}

\* The memos of the users us in the spaces ss.  The rows themselves are not
\* kept here: every user is taken to have written a memo in every space.
MemoRows(ss, us) == {<<"memo", s, u>> : s \in ss, u \in us}

Locks(t) ==
    LET o == tx[t].op
        st == Statement(t)
    IN CASE st \in {"lockUser", "lockUserRow", "updateUser", "deleteUser"} ->
              {<<"user", o.u>>}
         [] st \in {"lockSpace", "updateSpace", "deleteSpace"} -> {<<"space", o.s>>}
         [] st = "insertSpace" /\ space[o.s] = "UNUSED" ->
              {<<"space", o.s>>} \cup MemberRows({o.s}, {o.u})
         [] st = "insertInvitation" -> MemberRows({o.s}, {o.u})
         [] st \in {"accept", "deleteInvitation"} ->
              MemberRows({o.s}, {u \in {o.u} : Invited(o.s, u)})
         [] st \in {"updateRole", "deleteMember"} ->
              MemberRows({o.s}, {u \in {o.u} : ActiveMember(o.s, u)})
         [] st = "deleteMembers" ->
              MemberRows({o.s}, {u \in User : member[o.s][u] # NoRow})
         [] st = "deleteInvitations" ->
              MemberRows({s \in Space : Invited(s, o.u)}, {o.u})
         [] st = "deleteSpaceMemos" -> MemoRows({o.s}, User)
         [] st = "deleteUserMemos" -> MemoRows(Space, {o.u})
         [] OTHER -> {}

\* The value each locked row gets at COMMIT.
Writes(t) ==
    LET o == tx[t].op
        st == Statement(t)
    IN CASE st \in {"deleteMembers", "deleteInvitations", "deleteInvitation",
                    "deleteMember"} ->
              {<<row, NoRow>> : row \in Locks(t)}
         [] st = "insertInvitation" ->
              {<<row, [status |-> "INVITED", role |-> o.role]>> : row \in Locks(t)}
         [] st = "accept" ->
              {<<row, [status |-> "ACTIVE", role |-> member[o.s][o.u].role]>> :
                 row \in Locks(t)}
         [] st = "updateRole" ->
              {<<row, [status |-> "ACTIVE", role |-> o.role]>> : row \in Locks(t)}
         [] st = "updateUser" ->
              {<<row, IF o.name = "Archive" THEN "ARCHIVED" ELSE "NORMAL">> :
                 row \in Locks(t)}
         [] st = "deleteUser" -> {<<row, "DELETED">> : row \in Locks(t)}
         [] st = "deleteSpace" ->
              {<<<<"space", o.s>>, "DELETED">>, <<<<"profile", o.s>>, NoProfile>>}
         [] st = "updateSpace" -> {<<<<"profile", o.s>>, o.p>>}
         [] st = "insertSpace" ->
              {<<<<"space", o.s>>, "LIVE">>, <<<<"profile", o.s>>, o.p>>,
               <<<<"member", o.s, o.u>>, [status |-> "ACTIVE", role |-> "ADMIN"]>>}
         [] OTHER -> {}

\* Locks of other transactions, which a statement waits for.
HeldByOthers(t) == UNION {tx[v].held : v \in {v \in Tx \ {t} : Running(v)}}

Blocked(t) == Running(t) /\ ~Finished(t) /\ Locks(t) \cap HeldByOthers(t) # {}

WaitsFor(t, v) == Blocked(t) /\ Running(v) /\ Locks(t) \cap tx[v].held # {}

-----------------------------------------------------------------------------
(* Steps.                                                                  *)

\* CreateUser is a single INSERT.
InsertUser(u) == CreateUser(u) /\ UNCHANGED tx

Begin(t, o) ==
    /\ ~Running(t)
    /\ o.name \in Requested
    /\ tx' = [tx EXCEPT ![t] = [op |-> o, pc |-> 1, held |-> {}, writes |-> {},
                                sawAdmin |-> FALSE, sawNormal |-> FALSE]]
    /\ UNCHANGED vars

\* The next statement, once its rows are free.  A SELECT only remembers.
Execute(t) ==
    /\ Running(t) /\ ~Finished(t) /\ ~Blocked(t)
    /\ Holds(t)
    /\ tx' = [tx EXCEPT
         ![t].pc = @ + 1,
         ![t].held = @ \cup Locks(t),
         ![t].writes = @ \cup Writes(t),
         ![t].sawAdmin = IF Statement(t) = "readMember"
                           THEN AdminRow(tx[t].op.s, tx[t].op.u) ELSE @,
         ![t].sawNormal = IF Statement(t) = "readUserStatus"
                            THEN ActiveUser(tx[t].op.u) ELSE @]
    /\ UNCHANGED vars

\* Mutant: the error path returns without its deferred Rollback.
LeakOnError(t) ==
    /\ Running(t) /\ ~Finished(t) /\ ~Blocked(t)
    /\ ~Holds(t)
    /\ UNCHANGED rcVars

\* The statement finds what makes the code return an error: the deferred
\* Rollback releases the locks and nothing was written.
RollbackOnError(t) ==
    /\ Running(t) /\ ~Finished(t) /\ ~Blocked(t)
    /\ ~Holds(t)
    /\ tx' = [tx EXCEPT ![t] = NoTx]
    /\ UNCHANGED vars

\* The request is cancelled, or its connection is lost.
Cancel(t) ==
    /\ Running(t)
    /\ tx' = [tx EXCEPT ![t] = NoTx]
    /\ UNCHANGED vars

\* The server's deadlock detector aborts one of two transactions that wait
\* for each other; the code returns the error and rolls back.
DeadlockVictim(t) ==
    /\ \E v \in Tx : WaitsFor(t, v) /\ WaitsFor(v, t)
    /\ tx' = [tx EXCEPT ![t] = NoTx]
    /\ UNCHANGED vars

\* The value of a row after the writes w, where old is the value before.
After(w, row, old) ==
    IF \E v \in w : v[1] = row THEN (CHOOSE v \in w : v[1] = row)[2] ELSE old

Commit(t) ==
    /\ Finished(t)
    /\ LET w == tx[t].writes
       IN /\ user' = [u \in User |-> After(w, <<"user", u>>, user[u])]
          /\ space' = [s \in Space |-> After(w, <<"space", s>>, space[s])]
          /\ profile' = [s \in Space |-> After(w, <<"profile", s>>, profile[s])]
          /\ member' = [s \in Space |-> [u \in User |->
                          After(w, <<"member", s, u>>, member[s][u])]]
    /\ tx' = [tx EXCEPT ![t] = NoTx]

-----------------------------------------------------------------------------
(* The driver.                                                             *)

RCInit == Init /\ tx = [t \in Tx |-> NoTx]

Step(t) == Execute(t) \/ RollbackOnError(t) \/ Commit(t) \/ DeadlockVictim(t)

RCNext ==
    \/ \E u \in User : InsertUser(u)
    \/ \E t \in Tx : (\E o \in Op : Begin(t, o)) \/ Step(t) \/ Cancel(t)

\* A connection whose next statement is possible again and again takes it: a
\* request goroutine runs on, the server grants a row to those that wait for
\* it in turn, and its deadlock detector runs.  Nothing is assumed of Begin
\* or Cancel.
RCSpec == RCInit /\ [][RCNext]_rcVars /\ \A t \in Tx : SF_rcVars(Step(t))

-----------------------------------------------------------------------------
(* Properties.                                                             *)

RowLock == {<<"user", u>> : u \in User} \cup {<<"space", s>> : s \in Space}
             \cup MemberRows(Space, User) \cup MemoRows(Space, User)

\* The committed rows are well typed and each lock has one holder.
RCTypeOK ==
    /\ TypeOK
    /\ \A t \in Tx : Running(t) =>
         /\ tx[t].op \in Op
         /\ tx[t].held \subseteq RowLock \ HeldByOthers(t)

\* "Relationship creation always locks its parents in Space-then-User order":
\* two transactions wait for each other only when one deletes a user and the
\* other a space, which take memos and invitations in opposite orders.  No
\* request of an ordinary member is ever aborted as a deadlock victim.
OnlyDeletesDeadlock ==
    \A t, v \in Tx :
        WaitsFor(t, v) /\ WaitsFor(v, t) =>
            {tx[t].op.name, tx[v].op.name} = {"DeleteUser", "DeleteSpace"}

\* Every transaction that begins ends, although statements wait for each
\* other's rows, because every path of the code ends in Commit or Rollback.
TransactionsEnd == \A t \in Tx : Running(t) ~> ~Running(t)
=============================================================================
