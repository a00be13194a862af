------------------------------- MODULE Spaces -------------------------------
(***************************************************************************)
(* The Space membership store of Memos: the tables user, space and         *)
(* space_member, and the transactions of store/space.go and store/user.go  *)
(* that change them, each taken as one atomic step.                        *)
(*                                                                         *)
(* This is what the store promises, and what the SQLite driver does: a     *)
(* transaction whose snapshot is stale cannot write, so those that commit  *)
(* take effect one after the other.  SpacesReadCommitted has the same      *)
(* transactions as the PostgreSQL driver interleaves them.                 *)
(*                                                                         *)
(* Every operation is split into its guard (the conditions and early       *)
(* returns, a state predicate named Can...) and its effect (the writes,    *)
(* named Do...).                                                           *)
(***************************************************************************)
EXTENDS Integers, FiniteSets

CONSTANTS
    User,       \* user ids: an id is used once (AUTOINCREMENT)
    Space,      \* space ids, used once as well
    Profile     \* values of a space's title, description and icon

ASSUME UserFinite == IsFiniteSet(User)

VARIABLES
    user,       \* user[u]: the row_status of u, or that it has no row
    space,      \* space[s]: whether the row of s exists
    profile,    \* profile[s]: what UpdateSpace edits
    member      \* member[s][u]: the space_member row of (s, u)

vars == <<user, space, profile, member>>

-----------------------------------------------------------------------------
(* Rows.                                                                   *)

\* "UNUSED" is an id the database has not handed out, "DELETED" one it will
\* not hand out again.
UserStatus == {"UNUSED", "NORMAL", "ARCHIVED", "DELETED"}

SpaceStatus == {"UNUSED", "LIVE", "DELETED"}

Role == {"ADMIN", "USER"}

Row == [status : {"INVITED", "ACTIVE"}, role : Role]

NoRow == [status |-> "NONE", role |-> "NONE"]

NoProfile == "NONE"

-----------------------------------------------------------------------------
(* Predicates the transactions read.                                       *)

UserExists(u) == user[u] \in {"NORMAL", "ARCHIVED"}

\* requireSQLiteActiveUser and lockPostgresActiveUser.
ActiveUser(u) == user[u] = "NORMAL"

SpaceExists(s) == space[s] = "LIVE"

Invited(s, u) == member[s][u].status = "INVITED"

ActiveMember(s, u) == member[s][u].status = "ACTIVE"

AdminRow(s, u) == ActiveMember(s, u) /\ member[s][u].role = "ADMIN"

\* The rows the last-administrator counts select: ACTIVE, ADMIN, and of a
\* user whose account is NORMAL.
ActiveAdmins(s) == {u \in User : AdminRow(s, u) /\ ActiveUser(u)}

\* authorizeSQLiteSpaceAdmin: the space exists and the actor administers it.
AuthorizeSpaceAdmin(s, actor) == SpaceExists(s) /\ actor \in ActiveAdmins(s)

-----------------------------------------------------------------------------
(* Accounts.                                                               *)

CanCreateUser(u) == user[u] = "UNUSED"

DoCreateUser(u) ==
    /\ user' = [user EXCEPT ![u] = "NORMAL"]
    /\ UNCHANGED <<space, profile, member>>

CreateUser(u) == CanCreateUser(u) /\ DoCreateUser(u)

\* validateSQLiteUserArchive: archiving a NORMAL account may not take the
\* last active administrator from any space.
WouldLoseAdmin(u) ==
    \E s \in Space : AdminRow(s, u) /\ ActiveAdmins(s) \ {u} = {}

CanArchiveUser(u) ==
    /\ UserExists(u)
    /\ ActiveUser(u) => ~WouldLoseAdmin(u)

DoArchiveUser(u) ==
    /\ user' = [user EXCEPT ![u] = "ARCHIVED"]
    /\ UNCHANGED <<space, profile, member>>

ArchiveUser(u) == CanArchiveUser(u) /\ DoArchiveUser(u)

\* UpdateUser with row_status NORMAL has no guard of its own.
CanRestoreUser(u) == UserExists(u)

DoRestoreUser(u) ==
    /\ user' = [user EXCEPT ![u] = "NORMAL"]
    /\ UNCHANGED <<space, profile, member>>

RestoreUser(u) == CanRestoreUser(u) /\ DoRestoreUser(u)

\* DeleteUser refuses a user with a row that is not an invitation, and takes
\* the invitations with it.
CanDeleteUser(u) ==
    /\ UserExists(u)
    /\ \A s \in Space : ~ActiveMember(s, u)

\* Mutant: the invitations of the deleted user stay.
DoDeleteUserKeepInvitations(u) ==
    /\ user' = [user EXCEPT ![u] = "DELETED"]
    /\ UNCHANGED <<space, profile, member>>

DoDeleteUser(u) ==
    /\ user' = [user EXCEPT ![u] = "DELETED"]
    /\ member' = [s \in Space |->
                    IF Invited(s, u) THEN [member[s] EXCEPT ![u] = NoRow]
                                     ELSE member[s]]
    /\ UNCHANGED <<space, profile>>

DeleteUser(u) == CanDeleteUser(u) /\ DoDeleteUser(u)

-----------------------------------------------------------------------------
(* Spaces.                                                                 *)

CanCreateSpace(s, creator) == space[s] = "UNUSED" /\ ActiveUser(creator)

DoCreateSpace(s, p, creator) ==
    /\ space' = [space EXCEPT ![s] = "LIVE"]
    /\ profile' = [profile EXCEPT ![s] = p]
    /\ member' = [member EXCEPT ![s][creator] =
                    [status |-> "ACTIVE", role |-> "ADMIN"]]
    /\ UNCHANGED user

CreateSpace(s, p, creator) ==
    CanCreateSpace(s, creator) /\ DoCreateSpace(s, p, creator)

CanUpdateSpace(s, actor) == AuthorizeSpaceAdmin(s, actor)

DoUpdateSpace(s, p) ==
    /\ profile' = [profile EXCEPT ![s] = p]
    /\ UNCHANGED <<user, space, member>>

UpdateSpace(s, p, actor) == CanUpdateSpace(s, actor) /\ DoUpdateSpace(s, p)

\* requireSQLiteSpaceDeleteAdmin reads the account, the space and the role
\* one by one; together they are the administrator check.
CanDeleteSpace(s, actor) ==
    ActiveUser(actor) /\ SpaceExists(s) /\ AdminRow(s, actor)

DoDeleteSpace(s) ==
    /\ member' = [member EXCEPT ![s] = [u \in User |-> NoRow]]
    /\ space' = [space EXCEPT ![s] = "DELETED"]
    /\ profile' = [profile EXCEPT ![s] = NoProfile]
    /\ UNCHANGED user

DeleteSpace(s, actor) == CanDeleteSpace(s, actor) /\ DoDeleteSpace(s)

-----------------------------------------------------------------------------
(* Invitations.                                                            *)

CanCreateSpaceInvitation(s, u, actor) ==
    /\ AuthorizeSpaceAdmin(s, actor)
    /\ ActiveUser(u)
    /\ member[s][u] = NoRow

\* Mutant: the invitation is inserted as a membership.
DoInviteAsMember(s, u, r) ==
    /\ member' = [member EXCEPT ![s][u] = [status |-> "ACTIVE", role |-> r]]
    /\ UNCHANGED <<user, space, profile>>

DoCreateSpaceInvitation(s, u, r) ==
    /\ member' = [member EXCEPT ![s][u] = [status |-> "INVITED", role |-> r]]
    /\ UNCHANGED <<user, space, profile>>

CreateSpaceInvitation(s, u, r, actor) ==
    CanCreateSpaceInvitation(s, u, actor) /\ DoCreateSpaceInvitation(s, u, r)

\* The actor of an acceptance or a refusal is the invitee itself.
CanAnswerInvitation(s, u) == ActiveUser(u) /\ Invited(s, u)

DoAcceptSpaceInvitation(s, u) ==
    /\ member' = [member EXCEPT ![s][u].status = "ACTIVE"]
    /\ UNCHANGED <<user, space, profile>>

AcceptSpaceInvitation(s, u) ==
    CanAnswerInvitation(s, u) /\ DoAcceptSpaceInvitation(s, u)

\* Mutant: the row is only marked.
DoMarkRowDeleted(s, u) ==
    /\ member' = [member EXCEPT ![s][u].status = "NONE"]
    /\ UNCHANGED <<user, space, profile>>

\* The writes of DeclineSpaceInvitation, RevokeSpaceInvitation and
\* DeleteSpaceMember: one row goes.
DoDeleteRow(s, u) ==
    /\ member' = [member EXCEPT ![s][u] = NoRow]
    /\ UNCHANGED <<user, space, profile>>

DeclineSpaceInvitation(s, u) == CanAnswerInvitation(s, u) /\ DoDeleteRow(s, u)

CanRevokeSpaceInvitation(s, u, actor) ==
    AuthorizeSpaceAdmin(s, actor) /\ Invited(s, u)

RevokeSpaceInvitation(s, u, actor) ==
    CanRevokeSpaceInvitation(s, u, actor) /\ DoDeleteRow(s, u)

-----------------------------------------------------------------------------
(* Members.                                                                *)

\* Mutant: the count does not join the account table.
AnotherAdminRow(s) == Cardinality({u \in User : AdminRow(s, u)}) > 1

\* The count of ErrLastSpaceAdmin.
AnotherAdmin(s) == Cardinality(ActiveAdmins(s)) > 1

CanUpdateSpaceMember(s, u, r, actor) ==
    /\ AuthorizeSpaceAdmin(s, actor)
    /\ ActiveUser(u)
    /\ ActiveMember(s, u)
    /\ AdminRow(s, u) /\ r # "ADMIN" => AnotherAdmin(s)

DoUpdateSpaceMember(s, u, r) ==
    /\ member' = [member EXCEPT ![s][u].role = r]
    /\ UNCHANGED <<user, space, profile>>

UpdateSpaceMember(s, u, r, actor) ==
    CanUpdateSpaceMember(s, u, r, actor) /\ DoUpdateSpaceMember(s, u, r)

\* A member leaves, or an administrator removes one.  An archived
\* administrator is not in the count and does not need another.
CanDeleteSpaceMember(s, u, actor) ==
    /\ SpaceExists(s)
    /\ actor # u => actor \in ActiveAdmins(s)
    /\ ActiveMember(s, u)
    /\ AdminRow(s, u) /\ ActiveUser(u) => AnotherAdmin(s)

DeleteSpaceMember(s, u, actor) ==
    CanDeleteSpaceMember(s, u, actor) /\ DoDeleteRow(s, u)

-----------------------------------------------------------------------------
(* The store.                                                              *)

Init ==
    /\ user = [u \in User |-> "UNUSED"]
    /\ space = [s \in Space |-> "UNUSED"]
    /\ profile = [s \in Space |-> NoProfile]
    /\ member = [s \in Space |-> [u \in User |-> NoRow]]

AccountNext ==
    \E u \in User :
        CreateUser(u) \/ ArchiveUser(u) \/ RestoreUser(u) \/ DeleteUser(u)

SpaceNext ==
    \E s \in Space, actor \in User :
        \/ \E p \in Profile : CreateSpace(s, p, actor) \/ UpdateSpace(s, p, actor)
        \/ DeleteSpace(s, actor)

InvitationNext ==
    \E s \in Space, u \in User :
        \/ AcceptSpaceInvitation(s, u)
        \/ DeclineSpaceInvitation(s, u)
        \/ \E actor \in User : RevokeSpaceInvitation(s, u, actor)
        \/ \E actor \in User, r \in Role : CreateSpaceInvitation(s, u, r, actor)

MemberNext ==
    \E s \in Space, u, actor \in User :
        \/ DeleteSpaceMember(s, u, actor)
        \/ \E r \in Role : UpdateSpaceMember(s, u, r, actor)

Next == AccountNext \/ SpaceNext \/ InvitationNext \/ MemberNext

Spec == Init /\ [][Next]_vars

-----------------------------------------------------------------------------
(* Properties.                                                             *)

\* Every table holds rows of its declared type.
TypeOK ==
    /\ user \in [User -> UserStatus]
    /\ space \in [Space -> SpaceStatus]
    /\ profile \in [Space -> Profile \cup {NoProfile}]
    /\ member \in [Space -> [User -> Row \cup {NoRow}]]

\* A live space always has an ACTIVE ADMIN whose account is NORMAL: no
\* sequence of demotions, departures, removals and archivals leaves a space
\* nobody can administer or delete (ErrLastSpaceAdmin).
LastActiveAdmin == \A s \in Space : SpaceExists(s) => ActiveAdmins(s) # {}

\* No space_member row outlives its space or its user: the schema has no
\* foreign keys, so DeleteSpace and DeleteUser must clean up themselves.
NoOrphanRows ==
    \A s \in Space, u \in User :
        member[s][u] # NoRow => SpaceExists(s) /\ UserExists(u)

\* Nobody is made a member without consenting: a row becomes ACTIVE only
\* because its own user, with a NORMAL account, created the space in this
\* step or accepted an invitation that was pending with that very role.
ConsentStep ==
    \A s \in Space, u \in User :
        ActiveMember(s, u)' /\ ~ActiveMember(s, u) =>
            /\ ActiveUser(u)
            /\ \/ ~SpaceExists(s) /\ SpaceExists(s)'
               \/ Invited(s, u) /\ member'[s][u].role = member[s][u].role

MembershipNeedsConsent == [][ConsentStep]_vars
=============================================================================
