---------------------------- MODULE SpacesProofs ----------------------------
(***************************************************************************)
(* Proofs about Spaces, SpaceMemos and SpacesReadCommitted, for every      *)
(* finite set of users and any spaces, memos, shares, connections and      *)
(* requests in flight.                                                     *)
(*                                                                         *)
(* Of the membership store alone: type correctness, that no row is         *)
(* orphaned, that a live space keeps an active administrator, and that     *)
(* membership needs consent.  With memos: they do not disturb the store    *)
(* below, nothing dangles, the audience SPACE is closed, and a removed     *)
(* author can only take a memo out.  At READ COMMITTED: every row lock has *)
(* one holder, no row is orphaned, membership needs consent, and two       *)
(* transactions block each other only when one deletes a user and the      *)
(* other a space.                                                          *)
(***************************************************************************)
EXTENDS SpaceMemos, SpacesReadCommitted, FiniteSetTheorems, TLAPS

-----------------------------------------------------------------------------
(* Type correctness.                                                       *)

\* Nothing has a row before the first operation, so the initial state is
\* well typed.
LEMMA InitType == Init => TypeOK
BY DEF Init, TypeOK, UserStatus, SpaceStatus, NoRow, NoProfile

\* Every store operation writes rows of the declared type.
LEMMA NextType == TypeOK /\ [Next]_vars => TypeOK'
<1> SUFFICES ASSUME TypeOK, [Next]_vars PROVE TypeOK'
  OBVIOUS
<1> USE DEF TypeOK
<1>1. ASSUME NEW u \in User, CreateUser(u) PROVE TypeOK'
  BY <1>1 DEF CreateUser, DoCreateUser, UserStatus
<1>2. ASSUME NEW u \in User, ArchiveUser(u) PROVE TypeOK'
  BY <1>2 DEF ArchiveUser, DoArchiveUser, UserStatus
<1>3. ASSUME NEW u \in User, RestoreUser(u) PROVE TypeOK'
  BY <1>3 DEF RestoreUser, DoRestoreUser, UserStatus
<1>4. ASSUME NEW u \in User, DeleteUser(u) PROVE TypeOK'
  BY <1>4 DEF DeleteUser, DoDeleteUser, UserStatus
<1>5. ASSUME NEW s \in Space, NEW p \in Profile, NEW actor \in User,
             CreateSpace(s, p, actor)
      PROVE  TypeOK'
  BY <1>5 DEF CreateSpace, DoCreateSpace, SpaceStatus, Row, Role
<1>6. ASSUME NEW s \in Space, NEW p \in Profile, NEW actor \in User,
             UpdateSpace(s, p, actor)
      PROVE  TypeOK'
  BY <1>6 DEF UpdateSpace, DoUpdateSpace
<1>7. ASSUME NEW s \in Space, NEW actor \in User, DeleteSpace(s, actor)
      PROVE  TypeOK'
  BY <1>7 DEF DeleteSpace, DoDeleteSpace, SpaceStatus
<1>8. ASSUME NEW s \in Space, NEW u \in User, NEW actor \in User, NEW r \in Role,
             CreateSpaceInvitation(s, u, r, actor)
      PROVE  TypeOK'
  BY <1>8 DEF CreateSpaceInvitation, DoCreateSpaceInvitation, Row
<1>9. ASSUME NEW s \in Space, NEW u \in User, AcceptSpaceInvitation(s, u)
      PROVE  TypeOK'
  <2>1. member[s][u] \in Row
    BY <1>9 DEF AcceptSpaceInvitation, CanAnswerInvitation, Invited, NoRow
  <2>2. [member[s][u] EXCEPT !.status = "ACTIVE"] \in Row
    BY <2>1 DEF Row
  <2> QED
    BY <1>9, <2>2 DEF AcceptSpaceInvitation, DoAcceptSpaceInvitation
<1>10. ASSUME NEW s \in Space, NEW u \in User, DoDeleteRow(s, u)
       PROVE  TypeOK'
  BY <1>10 DEF DoDeleteRow
<1>11. ASSUME NEW s \in Space, NEW u \in User, NEW actor \in User, NEW r \in Role,
              UpdateSpaceMember(s, u, r, actor)
       PROVE  TypeOK'
  <2>1. member[s][u] \in Row
    BY <1>11 DEF UpdateSpaceMember, CanUpdateSpaceMember, ActiveMember, NoRow
  <2>2. [member[s][u] EXCEPT !.role = r] \in Row
    BY <2>1 DEF Row
  <2> QED
    BY <1>11, <2>2 DEF UpdateSpaceMember, DoUpdateSpaceMember
<1>12. CASE UNCHANGED vars
  BY <1>12 DEF vars
<1> QED
  BY <1>1, <1>2, <1>3, <1>4, <1>5, <1>6, <1>7, <1>8, <1>9, <1>10, <1>11, <1>12
  DEF Next, AccountNext, SpaceNext, InvitationNext, MemberNext,
      DeclineSpaceInvitation, RevokeSpaceInvitation, DeleteSpaceMember

\* Every table holds rows of its declared type in every reachable state.
THEOREM TypeCorrect == Spec => []TypeOK
BY InitType, NextType, PTL DEF Spec

-----------------------------------------------------------------------------
(* Safety.  TypeOK, NoOrphanRows and LastActiveAdmin are inductive only     *)
(* together: that a space which is being deleted or not yet created has no  *)
(* administrator rests on NoOrphanRows, and that removing one of several    *)
(* administrators leaves one rests on the count the code reads.             *)

Safe == TypeOK /\ NoOrphanRows /\ LastActiveAdmin

\* What the count of ErrLastSpaceAdmin is worth: if it exceeds one, another
\* active administrator remains when u stops being one.
LEMMA CountLeavesAnother ==
  ASSUME NEW s \in Space, NEW u, AnotherAdmin(s)
  PROVE  ActiveAdmins(s) \ {u} # {}
<1>1. IsFiniteSet(ActiveAdmins(s))
  BY UserFinite, FS_Subset DEF ActiveAdmins
<1>2. ASSUME ActiveAdmins(s) \ {u} = {} PROVE FALSE
  <2>1. ActiveAdmins(s) \subseteq {u}
    BY <1>2
  <2>2. IsFiniteSet({u}) /\ Cardinality({u}) = 1
    BY FS_Singleton
  <2>3. Cardinality(ActiveAdmins(s)) <= 1
    BY <2>1, <2>2, FS_Subset
  <2>4. Cardinality(ActiveAdmins(s)) \in Nat
    BY <1>1, FS_CardinalityType
  <2> QED
    BY <2>3, <2>4 DEF AnotherAdmin
<1> QED
  BY <1>2

\* Before the first operation there is neither a row nor a live space.
LEMMA InitSafe == Init => Safe
<1> SUFFICES ASSUME Init PROVE NoOrphanRows /\ LastActiveAdmin
  BY InitType DEF Safe
<1> QED
  BY DEF Init, NoOrphanRows, LastActiveAdmin, SpaceExists

\* An administrator other than the user a step is about keeps every space it
\* administers administered.
LEMMA AdminSurvives ==
  ASSUME NEW s \in Space, NEW v \in ActiveAdmins(s),
         member'[s][v] = member[s][v], user'[v] = user[v]
  PROVE  v \in ActiveAdmins(s)'
BY DEF ActiveAdmins, AdminRow, ActiveMember, ActiveUser

\* Account operations.
LEMMA AccountSafe == Safe /\ AccountNext => (NoOrphanRows /\ LastActiveAdmin)'
<1> SUFFICES ASSUME Safe, NEW u \in User,
                    CreateUser(u) \/ ArchiveUser(u) \/ RestoreUser(u) \/ DeleteUser(u)
             PROVE  (NoOrphanRows /\ LastActiveAdmin)'
  BY DEF AccountNext
<1> USE DEF Safe, TypeOK
<1>1. CASE CreateUser(u)
  <2> USE <1>1 DEF CreateUser, CanCreateUser, DoCreateUser
  <2>1. NoOrphanRows'
    BY DEF NoOrphanRows, SpaceExists, UserExists
  <2>2. LastActiveAdmin'
    BY DEF LastActiveAdmin, SpaceExists, ActiveAdmins, AdminRow, ActiveMember,
           ActiveUser
  <2> QED BY <2>1, <2>2
<1>2. CASE ArchiveUser(u)
  <2> USE <1>2 DEF ArchiveUser, CanArchiveUser, DoArchiveUser
  <2>1. NoOrphanRows'
    BY DEF NoOrphanRows, SpaceExists, UserExists
  <2>2. ASSUME NEW s \in Space, SpaceExists(s) PROVE ActiveAdmins(s) \ {u} # {}
    BY <2>2 DEF LastActiveAdmin, WouldLoseAdmin, ActiveAdmins, ActiveUser
  <2>3. ASSUME NEW s \in Space, SpaceExists(s)' PROVE ActiveAdmins(s)' # {}
    <3>1. PICK v \in ActiveAdmins(s) : v # u
      BY <2>2, <2>3 DEF SpaceExists
    <3> QED
      BY <3>1, AdminSurvives DEF ActiveAdmins
  <2> QED BY <2>1, <2>3 DEF LastActiveAdmin
<1>3. CASE RestoreUser(u)
  <2> USE <1>3 DEF RestoreUser, CanRestoreUser, DoRestoreUser
  <2>1. NoOrphanRows'
    BY DEF NoOrphanRows, SpaceExists, UserExists
  <2>2. LastActiveAdmin'
    BY DEF LastActiveAdmin, SpaceExists, ActiveAdmins, AdminRow, ActiveMember,
           ActiveUser
  <2> QED BY <2>1, <2>2
<1>4. CASE DeleteUser(u)
  <2> USE <1>4 DEF DeleteUser, CanDeleteUser, DoDeleteUser
  <2>1. ASSUME NEW s \in Space PROVE member'[s][u] = NoRow
    BY DEF Invited, ActiveMember, Row, NoRow
  <2>2. ASSUME NEW s \in Space, NEW v \in User, v # u
        PROVE  member'[s][v] = member[s][v] /\ user'[v] = user[v]
    BY <2>2
  <2>3. NoOrphanRows'
    BY <2>1, <2>2 DEF NoOrphanRows, SpaceExists, UserExists
  <2>4. ASSUME NEW s \in Space, SpaceExists(s)' PROVE ActiveAdmins(s)' # {}
    <3>1. PICK v \in ActiveAdmins(s) : v # u
      BY <2>4 DEF LastActiveAdmin, SpaceExists, ActiveAdmins, AdminRow
    <3> QED
      BY <3>1, <2>2, AdminSurvives DEF ActiveAdmins
  <2> QED BY <2>3, <2>4 DEF LastActiveAdmin
<1> QED
  BY <1>1, <1>2, <1>3, <1>4

\* Operations on spaces.
LEMMA SpaceSafe == Safe /\ SpaceNext => (NoOrphanRows /\ LastActiveAdmin)'
<1> SUFFICES ASSUME Safe, NEW s \in Space, NEW actor \in User,
                    \/ \E p \in Profile : \/ CreateSpace(s, p, actor)
                                          \/ UpdateSpace(s, p, actor)
                    \/ DeleteSpace(s, actor)
             PROVE  (NoOrphanRows /\ LastActiveAdmin)'
  BY DEF SpaceNext
<1> USE DEF Safe, TypeOK
<1>1. ASSUME NEW p \in Profile, CreateSpace(s, p, actor)
      PROVE  (NoOrphanRows /\ LastActiveAdmin)'
  <2> USE <1>1 DEF CreateSpace, CanCreateSpace, DoCreateSpace
  <2>1. NoOrphanRows'
    BY DEF NoOrphanRows, SpaceExists, UserExists, ActiveUser
  <2>2. actor \in ActiveAdmins(s)'
    BY DEF ActiveAdmins, AdminRow, ActiveMember, ActiveUser
  <2>3. ASSUME NEW t \in Space, t # s, SpaceExists(t)' PROVE ActiveAdmins(t)' # {}
    BY <2>3 DEF LastActiveAdmin, SpaceExists, ActiveAdmins, AdminRow,
                ActiveMember, ActiveUser
  <2> QED BY <2>1, <2>2, <2>3 DEF LastActiveAdmin
<1>2. ASSUME NEW p \in Profile, UpdateSpace(s, p, actor)
      PROVE  (NoOrphanRows /\ LastActiveAdmin)'
  BY <1>2 DEF UpdateSpace, DoUpdateSpace, NoOrphanRows, LastActiveAdmin,
              SpaceExists, UserExists, ActiveAdmins, AdminRow, ActiveMember,
              ActiveUser
<1>3. CASE DeleteSpace(s, actor)
  <2> USE <1>3 DEF DeleteSpace, DoDeleteSpace
  <2>1. NoOrphanRows'
    BY DEF NoOrphanRows, SpaceExists, UserExists
  <2>2. ASSUME NEW t \in Space, SpaceExists(t)' PROVE ActiveAdmins(t)' # {}
    BY <2>2 DEF LastActiveAdmin, SpaceExists, ActiveAdmins, AdminRow,
                ActiveMember, ActiveUser
  <2> QED BY <2>1, <2>2 DEF LastActiveAdmin
<1> QED
  BY <1>1, <1>2, <1>3

\* A step that rewrites one row of a live space and leaves an administrator
\* of that space behind is safe, whatever operation it belongs to.
LEMMA OneRowSafe ==
  ASSUME Safe, NEW s \in Space, NEW u \in User,
         SpaceExists(s), UserExists(u), UNCHANGED <<user, space>>,
         NEW row, member' = [member EXCEPT ![s][u] = row],
         ActiveAdmins(s)' # {}
  PROVE  (NoOrphanRows /\ LastActiveAdmin)'
<1> USE DEF Safe, TypeOK
<1>1. ASSUME NEW t \in Space, t # s PROVE member'[t] = member[t]
  BY <1>1
<1>2. NoOrphanRows'
  BY DEF NoOrphanRows, SpaceExists, UserExists
<1>3. ASSUME NEW t \in Space, t # s, SpaceExists(t)' PROVE ActiveAdmins(t)' # {}
  BY <1>1, <1>3 DEF LastActiveAdmin, SpaceExists, ActiveAdmins, AdminRow,
                    ActiveMember, ActiveUser
<1> QED
  BY <1>2, <1>3 DEF LastActiveAdmin

\* Invitations.  None of them touches a row that is ACTIVE before the step.
LEMMA InvitationSafe == Safe /\ InvitationNext => (NoOrphanRows /\ LastActiveAdmin)'
<1> SUFFICES ASSUME Safe, NEW s \in Space, NEW u \in User,
                    \/ AcceptSpaceInvitation(s, u)
                    \/ DeclineSpaceInvitation(s, u)
                    \/ \E actor \in User : RevokeSpaceInvitation(s, u, actor)
                    \/ \E actor \in User, r \in Role :
                          CreateSpaceInvitation(s, u, r, actor)
             PROVE  (NoOrphanRows /\ LastActiveAdmin)'
  BY DEF InvitationNext
<1> USE DEF Safe, TypeOK
<1>1. ~ActiveMember(s, u) /\ SpaceExists(s) /\ UserExists(u)
  BY DEF AcceptSpaceInvitation, DeclineSpaceInvitation, RevokeSpaceInvitation,
         CreateSpaceInvitation, CanAnswerInvitation, CanRevokeSpaceInvitation,
         CanCreateSpaceInvitation, AuthorizeSpaceAdmin, Invited, ActiveMember,
         NoRow, NoOrphanRows, ActiveUser, UserExists
<1>2. PICK row : /\ member' = [member EXCEPT ![s][u] = row]
                 /\ UNCHANGED <<user, space>>
  <2>1. CASE AcceptSpaceInvitation(s, u)
    <3>1. member' = [member EXCEPT ![s][u] = [@ EXCEPT !.status = "ACTIVE"]]
      BY <2>1 DEF AcceptSpaceInvitation, DoAcceptSpaceInvitation
    <3> QED
      BY <2>1, <3>1 DEF AcceptSpaceInvitation, DoAcceptSpaceInvitation
  <2>2. CASE DoDeleteRow(s, u)
    BY <2>2 DEF DoDeleteRow
  <2>3. ASSUME NEW r \in Role, DoCreateSpaceInvitation(s, u, r)
        PROVE  \E row : /\ member' = [member EXCEPT ![s][u] = row]
                        /\ UNCHANGED <<user, space>>
    BY <2>3 DEF DoCreateSpaceInvitation
  <2> QED
    BY <2>1, <2>2, <2>3 DEF DeclineSpaceInvitation, RevokeSpaceInvitation,
       CreateSpaceInvitation
<1>3. PICK v \in ActiveAdmins(s) : TRUE
  BY <1>1 DEF LastActiveAdmin
<1>4. v # u /\ v \in User
  BY <1>1 DEF ActiveAdmins, AdminRow
<1>5. v \in ActiveAdmins(s)'
  BY <1>2, <1>4, AdminSurvives
<1> QED
  BY <1>1, <1>2, <1>5, OneRowSafe

\* Role changes and departures, where the count is what keeps one
\* administrator.
LEMMA MemberSafe == Safe /\ MemberNext => (NoOrphanRows /\ LastActiveAdmin)'
<1> SUFFICES ASSUME Safe, NEW s \in Space, NEW u \in User, NEW actor \in User,
                    \/ DeleteSpaceMember(s, u, actor)
                    \/ \E r \in Role : UpdateSpaceMember(s, u, r, actor)
             PROVE  (NoOrphanRows /\ LastActiveAdmin)'
  BY DEF MemberNext
<1> USE DEF Safe, TypeOK
<1>1. SpaceExists(s) /\ UserExists(u) /\ ActiveAdmins(s) # {}
  BY DEF DeleteSpaceMember, UpdateSpaceMember, CanDeleteSpaceMember,
         CanUpdateSpaceMember, AuthorizeSpaceAdmin, ActiveMember, NoRow,
         NoOrphanRows, LastActiveAdmin
<1>2. CASE DeleteSpaceMember(s, u, actor)
  <2> USE <1>2 DEF DeleteSpaceMember, CanDeleteSpaceMember, DoDeleteRow
  <2>1. ActiveAdmins(s) \ {u} # {}
    BY <1>1, CountLeavesAnother DEF ActiveAdmins
  <2>2. PICK v \in ActiveAdmins(s) : v # u
    BY <2>1
  <2>3. v \in ActiveAdmins(s)'
    BY <2>2, AdminSurvives DEF ActiveAdmins
  <2> QED
    BY <1>1, <2>3, OneRowSafe
<1>3. ASSUME NEW r \in Role, UpdateSpaceMember(s, u, r, actor)
      PROVE  (NoOrphanRows /\ LastActiveAdmin)'
  <2>1. /\ ActiveUser(u) /\ ActiveMember(s, u)
        /\ AdminRow(s, u) /\ r # "ADMIN" => AnotherAdmin(s)
        /\ UNCHANGED <<user, space>>
        /\ member' = [member EXCEPT ![s][u] = [@ EXCEPT !.role = r]]
    BY <1>3 DEF UpdateSpaceMember, CanUpdateSpaceMember, DoUpdateSpaceMember
  <2>2. PICK row : /\ member' = [member EXCEPT ![s][u] = row]
                   /\ row.role = r /\ row.status = "ACTIVE"
    <3>1. member[s][u] \in Row /\ member[s][u].status = "ACTIVE"
      BY <2>1 DEF ActiveMember, NoRow
    <3>2. /\ [member[s][u] EXCEPT !.role = r].role = r
          /\ [member[s][u] EXCEPT !.role = r].status = "ACTIVE"
      BY <3>1 DEF Row
    <3> QED
      BY <2>1, <3>2
  <2> HIDE <1>3 DEF Safe, TypeOK
  <2>3. ActiveAdmins(s)' # {}
    <3>1. member \in [Space -> [User -> Row \cup {NoRow}]]
      BY DEF Safe, TypeOK
    <3>2. CASE r = "ADMIN"
      <4>1. u \in ActiveAdmins(s)'
        BY <2>1, <2>2, <3>1, <3>2
        DEF ActiveAdmins, AdminRow, ActiveMember, ActiveUser
      <4> QED BY <4>1
    <3>3. CASE r # "ADMIN"
      <4>1. ActiveAdmins(s) \ {u} # {}
        <5>1. CASE AdminRow(s, u)
          BY <2>1, <3>3, <5>1, CountLeavesAnother
        <5>2. CASE ~AdminRow(s, u)
          BY <1>1, <5>2 DEF ActiveAdmins
        <5> QED BY <5>1, <5>2
      <4>2. PICK v \in ActiveAdmins(s) : v # u
        BY <4>1
      <4>3. v \in User /\ member'[s][v] = member[s][v] /\ user'[v] = user[v]
        BY <4>2, <2>1, <2>2, <3>1 DEF ActiveAdmins
      <4>4. v \in ActiveAdmins(s)'
        BY <4>3, AdminSurvives
      <4> QED BY <4>4
    <3> QED
      BY <3>2, <3>3
  <2> QED
    BY <1>1, <2>1, <2>2, <2>3, OneRowSafe
<1> QED
  BY <1>2, <1>3

\* The inductive invariant of the store.
LEMMA NextSafe == Safe /\ [Next]_vars => Safe'
<1> SUFFICES ASSUME Safe, [Next]_vars PROVE Safe'
  OBVIOUS
<1>1. TypeOK'
  BY NextType DEF Safe
<1>2. CASE Next
  BY <1>1, <1>2, AccountSafe, SpaceSafe, InvitationSafe, MemberSafe DEF Next, Safe
<1>3. CASE UNCHANGED vars
  BY <1>3 DEF vars, Safe, TypeOK, NoOrphanRows, LastActiveAdmin, SpaceExists,
              UserExists, ActiveAdmins, AdminRow, ActiveMember, ActiveUser
<1> QED
  BY <1>2, <1>3

\* In every reachable state the tables are well typed, no membership row is
\* orphaned and every live space has an active administrator.
THEOREM SafeAlways == Spec => []Safe
BY InitSafe, NextSafe, PTL DEF Spec

\* ErrLastSpaceAdmin does its work: whatever the sequence of demotions,
\* departures, removals, archivals and deletions, a live space keeps an
\* ACTIVE ADMIN with a NORMAL account.
THEOREM SpaceKeepsAdmin == Spec => []LastActiveAdmin
<1>1. Safe => LastActiveAdmin
  BY DEF Safe
<1> QED
  BY <1>1, SafeAlways, PTL

\* DeleteSpace and DeleteUser leave no space_member row behind.
THEOREM NoOrphans == Spec => []NoOrphanRows
<1>1. Safe => NoOrphanRows
  BY DEF Safe
<1> QED
  BY <1>1, SafeAlways, PTL

-----------------------------------------------------------------------------
(* Consent.                                                                *)

\* A row turns ACTIVE only in the step in which its own user, with a NORMAL
\* account, creates the space or accepts a pending invitation, and with the
\* role that was offered.
THEOREM Consent == Spec => MembershipNeedsConsent
<1>1. TypeOK /\ [Next]_vars => [ConsentStep]_vars
  <2> SUFFICES ASSUME TypeOK, Next, NEW s \in Space, NEW u \in User,
                      ActiveMember(s, u)', ~ActiveMember(s, u)
               PROVE  /\ ActiveUser(u)
                      /\ \/ ~SpaceExists(s) /\ SpaceExists(s)'
                         \/ Invited(s, u) /\ member'[s][u].role = member[s][u].role
    BY DEF ConsentStep
  <2> USE DEF TypeOK, ActiveMember
  <2>1. ASSUME NEW v \in User,
               CreateUser(v) \/ ArchiveUser(v) \/ RestoreUser(v) \/ DeleteUser(v)
        PROVE  FALSE
    <3>1. CASE UNCHANGED member
      BY <3>1
    <3>2. CASE DoDeleteUser(v)
      BY <3>2 DEF DoDeleteUser, NoRow
    <3> QED
      BY <2>1, <3>1, <3>2
      DEF CreateUser, DoCreateUser, ArchiveUser, DoArchiveUser, RestoreUser,
          DoRestoreUser, DeleteUser
  <2>2. ASSUME NEW t \in Space, NEW p \in Profile, NEW actor \in User,
               CreateSpace(t, p, actor)
        PROVE  ActiveUser(u) /\ ~SpaceExists(s) /\ SpaceExists(s)'
    BY <2>2 DEF CreateSpace, CanCreateSpace, DoCreateSpace, SpaceExists
  <2>3. ASSUME NEW t \in Space, NEW actor \in User,
               \/ \E p \in Profile : UpdateSpace(t, p, actor)
               \/ DeleteSpace(t, actor)
        PROVE  FALSE
    BY <2>3 DEF UpdateSpace, DoUpdateSpace, DeleteSpace, DoDeleteSpace, NoRow
  <2>4. ASSUME NEW t \in Space, NEW v \in User, DoDeleteRow(t, v) PROVE FALSE
    BY <2>4 DEF DoDeleteRow, NoRow
  <2>5. ASSUME NEW t \in Space, NEW v \in User, NEW r \in Role,
               DoCreateSpaceInvitation(t, v, r)
        PROVE  FALSE
    BY <2>5 DEF DoCreateSpaceInvitation
  <2>6. ASSUME NEW t \in Space, NEW v \in User, AcceptSpaceInvitation(t, v)
        PROVE  /\ ActiveUser(u) /\ Invited(s, u)
               /\ member'[s][u].role = member[s][u].role
    <3>1. /\ ActiveUser(v) /\ Invited(t, v)
          /\ member' = [member EXCEPT ![t][v] = [@ EXCEPT !.status = "ACTIVE"]]
      BY <2>6 DEF AcceptSpaceInvitation, CanAnswerInvitation,
                  DoAcceptSpaceInvitation
    <3>2. t = s /\ v = u
      BY <3>1
    <3>3. member[s][u] \in Row
      BY <3>1, <3>2 DEF Invited, NoRow
    <3>4. [member[s][u] EXCEPT !.status = "ACTIVE"].role = member[s][u].role
      BY <3>3 DEF Row
    <3> QED
      BY <3>1, <3>2, <3>4
  <2>7. ASSUME NEW t \in Space, NEW v \in User, NEW actor \in User, NEW r \in Role,
               UpdateSpaceMember(t, v, r, actor)
        PROVE  FALSE
    <3>1. /\ member[t][v].status = "ACTIVE"
          /\ member' = [member EXCEPT ![t][v] = [@ EXCEPT !.role = r]]
      BY <2>7 DEF UpdateSpaceMember, CanUpdateSpaceMember, DoUpdateSpaceMember
    <3>2. t # s \/ v # u
      BY <3>1
    <3> QED
      BY <3>1, <3>2
  <2> QED
    BY <2>1, <2>2, <2>3, <2>4, <2>5, <2>6, <2>7
    DEF Next, AccountNext, SpaceNext, InvitationNext, MemberNext,
        DeclineSpaceInvitation, RevokeSpaceInvitation, CreateSpaceInvitation,
        DeleteSpaceMember
<1> QED
  BY <1>1, TypeCorrect, PTL DEF Spec, MembershipNeedsConsent

-----------------------------------------------------------------------------
(* SpaceMemos: the membership store below.                                 *)

\* What memos add to the membership store is invisible in it: every step of
\* the store with memos is a step of Spaces or leaves its tables alone.
LEMMA MemosStepIsSpacesStep == [MemosNext]_allVars => [Next]_vars
<1> SUFFICES ASSUME [MemosNext]_allVars PROVE [Next]_vars
  OBVIOUS
<1>1. CASE MembershipNext
  BY <1>1 DEF MembershipNext, Next, AccountNext, SpaceNext
<1>2. CASE MemoNext
  <2>1. ASSUME NEW s \in Space, NEW u \in User, DeleteSpaceWithMemos(s, u) PROVE Next
    BY <2>1 DEF DeleteSpaceWithMemos, Next, SpaceNext
  <2>2. ASSUME NEW u \in User, DeleteUserWithMemos(u) PROVE Next
    BY <2>2 DEF DeleteUserWithMemos, Next, AccountNext
  <2> QED
    BY <1>2, <2>1, <2>2 DEF MemoNext, CreateMemo, DeleteMemo, PrepareUpdateMemo,
       CommitUpdateMemo, RejectUpdateMemo
<1>3. CASE ShareNext
  BY <1>3 DEF ShareNext, CreateMemoShare, DeleteMemoShare, ExpireMemoShare
<1>4. CASE UNCHANGED allVars
  BY <1>4 DEF allVars
<1> QED
  BY <1>1, <1>2, <1>3, <1>4 DEF MemosNext

\* The store with memos implements the membership store: handlers, shares and
\* the memos that deletions take along change nothing of what Spaces promises.
THEOREM MemosImplementSpaces == MemosSpec => Spec
<1>1. MemosInit => Init
  BY DEF MemosInit
<1> QED
  BY <1>1, MemosStepIsSpacesStep, PTL DEF MemosSpec, Spec

\* With memos, too, a live space keeps an active administrator.
THEOREM SpaceKeepsAdminWithMemos == MemosSpec => []LastActiveAdmin
BY MemosImplementSpaces, SpaceKeepsAdmin, PTL

-----------------------------------------------------------------------------
(* Type correctness.                                                       *)

MemoTables ==
    /\ memo \in [Memo -> MemoRow \cup {Unused, Deleted}]
    /\ share \in [Share -> ShareRow \cup {NoShare}]
    /\ inflight \in [Request -> Update \cup {Idle}]

\* A row whose state is not that of an unused or a deleted id is a memo row.
LEMMA RowOfMemo ==
  ASSUME MemoTables, NEW m \in Memo
  PROVE  MemoExists(m) <=> memo[m] \in MemoRow
BY DEF MemoTables, MemoExists, MemoRow, Unused, Deleted

\* A request that is not idle is an update.
LEMMA InflightType ==
  ASSUME MemoTables, NEW r \in Request, inflight[r] # Idle
  PROVE  /\ inflight[r] \in Update
         /\ inflight[r].memo \in Memo
BY DEF MemoTables, Update

\* What a committed update makes of the row.
LEMMA CommitEffect ==
  ASSUME MemoTables, NEW r \in Request, CommitUpdateMemo(r)
  PROVE  LET q == inflight[r]
         IN /\ q \in Update /\ q.memo \in Memo
            /\ ValidateMemoWriteSnapshot(q)
            /\ memo[q.memo] \in MemoRow
            /\ memo'[q.memo] \in MemoRow
            /\ memo'[q.memo].creator = memo[q.memo].creator
            /\ memo'[q.memo].visibility = ResultVisibility(q)
            /\ memo'[q.memo].space = ResultSpace(q)
            /\ "other" \notin q.paths =>
                 /\ memo'[q.memo].state = memo[q.memo].state
                 /\ memo'[q.memo].content = memo[q.memo].content
            /\ \A m \in Memo \ {q.memo} : memo'[m] = memo[m]
            /\ memo' \in [Memo -> MemoRow \cup {Unused, Deleted}]
            /\ share' = share /\ UNCHANGED vars
<1> DEFINE q == inflight[r]
<1>1. q \in Update /\ q.memo \in Memo /\ ValidateMemoWriteSnapshot(q)
  BY InflightType DEF CommitUpdateMemo
<1>2. memo[q.memo] \in MemoRow
  BY <1>1, RowOfMemo DEF ValidateMemoWriteSnapshot
<1>3. PICK st \in {"NORMAL", "ARCHIVED"}, c \in {0, 1} :
        /\ "other" \notin q.paths => st = memo[q.memo].state /\ c = memo[q.memo].content
        /\ memo' = [memo EXCEPT ![q.memo] =
                      [creator |-> @.creator, state |-> st, content |-> c,
                       visibility |-> ResultVisibility(q), space |-> ResultSpace(q)]]
  BY DEF CommitUpdateMemo, ApplyMemoUpdate
<1>4. ResultVisibility(q) \in Visibility /\ ResultSpace(q) \in Space \cup {NoSpace}
  BY <1>1, <1>2 DEF ResultVisibility, ResultSpace, Update, MemoRow
<1>5. [creator |-> memo[q.memo].creator, state |-> st, content |-> c,
       visibility |-> ResultVisibility(q), space |-> ResultSpace(q)] \in MemoRow
  BY <1>2, <1>3, <1>4 DEF MemoRow
<1>6. memo \in [Memo -> MemoRow \cup {Unused, Deleted}]
  BY DEF MemoTables
<1>7. memo'[q.memo] = [creator |-> memo[q.memo].creator, state |-> st, content |-> c,
                       visibility |-> ResultVisibility(q), space |-> ResultSpace(q)]
  BY <1>1, <1>3, <1>6
<1>8. memo' \in [Memo -> MemoRow \cup {Unused, Deleted}]
  BY <1>1, <1>3, <1>5, <1>6
<1>9. \A m \in Memo \ {q.memo} : memo'[m] = memo[m]
  BY <1>1, <1>3, <1>6
<1> HIDE DEF q
<1> QED
  BY <1>1, <1>2, <1>3, <1>5, <1>7, <1>8, <1>9 DEF CommitUpdateMemo, q

\* Deleting memos takes every share of theirs along and touches no other row.
LEMMA DeleteEffect ==
  ASSUME MemoTables, NEW ms, DeleteMemoSet(ms)
  PROVE  /\ MemoTables'
         /\ \A m \in Memo : MemoExists(m)' => m \notin ms /\ memo'[m] = memo[m]
         /\ \A m \in Memo : MemoExists(m) /\ m \notin ms => MemoExists(m)'
         /\ \A x \in Share : share'[x] # NoShare =>
              share'[x] = share[x] /\ share[x].memo \notin ms
BY DEF MemoTables, DeleteMemoSet, MemoExists, Deleted, NoShare

\* Every operation on memos and shares writes rows of the declared type.
LEMMA TablesStep == MemoTables /\ [MemosNext]_allVars => MemoTables'
<1> SUFFICES ASSUME MemoTables, [MemosNext]_allVars PROVE MemoTables'
  OBVIOUS
<1>1. CASE UNCHANGED memoVars
  BY <1>1 DEF memoVars, MemoTables
<1>2. ASSUME NEW m \in Memo, NEW u \in User, NEW v \in Visibility,
             NEW s \in Space \cup {NoSpace}, CreateMemo(m, u, v, s)
      PROVE  MemoTables'
  BY <1>2 DEF CreateMemo, MemoTables, MemoRow
<1>3. ASSUME NEW ms, DeleteMemoSet(ms) PROVE MemoTables'
  BY <1>3, DeleteEffect
<1>4. ASSUME NEW r \in Request, NEW q \in Update, PrepareUpdateMemo(r, q) PROVE MemoTables'
  BY <1>4 DEF PrepareUpdateMemo, MemoTables
<1>5. ASSUME NEW r \in Request, CommitUpdateMemo(r) PROVE MemoTables'
  <2>1. inflight' \in [Request -> Update \cup {Idle}]
    BY <1>5 DEF CommitUpdateMemo, MemoTables
  <2> QED
    BY <1>5, <2>1, CommitEffect DEF MemoTables
<1>6. ASSUME NEW r \in Request, RejectUpdateMemo(r) PROVE MemoTables'
  BY <1>6 DEF RejectUpdateMemo, MemoTables
<1>7. ASSUME NEW x \in Share, NEW m \in Memo, NEW u \in User, CreateMemoShare(x, m, u)
      PROVE  MemoTables'
  BY <1>7 DEF CreateMemoShare, MemoTables, ShareRow
<1>8. ASSUME NEW x \in Share, NEW u \in User, DeleteMemoShare(x, u) PROVE MemoTables'
  BY <1>8 DEF DeleteMemoShare, MemoTables
<1>9. ASSUME NEW x \in Share, ExpireMemoShare(x) PROVE MemoTables'
  <2>1. share[x] \in ShareRow
    BY <1>9 DEF ExpireMemoShare, MemoTables, NoShare
  <2>2. [share[x] EXCEPT !.status = "EXPIRED"] \in ShareRow
    BY <2>1 DEF ShareRow
  <2> QED
    BY <1>9, <2>2 DEF ExpireMemoShare, MemoTables
<1> QED
  BY <1>1, <1>2, <1>3, <1>4, <1>5, <1>6, <1>7, <1>8, <1>9
     DEF MemosNext, MembershipNext, MemoNext, ShareNext, DeleteMemo,
         DeleteSpaceWithMemos, DeleteUserWithMemos, allVars

-----------------------------------------------------------------------------
(* Safety.  The three invariants are inductive together: that a new memo of *)
(* audience SPACE has no share rests on NoDanglingMemo, and that a share    *)
(* names a memo rests on the types.                                        *)

MemosSafe == TypeOK /\ MemoTables /\ NoDanglingMemo /\ SpaceAudienceIsClosed

\* No membership operation takes an account or a space away; only the two
\* deletions do, and those come with their memos.
LEMMA MembershipKeepsRows ==
  ASSUME TypeOK, MembershipNext
  PROVE  /\ \A u \in User : UserExists(u) => UserExists(u)'
         /\ \A s \in Space : SpaceExists(s) => SpaceExists(s)'
<1> USE DEF TypeOK
<1>1. CASE UNCHANGED <<user, space>>
  BY <1>1 DEF UserExists, SpaceExists
<1>2. ASSUME NEW u \in User, CreateUser(u) \/ ArchiveUser(u) \/ RestoreUser(u)
      PROVE  /\ \A v \in User : UserExists(v) => UserExists(v)'
             /\ \A s \in Space : SpaceExists(s) => SpaceExists(s)'
  BY <1>2 DEF CreateUser, DoCreateUser, ArchiveUser, DoArchiveUser, RestoreUser,
     DoRestoreUser, UserExists, SpaceExists
<1>3. ASSUME NEW s \in Space, NEW p \in Profile, NEW actor \in User,
             CreateSpace(s, p, actor) \/ UpdateSpace(s, p, actor)
      PROVE  /\ \A u \in User : UserExists(u) => UserExists(u)'
             /\ \A t \in Space : SpaceExists(t) => SpaceExists(t)'
  BY <1>3 DEF CreateSpace, DoCreateSpace, UpdateSpace, DoUpdateSpace, UserExists,
     SpaceExists
<1> QED
  BY <1>1, <1>2, <1>3
     DEF MembershipNext, InvitationNext, MemberNext, AcceptSpaceInvitation,
         DoAcceptSpaceInvitation, DeclineSpaceInvitation, RevokeSpaceInvitation,
         CreateSpaceInvitation, DoCreateSpaceInvitation, DeleteSpaceMember,
         UpdateSpaceMember, DoUpdateSpaceMember, DoDeleteRow

\* A step that leaves memos and shares alone and takes no account and no
\* space away.
LEMMA RowsKept ==
  ASSUME MemosSafe, UNCHANGED <<memo, share>>,
         \A u \in User : UserExists(u) => UserExists(u)',
         \A s \in Space : SpaceExists(s) => SpaceExists(s)'
  PROVE  (NoDanglingMemo /\ SpaceAudienceIsClosed)'
<1>1. \A m \in Memo : MemoExists(m)' <=> MemoExists(m)
  BY DEF MemoExists
<1>2. \A m \in Memo : MemoExists(m) =>
        memo[m].creator \in User /\ memo[m].space \in Space \cup {NoSpace}
  BY RowOfMemo DEF MemosSafe, MemoRow
<1>3. NoDanglingMemo'
  BY <1>1, <1>2 DEF MemosSafe, NoDanglingMemo, PlacementWritable, MemoExists, UserExists,
     SpaceExists
<1>4. SpaceAudienceIsClosed'
  BY <1>1 DEF MemosSafe, SpaceAudienceIsClosed, HasActiveShare
<1> QED
  BY <1>3, <1>4

\* A deletion of memos that takes along all that belong to what it deletes.
LEMMA DeletionSafe ==
  ASSUME MemosSafe, NEW ms, DeleteMemoSet(ms),
         \A m \in Memo : MemoExists(m) /\ m \notin ms =>
            /\ UserExists(memo[m].creator) => user'[memo[m].creator] = user[memo[m].creator]
            /\ memo[m].space # NoSpace => space'[memo[m].space] = space[memo[m].space]
  PROVE  (NoDanglingMemo /\ SpaceAudienceIsClosed)'
<1>1. MemoTables
  BY DEF MemosSafe
<1>2. \A m \in Memo : MemoExists(m)' => MemoExists(m) /\ m \notin ms /\ memo'[m] = memo[m]
  BY <1>1, DeleteEffect DEF MemoExists
<1>3. ASSUME NEW m \in Memo, MemoExists(m)'
      PROVE  (UserExists(memo[m].creator) /\ PlacementWritable(memo[m].space))'
  BY <1>2, <1>3 DEF MemosSafe, NoDanglingMemo, PlacementWritable, UserExists, SpaceExists
<1>4. ASSUME NEW x \in Share, share'[x] # NoShare PROVE MemoExists(share[x].memo)'
  <2>1. share'[x] = share[x] /\ share[x].memo \notin ms
    BY <1>1, <1>4, DeleteEffect
  <2>2. share[x].memo \in Memo /\ MemoExists(share[x].memo)
    BY <1>1, <1>4, <2>1 DEF MemosSafe, NoDanglingMemo, MemoTables, ShareRow
  <2> QED
    BY <1>1, <2>1, <2>2, DeleteEffect DEF MemoExists
<1>5. ASSUME NEW m \in Memo, HasActiveShare(m)' PROVE HasActiveShare(m)
  BY <1>1, <1>5, DeleteEffect DEF HasActiveShare, NoShare
<1>6. NoDanglingMemo'
  BY <1>2, <1>3, <1>4 DEF NoDanglingMemo
<1>7. SpaceAudienceIsClosed'
  BY <1>2, <1>5 DEF MemosSafe, SpaceAudienceIsClosed
<1> QED
  BY <1>6, <1>7

\* An update is validated against the rows of its own transaction, so that it
\* leaves its memo where both author and placement exist, and with no share
\* when the audience becomes SPACE.
LEMMA CommitSafe ==
  ASSUME MemosSafe, NEW r \in Request, CommitUpdateMemo(r)
  PROVE  (NoDanglingMemo /\ SpaceAudienceIsClosed)'
<1> DEFINE q == inflight[r]
<1>1. /\ q \in Update /\ q.memo \in Memo /\ ValidateMemoWriteSnapshot(q)
      /\ memo[q.memo] \in MemoRow /\ memo'[q.memo] \in MemoRow
      /\ memo'[q.memo].creator = memo[q.memo].creator
      /\ memo'[q.memo].visibility = ResultVisibility(q)
      /\ memo'[q.memo].space = ResultSpace(q)
      /\ \A m \in Memo \ {q.memo} : memo'[m] = memo[m]
      /\ share' = share /\ user' = user /\ space' = space
  BY CommitEffect DEF MemosSafe, vars
<1>2. MemoTables /\ NoDanglingMemo /\ SpaceAudienceIsClosed
  BY DEF MemosSafe
<1> HIDE DEF q
<1>3. MemoExists(q.memo) /\ memo'[q.memo].state \in {"NORMAL", "ARCHIVED"}
  BY <1>1, <1>2, RowOfMemo DEF MemoRow
<1>4. PlacementWritable(ResultSpace(q))
  BY <1>1 DEF ValidateMemoWriteSnapshot, SourceWritable, TargetWritable, ResultSpace
<1>5. NoDanglingMemo'
  <2>1. ASSUME NEW m \in Memo, MemoExists(m)'
        PROVE  (UserExists(memo[m].creator) /\ PlacementWritable(memo[m].space))'
    <3>1. CASE m = q.memo
      BY <1>1, <1>2, <1>3, <1>4, <3>1
         DEF NoDanglingMemo, UserExists, PlacementWritable, SpaceExists
    <3>2. CASE m # q.memo
      BY <1>1, <1>2, <2>1, <3>2
         DEF NoDanglingMemo, MemoExists, UserExists, PlacementWritable, SpaceExists
    <3> QED
      BY <3>1, <3>2
  <2>2. ASSUME NEW x \in Share, share[x] # NoShare PROVE MemoExists(share[x].memo)'
    <3>1. share[x].memo \in Memo /\ MemoExists(share[x].memo)
      BY <1>2, <2>2 DEF MemoTables, ShareRow, NoDanglingMemo
    <3> QED
      BY <1>1, <1>3, <3>1 DEF MemoExists
  <2> QED
    BY <1>1, <2>1, <2>2 DEF NoDanglingMemo
<1>6. SpaceAudienceIsClosed'
  <2>1. ASSUME ResultVisibility(q) = "SPACE"
        PROVE  ResultSpace(q) # NoSpace /\ ~HasActiveShare(q.memo)
    <3>1. ResultSpace(q) # NoSpace
      BY <1>1, <2>1 DEF ValidateMemoWriteSnapshot, AudienceConfirmed
    <3>2. CASE "visibility" \in q.paths
      BY <1>1, <2>1, <3>1, <3>2 DEF ValidateMemoWriteSnapshot, ShareFree, ResultVisibility
    <3>3. CASE "visibility" \notin q.paths
      BY <1>1, <1>2, <1>3, <2>1, <3>1, <3>3 DEF SpaceAudienceIsClosed, ResultVisibility
    <3> QED
      BY <3>2, <3>3
  <2>2. ASSUME NEW m \in Memo PROVE HasActiveShare(m)' <=> HasActiveShare(m)
    BY <1>1 DEF HasActiveShare
  <2>3. ASSUME NEW m \in Memo, MemoExists(m)', memo'[m].visibility = "SPACE"
        PROVE  memo'[m].space # NoSpace /\ ~HasActiveShare(m)
    <3>1. CASE m = q.memo
      BY <1>1, <2>1, <2>3, <3>1
    <3>2. CASE m # q.memo
      BY <1>1, <1>2, <2>3, <3>2 DEF SpaceAudienceIsClosed, MemoExists
    <3> QED
      BY <3>1, <3>2
  <2> QED
    BY <2>2, <2>3 DEF SpaceAudienceIsClosed
<1> QED
  BY <1>5, <1>6

\* Creating and expiring shares, and deleting one.
LEMMA ShareSafe ==
  ASSUME MemosSafe, ShareNext
  PROVE  (NoDanglingMemo /\ SpaceAudienceIsClosed)'
<1>1. MemoTables /\ NoDanglingMemo /\ SpaceAudienceIsClosed
  BY DEF MemosSafe
<1>2. memo' = memo /\ user' = user /\ space' = space
  BY DEF ShareNext, CreateMemoShare, DeleteMemoShare, ExpireMemoShare, vars
<1>3. PICK x \in Share :
        \/ \E m \in Memo, u \in User : CreateMemoShare(x, m, u)
        \/ \E u \in User : DeleteMemoShare(x, u)
        \/ ExpireMemoShare(x)
  BY DEF ShareNext
<1>4. \A y \in Share \ {x} : share'[y] = share[y]
  BY <1>1, <1>3 DEF CreateMemoShare, DeleteMemoShare, ExpireMemoShare, MemoTables
<1>5. \/ share'[x] = NoShare
      \/ share'[x].status = "EXPIRED" /\ share[x] # NoShare /\ share'[x].memo = share[x].memo
      \/ MemoExists(share'[x].memo) /\ memo[share'[x].memo].visibility # "SPACE"
  <2>1. ASSUME NEW m \in Memo, NEW u \in User, CreateMemoShare(x, m, u)
        PROVE  MemoExists(share'[x].memo) /\ memo[share'[x].memo].visibility # "SPACE"
    BY <1>1, <2>1 DEF CreateMemoShare, MemoWritable, MemoTables
  <2>2. ASSUME NEW u \in User, DeleteMemoShare(x, u) PROVE share'[x] = NoShare
    BY <1>1, <2>2 DEF DeleteMemoShare, MemoTables
  <2>3. CASE ExpireMemoShare(x)
    <3>1. share[x] \in ShareRow /\ share[x] # NoShare
      BY <1>1, <2>3 DEF ExpireMemoShare, MemoTables, NoShare
    <3>2. share'[x] = [share[x] EXCEPT !.status = "EXPIRED"]
      BY <1>1, <2>3 DEF ExpireMemoShare, MemoTables
    <3> QED
      BY <3>1, <3>2 DEF ShareRow
  <2> QED
    BY <1>3, <2>1, <2>2, <2>3
<1>6. NoDanglingMemo'
  BY <1>1, <1>2, <1>4, <1>5
     DEF NoDanglingMemo, MemoExists, UserExists, PlacementWritable, SpaceExists
<1>7. ASSUME NEW m \in Memo, MemoExists(m), memo[m].visibility = "SPACE"
      PROVE  ~HasActiveShare(m)'
  BY <1>1, <1>2, <1>4, <1>5, <1>7 DEF SpaceAudienceIsClosed, HasActiveShare, NoShare
<1> QED
  BY <1>1, <1>2, <1>6, <1>7 DEF SpaceAudienceIsClosed, MemoExists

\* Every step of the store with memos keeps its invariant.
LEMMA MemosSafeStep == MemosSafe /\ [MemosNext]_allVars => MemosSafe'
<1> SUFFICES ASSUME MemosSafe, [MemosNext]_allVars
             PROVE  (NoDanglingMemo /\ SpaceAudienceIsClosed)'
  BY TablesStep, MemosStepIsSpacesStep, NextType DEF MemosSafe
<1>1. CASE MembershipNext
  BY <1>1, MembershipKeepsRows, RowsKept DEF MembershipNext, memoVars, MemosSafe
<1>2. ASSUME NEW m \in Memo, NEW u \in User, NEW v \in Visibility,
             NEW s \in Space \cup {NoSpace}, CreateMemo(m, u, v, s)
      PROVE  (NoDanglingMemo /\ SpaceAudienceIsClosed)'
  <2>1. /\ memo'[m] = [creator |-> u, state |-> "NORMAL", content |-> 0,
                       visibility |-> v, space |-> s]
        /\ \A n \in Memo \ {m} : memo'[n] = memo[n]
        /\ share' = share /\ user' = user /\ space' = space
        /\ UserExists(u) /\ PlacementWritable(s) /\ (v = "SPACE" => s # NoSpace)
    BY <1>2 DEF CreateMemo, MemosSafe, MemoTables, vars, ActiveUser, UserExists
  <2>2. ~MemoExists(m)
    BY <1>2 DEF CreateMemo, MemoExists, Unused
  <2>3. MemoExists(m)'
    BY <2>1 DEF MemoExists
  <2>4. ~HasActiveShare(m)
    BY <2>2 DEF MemosSafe, NoDanglingMemo, HasActiveShare, NoShare
  <2>5. \A n \in Memo : MemoExists(n) => MemoExists(n)'
    BY <2>1, <2>2 DEF MemoExists
  <2>6. \A x \in Share : share[x] # NoShare => share[x].memo \in Memo
    BY DEF MemosSafe, MemoTables, ShareRow
  <2>7. NoDanglingMemo'
    BY <2>1, <2>5, <2>6
       DEF MemosSafe, NoDanglingMemo, MemoExists, UserExists, PlacementWritable, SpaceExists
  <2>8. SpaceAudienceIsClosed'
    BY <2>1, <2>4 DEF MemosSafe, SpaceAudienceIsClosed, HasActiveShare, MemoExists
  <2> QED
    BY <2>7, <2>8
<1>3. ASSUME NEW m \in Memo, NEW u \in User, DeleteMemo(m, u)
      PROVE  (NoDanglingMemo /\ SpaceAudienceIsClosed)'
  BY <1>3, DeletionSafe DEF DeleteMemo, vars
<1>4. ASSUME NEW s \in Space, NEW u \in User, DeleteSpaceWithMemos(s, u)
      PROVE  (NoDanglingMemo /\ SpaceAudienceIsClosed)'
  <2> DEFINE ms == {m \in Memo : MemoExists(m) /\ memo[m].space = s}
  <2>1. user' = user /\ \A t \in Space \ {s} : space'[t] = space[t]
    BY <1>4 DEF DeleteSpaceWithMemos, DeleteSpace, DoDeleteSpace, MemosSafe, TypeOK
  <2>2. \A m \in Memo : MemoExists(m) => memo[m].space \in Space \cup {NoSpace}
    BY RowOfMemo DEF MemosSafe, MemoRow
  <2>3. DeleteMemoSet(ms)
    BY <1>4 DEF DeleteSpaceWithMemos
  <2> QED
    BY <2>1, <2>2, <2>3, DeletionSafe
<1>5. ASSUME NEW u \in User, DeleteUserWithMemos(u)
      PROVE  (NoDanglingMemo /\ SpaceAudienceIsClosed)'
  <2> DEFINE ms == {m \in Memo : MemoExists(m) /\ memo[m].creator = u}
  <2>1. space' = space /\ \A v \in User \ {u} : user'[v] = user[v]
    BY <1>5 DEF DeleteUserWithMemos, DeleteUser, DoDeleteUser, MemosSafe, TypeOK
  <2>2. \A m \in Memo : MemoExists(m) => memo[m].creator \in User
    BY RowOfMemo DEF MemosSafe, MemoRow
  <2>3. DeleteMemoSet(ms)
    BY <1>5 DEF DeleteUserWithMemos
  <2> QED
    BY <2>1, <2>2, <2>3, DeletionSafe
<1>6. CASE UNCHANGED <<vars, memo, share>>
  BY <1>6, RowsKept DEF vars, UserExists, SpaceExists
<1> QED
  BY <1>1, <1>2, <1>3, <1>4, <1>5, <1>6, CommitSafe, ShareSafe
     DEF MemosNext, MemoNext, PrepareUpdateMemo, RejectUpdateMemo, allVars, memoVars

\* The initial tables are empty.
LEMMA MemosSafeInit == MemosInit => MemosSafe
<1> SUFFICES ASSUME MemosInit PROVE MemosSafe
  OBVIOUS
<1>1. TypeOK /\ MemoTables
  BY InitType DEF MemosInit, MemoTables
<1>2. NoDanglingMemo /\ SpaceAudienceIsClosed
  BY DEF MemosInit, NoDanglingMemo, SpaceAudienceIsClosed, MemoExists, Unused
<1> QED
  BY <1>1, <1>2 DEF MemosSafe

\* The tables, the shares and the requests in flight are well typed, nothing
\* dangles and the audience SPACE is closed, in every reachable state.
THEOREM MemosSafeAlways == MemosSpec => []MemosSafe
BY MemosSafeInit, MemosSafeStep, PTL DEF MemosSpec

\* Memo, share and request records have their declared shape.
THEOREM MemosTyped == MemosSpec => []MemosTypeOK
<1>1. MemosSafe => MemosTypeOK
  BY DEF MemosSafe, MemoTables, MemosTypeOK
<1> QED
  BY <1>1, MemosSafeAlways, PTL

\* No memo outlives its space or author and no share its memo, although an
\* update that was prepared before a deletion may commit after it.
THEOREM NothingDangles == MemosSpec => []NoDanglingMemo
<1>1. MemosSafe => NoDanglingMemo
  BY DEF MemosSafe
<1> QED
  BY <1>1, MemosSafeAlways, PTL

\* No unexpired bearer share discloses a memo whose audience is SPACE, whatever
\* order shares, audience changes and moves come in.
THEOREM SpaceAudienceStaysClosed == MemosSpec => []SpaceAudienceIsClosed
<1>1. MemosSafe => SpaceAudienceIsClosed
  BY DEF MemosSafe
<1> QED
  BY <1>1, MemosSafeAlways, PTL

-----------------------------------------------------------------------------
(* Authors.                                                                *)

\* The lifecycle exception is worth no more than a move: an author who is no
\* longer a member takes a memo out unchanged, and a memo only enters a space
\* of which its author is an active member.
THEOREM RemovedAuthorsWithdraw == MemosSpec => RemovedAuthorOnlyWithdraws
<1>1. MemosSafe /\ [MemosNext]_allVars => [AuthorStep]_allVars
  <2> SUFFICES ASSUME MemosSafe, MemosNext PROVE AuthorStep
    OBVIOUS
  <2>1. CASE memo' = memo
    BY <2>1 DEF AuthorStep, MemoExists
  <2>2. ASSUME NEW m \in Memo, NEW u \in User, NEW v \in Visibility,
               NEW s \in Space \cup {NoSpace}, CreateMemo(m, u, v, s)
        PROVE  AuthorStep
    <3>1. /\ memo'[m] = [creator |-> u, state |-> "NORMAL", content |-> 0,
                         visibility |-> v, space |-> s]
          /\ \A n \in Memo \ {m} : memo'[n] = memo[n]
          /\ PlacementMember(s, u) /\ ActiveUser(u)
      BY <2>2 DEF CreateMemo, MemosSafe, MemoTables
    <3>2. ~MemoExists(m)
      BY <2>2 DEF CreateMemo, MemoExists, Unused
    <3> QED
      BY <3>1, <3>2 DEF AuthorStep, MemoExists
  <2>3. ASSUME NEW ms, DeleteMemoSet(ms) PROVE AuthorStep
    <3>1. \A m \in Memo : MemoExists(m)' => memo'[m] = memo[m]
      BY <2>3, DeleteEffect DEF MemosSafe
    <3> QED
      BY <3>1 DEF AuthorStep, MemoExists
  <2>4. ASSUME NEW r \in Request, CommitUpdateMemo(r) PROVE AuthorStep
    <3> DEFINE q == inflight[r]
    <3>1. /\ q.memo \in Memo /\ ValidateMemoWriteSnapshot(q)
          /\ memo'[q.memo].creator = memo[q.memo].creator
          /\ memo'[q.memo].space = ResultSpace(q)
          /\ "other" \notin q.paths =>
               /\ memo'[q.memo].state = memo[q.memo].state
               /\ memo'[q.memo].content = memo[q.memo].content
          /\ \A m \in Memo \ {q.memo} : memo'[m] = memo[m]
      BY <2>4, CommitEffect DEF MemosSafe
    <3> HIDE DEF q
    <3>2. MemoExists(q.memo) /\ memo[q.memo].creator = q.actor /\ ActiveUser(q.actor)
      BY <3>1 DEF ValidateMemoWriteSnapshot
    <3>3. \/ PlacementMember(memo[q.memo].space, q.actor)
          \/ /\ ResultSpace(q) # memo[q.memo].space
             /\ "other" \notin q.paths
      BY <3>1 DEF ValidateMemoWriteSnapshot, SourceWritable, SpaceChanged
    <3>4. ResultSpace(q) # memo[q.memo].space => PlacementMember(ResultSpace(q), q.actor)
      BY <3>1 DEF ValidateMemoWriteSnapshot, TargetWritable, ResultSpace
    <3> QED
      BY <3>1, <3>2, <3>3, <3>4 DEF AuthorStep, MemoExists
  <2> QED
    BY <2>1, <2>2, <2>3, <2>4
       DEF MemosNext, MembershipNext, MemoNext, ShareNext, DeleteMemo, DeleteSpaceWithMemos,
           DeleteUserWithMemos, PrepareUpdateMemo, RejectUpdateMemo, CreateMemoShare,
           DeleteMemoShare, ExpireMemoShare, memoVars
<1> QED
  BY <1>1, MemosSafeAlways, PTL DEF MemosSpec, RemovedAuthorOnlyWithdraws

-----------------------------------------------------------------------------
(* SpacesReadCommitted: the programs of the PostgreSQL driver.             *)

\* The fields a request has, by its name.
LEMMA OpFields ==
  ASSUME NEW o \in Op
  PROVE  \/ o.name = "CreateSpace" /\ o.s \in Space /\ o.u \in User /\ o.p \in Profile
         \/ o.name = "UpdateSpace" /\ o.s \in Space /\ o.p \in Profile
         \/ o.name = "DeleteSpace" /\ o.s \in Space
         \/ o.name \in {"Invite", "UpdateMember"} /\ o.s \in Space /\ o.u \in User /\ o.role \in Role
         \/ o.name \in {"Revoke", "DeleteMember", "Accept", "Decline"} /\ o.s \in Space /\ o.u \in User
         \/ o.name \in {"Archive", "Restore", "DeleteUser"} /\ o.u \in User
<1>1. CASE o \in [name : {"CreateSpace"}, s : Space, u : User, p : Profile]
  BY <1>1
<1>2. CASE o \in [name : {"UpdateSpace"}, s : Space, actor : User, p : Profile]
  BY <1>2
<1>3. CASE o \in [name : {"DeleteSpace"}, s : Space, actor : User]
  BY <1>3
<1>4. CASE o \in RoleRequest
  BY <1>4 DEF RoleRequest
<1>5. CASE o \in [name : {"Revoke", "DeleteMember"}, s : Space, u : User, actor : User]
  BY <1>5
<1>6. CASE o \in [name : {"Accept", "Decline"}, s : Space, u : User]
  BY <1>6
<1>7. CASE o \in [name : {"Archive", "Restore", "DeleteUser"}, u : User]
  BY <1>7
<1> QED
  BY <1>1, <1>2, <1>3, <1>4, <1>5, <1>6, <1>7 DEF Op

\* Statements that only read.
Reads ==
    {"readActorStatus", "readSpace", "readActorAdmin", "readActorRole", "readSummary", "readUser",
     "readMember", "countAdmins", "readActorStatusUnlessSelf", "readUserStatus",
     "readActorRoleUnlessSelf", "checkArchive", "countMemberships"}

\* Statement st is in place n of the program of an operation, which has len
\* places.  The operations listed last lock rows by their last statement only.
Place(name, n, st, len) ==
    \/ /\ name = "CreateSpace" /\ len = 2
       /\ \/ n = 1 /\ st = "lockUser"
          \/ n = 2 /\ st = "insertSpace"
    \/ /\ name = "UpdateSpace" /\ len = 5
       /\ \/ n \in 1..3 /\ st \in Reads
          \/ n = 4 /\ st = "updateSpace"
          \/ n = 5 /\ st \in Reads
    \/ /\ name = "DeleteSpace" /\ len = 6
       /\ \/ n \in {1, 3} /\ st \in Reads
          \/ n = 2 /\ st = "lockSpace"
          \/ n = 4 /\ st = "deleteSpaceMemos"
          \/ n = 5 /\ st = "deleteMembers"
          \/ n = 6 /\ st = "deleteSpace"
    \/ /\ name = "Invite" /\ len = 5
       /\ \/ n \in 1..2 /\ st \in Reads
          \/ n = 3 /\ st = "lockSpace"
          \/ n = 4 /\ st = "lockUser"
          \/ n = 5 /\ st = "insertInvitation"
    \/ /\ name = "Accept" /\ len = 2
       /\ \/ n = 1 /\ st = "lockUser"
          \/ n = 2 /\ st = "accept"
    \/ /\ name = "DeleteUser" /\ len = 5
       /\ \/ n = 1 /\ st = "lockUserRow"
          \/ n = 2 /\ st = "countMemberships"
          \/ n = 3 /\ st = "deleteInvitations"
          \/ n = 4 /\ st = "deleteUserMemos"
          \/ n = 5 /\ st = "deleteUser"
    \/ /\ name \in {"Decline", "Revoke", "UpdateMember", "DeleteMember", "Archive", "Restore"}
       /\ \/ n < len /\ st \in Reads
          \/ /\ n = len
             /\ \/ name \in {"Decline", "Revoke"} /\ st = "deleteInvitation"
                \/ name = "UpdateMember" /\ st = "updateRole"
                \/ name = "DeleteMember" /\ st = "deleteMember"
                \/ name \in {"Archive", "Restore"} /\ st = "updateUser"

\* The table is what the programs say.
LEMMA Places ==
  ASSUME NEW o \in Op
  PROVE  LET P == Program(o.name)
         IN  /\ Len(P) \in Nat
             /\ \A n \in Nat \ {0} : n <= Len(P) => Place(o.name, n, P[n], Len(P))
<1> SUFFICES ASSUME NEW n \in Nat \ {0}
             PROVE  /\ Len(Program(o.name)) \in Nat
                    /\ n <= Len(Program(o.name)) =>
                         Place(o.name, n, Program(o.name)[n], Len(Program(o.name)))
  OBVIOUS
<1>1. CASE o.name = "CreateSpace"
  <2>1. Program(o.name) = CreateSpaceProgram
    BY <1>1 DEF Program
  <2>2. Len(CreateSpaceProgram) = 2 /\ CreateSpaceProgram[1] = "lockUser"
        /\ CreateSpaceProgram[2] = "insertSpace"
    BY DEF CreateSpaceProgram
  <2>3. n <= 2 => n = 1 \/ n = 2
    OBVIOUS
  <2>4. n <= 2 => Place("CreateSpace", n, CreateSpaceProgram[n], 2)
    BY <2>2, <2>3 DEF Place, Reads
  <2>5. Len(Program(o.name)) = 2 /\ 2 \in Nat
    BY <2>1, <2>2
  <2> QED
    BY <1>1, <2>1, <2>4, <2>5, Zenon
<1>2. CASE o.name = "UpdateSpace"
  <2>1. Program(o.name) = UpdateSpaceProgram
    BY <1>2 DEF Program
  <2>2. Len(UpdateSpaceProgram) = 5 /\ UpdateSpaceProgram[1] = "readActorStatus"
        /\ UpdateSpaceProgram[2] = "readSpace"
        /\ UpdateSpaceProgram[3] = "readActorAdmin"
        /\ UpdateSpaceProgram[4] = "updateSpace"
        /\ UpdateSpaceProgram[5] = "readSummary"
    BY DEF UpdateSpaceProgram
  <2>3. n <= 5 => n = 1 \/ n = 2 \/ n = 3 \/ n = 4 \/ n = 5
    OBVIOUS
  <2>4. n <= 5 => Place("UpdateSpace", n, UpdateSpaceProgram[n], 5)
    BY <2>2, <2>3 DEF Place, Reads
  <2>5. Len(Program(o.name)) = 5 /\ 5 \in Nat
    BY <2>1, <2>2
  <2> QED
    BY <1>2, <2>1, <2>4, <2>5, Zenon
<1>3. CASE o.name = "DeleteSpace"
  <2>1. Program(o.name) = DeleteSpaceProgram
    BY <1>3 DEF Program
  <2>2. Len(DeleteSpaceProgram) = 6 /\ DeleteSpaceProgram[1] = "readActorStatus"
        /\ DeleteSpaceProgram[2] = "lockSpace"
        /\ DeleteSpaceProgram[3] = "readActorRole"
        /\ DeleteSpaceProgram[4] = "deleteSpaceMemos"
        /\ DeleteSpaceProgram[5] = "deleteMembers"
        /\ DeleteSpaceProgram[6] = "deleteSpace"
    BY DEF DeleteSpaceProgram
  <2>3. n <= 6 => n = 1 \/ n = 2 \/ n = 3 \/ n = 4 \/ n = 5 \/ n = 6
    OBVIOUS
  <2>4. n <= 6 => Place("DeleteSpace", n, DeleteSpaceProgram[n], 6)
    BY <2>2, <2>3 DEF Place, Reads
  <2>5. Len(Program(o.name)) = 6 /\ 6 \in Nat
    BY <2>1, <2>2
  <2> QED
    BY <1>3, <2>1, <2>4, <2>5, Zenon
<1>4. CASE o.name = "Invite"
  <2>1. Program(o.name) = InviteProgram
    BY <1>4 DEF Program
  <2>2. Len(InviteProgram) = 5 /\ InviteProgram[1] = "readSpace"
        /\ InviteProgram[2] = "readActorAdmin"
        /\ InviteProgram[3] = "lockSpace"
        /\ InviteProgram[4] = "lockUser"
        /\ InviteProgram[5] = "insertInvitation"
    BY DEF InviteProgram
  <2>3. n <= 5 => n = 1 \/ n = 2 \/ n = 3 \/ n = 4 \/ n = 5
    OBVIOUS
  <2>4. n <= 5 => Place("Invite", n, InviteProgram[n], 5)
    BY <2>2, <2>3 DEF Place, Reads
  <2>5. Len(Program(o.name)) = 5 /\ 5 \in Nat
    BY <2>1, <2>2
  <2> QED
    BY <1>4, <2>1, <2>4, <2>5, Zenon
<1>5. CASE o.name = "Accept"
  <2>1. Program(o.name) = AcceptProgram
    BY <1>5 DEF Program
  <2>2. Len(AcceptProgram) = 2 /\ AcceptProgram[1] = "lockUser"
        /\ AcceptProgram[2] = "accept"
    BY DEF AcceptProgram
  <2>3. n <= 2 => n = 1 \/ n = 2
    OBVIOUS
  <2>4. n <= 2 => Place("Accept", n, AcceptProgram[n], 2)
    BY <2>2, <2>3 DEF Place, Reads
  <2>5. Len(Program(o.name)) = 2 /\ 2 \in Nat
    BY <2>1, <2>2
  <2> QED
    BY <1>5, <2>1, <2>4, <2>5, Zenon
<1>6. CASE o.name = "DeleteUser"
  <2>1. Program(o.name) = DeleteUserProgram
    BY <1>6 DEF Program
  <2>2. Len(DeleteUserProgram) = 5 /\ DeleteUserProgram[1] = "lockUserRow"
        /\ DeleteUserProgram[2] = "countMemberships"
        /\ DeleteUserProgram[3] = "deleteInvitations"
        /\ DeleteUserProgram[4] = "deleteUserMemos"
        /\ DeleteUserProgram[5] = "deleteUser"
    BY DEF DeleteUserProgram
  <2>3. n <= 5 => n = 1 \/ n = 2 \/ n = 3 \/ n = 4 \/ n = 5
    OBVIOUS
  <2>4. n <= 5 => Place("DeleteUser", n, DeleteUserProgram[n], 5)
    BY <2>2, <2>3 DEF Place, Reads
  <2>5. Len(Program(o.name)) = 5 /\ 5 \in Nat
    BY <2>1, <2>2
  <2> QED
    BY <1>6, <2>1, <2>4, <2>5, Zenon
<1>7. CASE o.name = "Decline"
  <2>1. Program(o.name) = DeclineProgram
    BY <1>7 DEF Program
  <2>2. Len(DeclineProgram) = 2 /\ DeclineProgram[1] = "readUser"
        /\ DeclineProgram[2] = "deleteInvitation"
    BY DEF DeclineProgram
  <2>3. n <= 2 => n = 1 \/ n = 2
    OBVIOUS
  <2>4. n <= 2 => Place("Decline", n, DeclineProgram[n], 2)
    BY <2>2, <2>3 DEF Place, Reads
  <2>5. Len(Program(o.name)) = 2 /\ 2 \in Nat
    BY <2>1, <2>2
  <2> QED
    BY <1>7, <2>1, <2>4, <2>5, Zenon
<1>8. CASE o.name = "Revoke"
  <2>1. Program(o.name) = RevokeProgram
    BY <1>8 DEF Program
  <2>2. Len(RevokeProgram) = 3 /\ RevokeProgram[1] = "readSpace"
        /\ RevokeProgram[2] = "readActorAdmin"
        /\ RevokeProgram[3] = "deleteInvitation"
    BY DEF RevokeProgram
  <2>3. n <= 3 => n = 1 \/ n = 2 \/ n = 3
    OBVIOUS
  <2>4. n <= 3 => Place("Revoke", n, RevokeProgram[n], 3)
    BY <2>2, <2>3 DEF Place, Reads
  <2>5. Len(Program(o.name)) = 3 /\ 3 \in Nat
    BY <2>1, <2>2
  <2> QED
    BY <1>8, <2>1, <2>4, <2>5, Zenon
<1>9. CASE o.name = "UpdateMember"
  <2>1. Program(o.name) = UpdateMemberProgram
    BY <1>9 DEF Program
  <2>2. Len(UpdateMemberProgram) = 6 /\ UpdateMemberProgram[1] = "readSpace"
        /\ UpdateMemberProgram[2] = "readActorAdmin"
        /\ UpdateMemberProgram[3] = "readUser"
        /\ UpdateMemberProgram[4] = "readMember"
        /\ UpdateMemberProgram[5] = "countAdmins"
        /\ UpdateMemberProgram[6] = "updateRole"
    BY DEF UpdateMemberProgram
  <2>3. n <= 6 => n = 1 \/ n = 2 \/ n = 3 \/ n = 4 \/ n = 5 \/ n = 6
    OBVIOUS
  <2>4. n <= 6 => Place("UpdateMember", n, UpdateMemberProgram[n], 6)
    BY <2>2, <2>3 DEF Place, Reads
  <2>5. Len(Program(o.name)) = 6 /\ 6 \in Nat
    BY <2>1, <2>2
  <2> QED
    BY <1>9, <2>1, <2>4, <2>5, Zenon
<1>10. CASE o.name = "DeleteMember"
  <2>1. Program(o.name) = DeleteMemberProgram
    BY <1>10 DEF Program
  <2>2. Len(DeleteMemberProgram) = 7 /\ DeleteMemberProgram[1] = "readActorStatusUnlessSelf"
        /\ DeleteMemberProgram[2] = "readUserStatus"
        /\ DeleteMemberProgram[3] = "readSpace"
        /\ DeleteMemberProgram[4] = "readActorRoleUnlessSelf"
        /\ DeleteMemberProgram[5] = "readMember"
        /\ DeleteMemberProgram[6] = "countAdmins"
        /\ DeleteMemberProgram[7] = "deleteMember"
    BY DEF DeleteMemberProgram
  <2>3. n <= 7 => n = 1 \/ n = 2 \/ n = 3 \/ n = 4 \/ n = 5 \/ n = 6 \/ n = 7
    OBVIOUS
  <2>4. n <= 7 => Place("DeleteMember", n, DeleteMemberProgram[n], 7)
    BY <2>2, <2>3 DEF Place, Reads
  <2>5. Len(Program(o.name)) = 7 /\ 7 \in Nat
    BY <2>1, <2>2
  <2> QED
    BY <1>10, <2>1, <2>4, <2>5, Zenon
<1>11. CASE o.name = "Archive"
  <2>1. Program(o.name) = ArchiveProgram
    BY <1>11 DEF Program
  <2>2. Len(ArchiveProgram) = 2 /\ ArchiveProgram[1] = "checkArchive"
        /\ ArchiveProgram[2] = "updateUser"
    BY DEF ArchiveProgram
  <2>3. n <= 2 => n = 1 \/ n = 2
    OBVIOUS
  <2>4. n <= 2 => Place("Archive", n, ArchiveProgram[n], 2)
    BY <2>2, <2>3 DEF Place, Reads
  <2>5. Len(Program(o.name)) = 2 /\ 2 \in Nat
    BY <2>1, <2>2
  <2> QED
    BY <1>11, <2>1, <2>4, <2>5, Zenon
<1>12. CASE o.name = "Restore"
  <2>1. Program(o.name) = RestoreProgram
    BY <1>12 DEF Program
  <2>2. Len(RestoreProgram) = 1 /\ RestoreProgram[1] = "updateUser"
    BY DEF RestoreProgram
  <2>3. n <= 1 => n = 1
    OBVIOUS
  <2>4. n <= 1 => Place("Restore", n, RestoreProgram[n], 1)
    BY <2>2, <2>3 DEF Place, Reads
  <2>5. Len(Program(o.name)) = 1 /\ 1 \in Nat
    BY <2>1, <2>2
  <2> QED
    BY <1>12, <2>1, <2>4, <2>5, Zenon
<1> QED
  BY <1>1, <1>2, <1>3, <1>4, <1>5, <1>6, <1>7, <1>8, <1>9, <1>10, <1>11, <1>12, OpFields

-----------------------------------------------------------------------------
(* The state of a transaction.                                             *)

\* A transaction, apart from its writes.
IsTx(x) ==
    /\ x = [op |-> x.op, pc |-> x.pc, held |-> x.held, writes |-> x.writes,
            sawAdmin |-> x.sawAdmin, sawNormal |-> x.sawNormal]
    /\ x.op \in Op /\ x.pc \in Nat \ {0} /\ x.held \subseteq RowLock

TxTyped ==
    /\ TypeOK
    /\ tx = [t \in Tx |-> tx[t]]
    /\ \A t \in Tx : tx[t] = NoTx \/ IsTx(tx[t])

\* Row locks are exclusive.
OneOwner ==
    \A t, v \in Tx : t # v /\ Running(t) /\ Running(v) => tx[t].held \cap tx[v].held = {}

\* The mark of a free connection is no transaction.
LEMMA NoTxIsNone == ~IsTx(NoTx)
  BY DEF IsTx, NoTx

\* Where a transaction is in its program.
LEMMA StatementPlace ==
  ASSUME TxTyped, NEW t \in Tx, Running(t), ~Finished(t)
  PROVE  /\ IsTx(tx[t])
         /\ Len(Program(tx[t].op.name)) \in Nat
         /\ tx[t].pc <= Len(Program(tx[t].op.name))
         /\ Place(tx[t].op.name, tx[t].pc, Statement(t), Len(Program(tx[t].op.name)))
<1>1. IsTx(tx[t])
  BY DEF TxTyped, Running
<1>2. tx[t].op \in Op /\ tx[t].pc \in Nat \ {0}
  BY <1>1 DEF IsTx
<1>3. Len(Program(tx[t].op.name)) \in Nat
  BY <1>2, Places
<1>4. tx[t].pc <= Len(Program(tx[t].op.name))
  BY <1>2, <1>3 DEF Finished
<1>5. Place(tx[t].op.name, tx[t].pc, Statement(t), Len(Program(tx[t].op.name)))
  BY <1>2, <1>3, <1>4, Places DEF Statement
<1> QED
  BY <1>1, <1>3, <1>4, <1>5

\* What each statement locks.
LEMMA LocksAre ==
  ASSUME NEW t \in Tx
  PROVE  LET o == tx[t].op
             st == Statement(t)
         IN  /\ st \in Reads => Locks(t) = {}
             /\ st \in {"lockUser", "lockUserRow", "updateUser", "deleteUser"} =>
                  Locks(t) = {<<"user", o.u>>}
             /\ st \in {"lockSpace", "updateSpace", "deleteSpace"} =>
                  Locks(t) = {<<"space", o.s>>}
             /\ st = "insertSpace" =>
                  Locks(t) = IF space[o.s] = "UNUSED"
                               THEN {<<"space", o.s>>} \cup MemberRows({o.s}, {o.u}) ELSE {}
             /\ st = "insertInvitation" => Locks(t) = MemberRows({o.s}, {o.u})
             /\ st \in {"accept", "deleteInvitation", "updateRole", "deleteMember"} =>
                  Locks(t) \subseteq MemberRows({o.s}, {o.u})
             /\ st = "deleteMembers" => Locks(t) \subseteq MemberRows({o.s}, User)
             /\ st = "deleteInvitations" => Locks(t) \subseteq MemberRows(Space, {o.u})
             /\ st = "deleteSpaceMemos" => Locks(t) = MemoRows({o.s}, User)
             /\ st = "deleteUserMemos" => Locks(t) = MemoRows(Space, {o.u})
<1> DEFINE o == tx[t].op
           st == Statement(t)
<1>1. st \in Reads => Locks(t) = {}
  BY DEF Reads, Locks
<1>2. st \in {"lockUser", "lockUserRow", "updateUser", "deleteUser"} =>
        Locks(t) = {<<"user", o.u>>}
  BY DEF Locks
<1>3. st \in {"lockSpace", "updateSpace", "deleteSpace"} => Locks(t) = {<<"space", o.s>>}
  BY DEF Locks
<1>4. st = "insertSpace" =>
        Locks(t) = IF space[o.s] = "UNUSED"
                     THEN {<<"space", o.s>>} \cup MemberRows({o.s}, {o.u}) ELSE {}
  BY DEF Locks
<1>5. st = "insertInvitation" => Locks(t) = MemberRows({o.s}, {o.u})
  BY DEF Locks
<1>6. st \in {"accept", "deleteInvitation"} =>
        Locks(t) = MemberRows({o.s}, {u \in {o.u} : Invited(o.s, u)})
  BY DEF Locks
<1>7. st \in {"updateRole", "deleteMember"} =>
        Locks(t) = MemberRows({o.s}, {u \in {o.u} : ActiveMember(o.s, u)})
  BY DEF Locks
<1>8. st = "deleteMembers" => Locks(t) = MemberRows({o.s}, {u \in User : member[o.s][u] # NoRow})
  BY DEF Locks
<1>9. st = "deleteInvitations" => Locks(t) = MemberRows({s \in Space : Invited(s, o.u)}, {o.u})
  BY DEF Locks
<1>10. st = "deleteSpaceMemos" => Locks(t) = MemoRows({o.s}, User)
  BY DEF Locks
<1>11. st = "deleteUserMemos" => Locks(t) = MemoRows(Space, {o.u})
  BY DEF Locks
<1>12. \A S, T, U, V : S \subseteq U /\ T \subseteq V => MemberRows(S, T) \subseteq MemberRows(U, V)
  BY DEF MemberRows
<1>13. st \in {"accept", "deleteInvitation", "updateRole", "deleteMember"} =>
         Locks(t) \subseteq MemberRows({o.s}, {o.u})
  BY <1>6, <1>7, <1>12
<1>14. st = "deleteMembers" => Locks(t) \subseteq MemberRows({o.s}, User)
  BY <1>8, <1>12
<1>15. st = "deleteInvitations" => Locks(t) \subseteq MemberRows(Space, {o.u})
  BY <1>9, <1>12
<1> QED
  BY <1>1, <1>2, <1>3, <1>4, <1>5, <1>10, <1>11, <1>13, <1>14, <1>15, Zenon

\* What has to hold for a statement to let its transaction go on.
LEMMA HoldsAre ==
  ASSUME NEW t \in Tx, Holds(t)
  PROVE  LET o == tx[t].op
             st == Statement(t)
         IN  /\ st = "lockUser" => ActiveUser(o.u)
             /\ st \in {"lockUserRow", "updateUser"} => UserExists(o.u)
             /\ st \in {"lockSpace", "updateSpace", "deleteSpace"} => SpaceExists(o.s)
             /\ st = "insertSpace" => space[o.s] = "UNUSED"
             /\ st = "accept" => Invited(o.s, o.u)
             /\ st = "updateRole" => ActiveMember(o.s, o.u)
             /\ st = "countMemberships" => \A s \in Space : ~ActiveMember(s, o.u)
<1> DEFINE o == tx[t].op
           st == Statement(t)
<1>1. st = "lockUser" => ActiveUser(o.u)
  BY DEF Holds
<1>2. st \in {"lockUserRow", "updateUser"} => UserExists(o.u)
  BY DEF Holds
<1>3. st \in {"lockSpace", "updateSpace", "deleteSpace"} => SpaceExists(o.s)
  BY DEF Holds
<1>4. st = "insertSpace" => space[o.s] = "UNUSED"
  BY DEF Holds
<1>5. st = "accept" => Invited(o.s, o.u)
  BY DEF Holds
<1>6. st = "updateRole" => ActiveMember(o.s, o.u)
  BY DEF Holds
<1>7. st = "countMemberships" => \A s \in Space : ~ActiveMember(s, o.u)
  BY DEF Holds
<1> QED
  BY <1>1, <1>2, <1>3, <1>4, <1>5, <1>6, <1>7, Zenon

\* What each statement writes.
LEMMA WritesAre ==
  ASSUME NEW t \in Tx
  PROVE  LET o == tx[t].op
             st == Statement(t)
         IN  /\ st \in Reads \cup {"lockUser", "lockUserRow", "lockSpace", "deleteSpaceMemos",
                                   "deleteUserMemos"} => Writes(t) = {}
             /\ st \in {"deleteMembers", "deleteInvitations", "deleteInvitation", "deleteMember"} =>
                  Writes(t) = {<<row, NoRow>> : row \in Locks(t)}
             /\ st = "insertInvitation" =>
                  Writes(t) = {<<row, [status |-> "INVITED", role |-> o.role]>> : row \in Locks(t)}
             /\ st = "accept" =>
                  Writes(t) = {<<row, [status |-> "ACTIVE", role |-> member[o.s][o.u].role]>> :
                                 row \in Locks(t)}
             /\ st = "updateRole" =>
                  Writes(t) = {<<row, [status |-> "ACTIVE", role |-> o.role]>> : row \in Locks(t)}
             /\ st = "updateUser" =>
                  Writes(t) = {<<row, IF o.name = "Archive" THEN "ARCHIVED" ELSE "NORMAL">> :
                                 row \in Locks(t)}
             /\ st = "deleteUser" => Writes(t) = {<<row, "DELETED">> : row \in Locks(t)}
             /\ st = "deleteSpace" =>
                  Writes(t) = {<<<<"space", o.s>>, "DELETED">>, <<<<"profile", o.s>>, NoProfile>>}
             /\ st = "updateSpace" => Writes(t) = {<<<<"profile", o.s>>, o.p>>}
             /\ st = "insertSpace" =>
                  Writes(t) = {<<<<"space", o.s>>, "LIVE">>, <<<<"profile", o.s>>, o.p>>,
                               <<<<"member", o.s, o.u>>, [status |-> "ACTIVE", role |-> "ADMIN"]>>}
<1> DEFINE o == tx[t].op
           st == Statement(t)
<1>1. st \in Reads \cup {"lockUser", "lockUserRow", "lockSpace", "deleteSpaceMemos",
                         "deleteUserMemos"} => Writes(t) = {}
  BY DEF Reads, Writes
<1>2. st \in {"deleteMembers", "deleteInvitations", "deleteInvitation", "deleteMember"} =>
        Writes(t) = {<<row, NoRow>> : row \in Locks(t)}
  BY DEF Writes
<1>3. st = "insertInvitation" =>
        Writes(t) = {<<row, [status |-> "INVITED", role |-> o.role]>> : row \in Locks(t)}
  BY DEF Writes
<1>4. st = "accept" =>
        Writes(t) = {<<row, [status |-> "ACTIVE", role |-> member[o.s][o.u].role]>> :
                       row \in Locks(t)}
  BY DEF Writes
<1>5. st = "updateRole" =>
        Writes(t) = {<<row, [status |-> "ACTIVE", role |-> o.role]>> : row \in Locks(t)}
  BY DEF Writes
<1>6. st = "updateUser" =>
        Writes(t) = {<<row, IF o.name = "Archive" THEN "ARCHIVED" ELSE "NORMAL">> :
                       row \in Locks(t)}
  BY DEF Writes
<1>7. st = "deleteUser" => Writes(t) = {<<row, "DELETED">> : row \in Locks(t)}
  BY DEF Writes
<1>8. st = "deleteSpace" =>
        Writes(t) = {<<<<"space", o.s>>, "DELETED">>, <<<<"profile", o.s>>, NoProfile>>}
  BY DEF Writes
<1>9. st = "updateSpace" => Writes(t) = {<<<<"profile", o.s>>, o.p>>}
  BY DEF Writes
<1>10. st = "insertSpace" =>
         Writes(t) = {<<<<"space", o.s>>, "LIVE">>, <<<<"profile", o.s>>, o.p>>,
                      <<<<"member", o.s, o.u>>, [status |-> "ACTIVE", role |-> "ADMIN"]>>}
  BY DEF Writes
<1> QED
  BY <1>1, <1>2, <1>3, <1>4, <1>5, <1>6, <1>7, <1>8, <1>9, <1>10, Zenon

-----------------------------------------------------------------------------
(* The inductive invariant.                                                *)

\* The kinds of row that an operation holds when it is about to execute
\* statement n of its program.
Keeps(name, n, kind) ==
    \/ name = "CreateSpace" /\ n = 2 /\ kind = "user"
    \/ name = "UpdateSpace" /\ n = 5 /\ kind = "space"
    \/ name = "DeleteSpace" /\ n \in 3..6 /\ kind = "space"
    \/ name = "DeleteSpace" /\ n \in 5..6 /\ kind = "memo"
    \/ name = "DeleteSpace" /\ n = 6 /\ kind = "member"
    \/ name = "Invite" /\ n \in 4..5 /\ kind = "space"
    \/ name = "Invite" /\ n = 5 /\ kind = "user"
    \/ name = "Accept" /\ n = 2 /\ kind = "user"
    \/ name = "DeleteUser" /\ n \in 2..5 /\ kind = "user"
    \/ name = "DeleteUser" /\ n \in 4..5 /\ kind = "member"
    \/ name = "DeleteUser" /\ n = 5 /\ kind = "memo"

KindsInv(t) == ~Finished(t) => \A r \in tx[t].held : Keeps(tx[t].op.name, tx[t].pc, r[1])

MemberDeleted(t, s, u) == <<<<"member", s, u>>, NoRow>> \in tx[t].writes

\* What a transaction has read and locked is still so.
ReadsStand(t) ==
    LET o == tx[t].op
        h == tx[t].held
    IN  /\ o.name \in {"CreateSpace", "Accept"} /\ tx[t].pc > 1 =>
             <<"user", o.u>> \in h /\ ActiveUser(o.u)
        /\ o.name = "Invite" /\ tx[t].pc > 4 => <<"user", o.u>> \in h /\ ActiveUser(o.u)
        /\ o.name = "Invite" /\ tx[t].pc > 3 => <<"space", o.s>> \in h /\ SpaceExists(o.s)
        /\ o.name = "Invite" => \A s \in Space : <<"space", s>> \in h => SpaceExists(s)
        /\ o.name = "DeleteSpace" /\ tx[t].pc > 2 => <<"space", o.s>> \in h /\ SpaceExists(o.s)
        /\ o.name = "DeleteSpace" /\ tx[t].pc > 5 =>
             \A u \in User : member[o.s][u] # NoRow => MemberDeleted(t, o.s, u)
        /\ o.name = "DeleteUser" /\ tx[t].pc > 1 => <<"user", o.u>> \in h /\ UserExists(o.u)
        /\ o.name = "DeleteUser" /\ tx[t].pc > 2 => \A s \in Space : ~ActiveMember(s, o.u)
        /\ o.name = "DeleteUser" /\ tx[t].pc > 3 =>
             \A s \in Space : member[s][o.u] # NoRow => MemberDeleted(t, s, o.u)

\* Why a transaction may write a row that grants or keeps a membership.
Granted(t, s, u, row) ==
    LET h == tx[t].held
    IN  \/ /\ tx[t].op.name = "CreateSpace"
           /\ <<"space", s>> \in h /\ space[s] = "UNUSED"
           /\ <<"user", u>> \in h /\ ActiveUser(u)
           /\ <<<<"space", s>>, "LIVE">> \in tx[t].writes
           /\ row = [status |-> "ACTIVE", role |-> "ADMIN"]
        \/ /\ tx[t].op.name = "Invite"
           /\ <<"space", s>> \in h /\ SpaceExists(s)
           /\ <<"user", u>> \in h /\ ActiveUser(u)
           /\ \E r \in Role : row = [status |-> "INVITED", role |-> r]
        \/ /\ tx[t].op.name = "Accept"
           /\ <<"user", u>> \in h /\ ActiveUser(u)
           /\ Invited(s, u)
           /\ row = [status |-> "ACTIVE", role |-> member[s][u].role]
        \/ /\ tx[t].op.name = "UpdateMember"
           /\ ActiveMember(s, u)
           /\ \E r \in Role : row = [status |-> "ACTIVE", role |-> r]

\* Where a write w that waits for COMMIT comes from, table by table: the row
\* is locked, and what justified the write is still so.
PendingUser(t, w) ==
    LET o == tx[t].op
    IN  /\ \/ /\ o.name \in {"Archive", "Restore"}
              /\ \E st \in {"ARCHIVED", "NORMAL"} : w = <<<<"user", o.u>>, st>>
           \/ o.name = "DeleteUser" /\ tx[t].pc > 3 /\ w = <<<<"user", o.u>>, "DELETED">>
        /\ <<"user", o.u>> \in tx[t].held /\ o.u \in User /\ UserExists(o.u)

PendingSpace(t, w) ==
    LET o == tx[t].op
    IN  /\ \/ o.name = "CreateSpace" /\ space[o.s] = "UNUSED" /\ w = <<<<"space", o.s>>, "LIVE">>
           \/ o.name = "DeleteSpace" /\ tx[t].pc > 5 /\ w = <<<<"space", o.s>>, "DELETED">>
        /\ <<"space", o.s>> \in tx[t].held /\ o.s \in Space

PendingProfile(t, w) ==
    \E s \in Space, p \in Profile \cup {NoProfile} : w = <<<<"profile", s>>, p>>

PendingMember(t, w) ==
    \E s \in Space, u \in User, row \in Row \cup {NoRow} :
        /\ w = <<<<"member", s, u>>, row>>
        /\ <<"member", s, u>> \in tx[t].held
        /\ row = NoRow \/ Granted(t, s, u, row)

Pending(t, w) ==
    \/ PendingUser(t, w)
    \/ PendingSpace(t, w)
    \/ PendingProfile(t, w)
    \/ PendingMember(t, w)

TxInv(t) ==
    /\ KindsInv(t)
    /\ ReadsStand(t)
    /\ \A w \in tx[t].writes : Pending(t, w)

RCInv ==
    /\ TxTyped
    /\ OneOwner
    /\ NoOrphanRows
    /\ \A t \in Tx : Running(t) => TxInv(t)

-----------------------------------------------------------------------------
(* Steps of a transaction.                                                 *)

\* What Execute does to its transaction.
LEMMA ExecuteFields ==
  ASSUME TxTyped, NEW t \in Tx, Execute(t)
  PROVE  /\ tx' = [v \in Tx |-> tx'[v]]
         /\ \A v \in Tx : v # t => tx'[v] = tx[v]
         /\ tx'[t] = [op |-> tx[t].op, pc |-> tx[t].pc + 1, held |-> tx[t].held \cup Locks(t),
                      writes |-> tx[t].writes \cup Writes(t), sawAdmin |-> tx'[t].sawAdmin,
                      sawNormal |-> tx'[t].sawNormal]
<1>1. IsTx(tx[t]) /\ tx = [v \in Tx |-> tx[v]]
  BY DEF TxTyped, Execute, Running
<1>2. tx[t] = [op |-> tx[t].op, pc |-> tx[t].pc, held |-> tx[t].held, writes |-> tx[t].writes,
               sawAdmin |-> tx[t].sawAdmin, sawNormal |-> tx[t].sawNormal]
  BY <1>1 DEF IsTx
<1> DEFINE L == Locks(t)
           W == Writes(t)
           A == IF Statement(t) = "readMember" THEN AdminRow(tx[t].op.s, tx[t].op.u)
                                               ELSE tx[t].sawAdmin
           N == IF Statement(t) = "readUserStatus" THEN ActiveUser(tx[t].op.u)
                                                   ELSE tx[t].sawNormal
           x == [op |-> tx[t].op, pc |-> tx[t].pc + 1, held |-> tx[t].held \cup L,
                 writes |-> tx[t].writes \cup W, sawAdmin |-> A, sawNormal |-> N]
<1>3. tx' = [tx EXCEPT ![t] = x]
  <2>1. tx' = [tx EXCEPT ![t].pc = @ + 1, ![t].held = @ \cup L, ![t].writes = @ \cup W,
                         ![t].sawAdmin = IF Statement(t) = "readMember"
                                           THEN AdminRow(tx[t].op.s, tx[t].op.u) ELSE @,
                         ![t].sawNormal = IF Statement(t) = "readUserStatus"
                                            THEN ActiveUser(tx[t].op.u) ELSE @]
    BY DEF Execute
  <2> HIDE DEF L, W
  <2>2. \A v \in Tx : v # t => tx'[v] = tx[v]
    BY <1>1, <2>1
  <2>3. tx' = [v \in Tx |-> tx'[v]]
    BY <1>1, <2>1
  <2>4. tx'[t] = x
    BY <1>1, <1>2, <2>1
  <2> HIDE DEF x
  <2> QED
    BY <1>1, <2>2, <2>3, <2>4
<1> HIDE DEF x
<1>4. tx'[t] = x /\ \A v \in Tx : v # t => tx'[v] = tx[v]
  BY <1>1, <1>3
<1>5. tx' = [v \in Tx |-> tx'[v]]
  BY <1>1, <1>3
<1> QED
  BY <1>4, <1>5 DEF x

\* What ending a transaction does to the others.
LEMMA EndFields ==
  ASSUME TxTyped, NEW t \in Tx, tx' = [tx EXCEPT ![t] = NoTx]
  PROVE  /\ tx' = [v \in Tx |-> tx'[v]]
         /\ tx'[t] = NoTx
         /\ \A v \in Tx : v # t => tx'[v] = tx[v]
<1>1. tx = [v \in Tx |-> tx[v]]
  BY DEF TxTyped
<1> QED
  BY <1>1

\* A statement that locks a row is about a user or a space that its request
\* names.
UserStatements ==
    {"lockUser", "lockUserRow", "updateUser", "deleteUser", "deleteInvitations", "deleteUserMemos"}
SpaceStatements ==
    {"lockSpace", "updateSpace", "deleteSpace", "deleteMembers", "deleteSpaceMemos"}
MemberStatements ==
    {"insertSpace", "insertInvitation", "accept", "deleteInvitation", "updateRole", "deleteMember"}

\* The fields a statement uses are those its request has.
LEMMA StatementFields ==
  ASSUME NEW o \in Op, NEW n, NEW st, NEW len, Place(o.name, n, st, len)
  PROVE  \/ st \in Reads
         \/ st \in UserStatements /\ o.u \in User
         \/ st \in SpaceStatements /\ o.s \in Space
         \/ st \in MemberStatements /\ o.s \in Space /\ o.u \in User
<1> DEFINE G == \/ st \in Reads
                \/ st \in UserStatements /\ o.u \in User
                \/ st \in SpaceStatements /\ o.s \in Space
                \/ st \in MemberStatements /\ o.s \in Space /\ o.u \in User
<1> USE DEF UserStatements, SpaceStatements, MemberStatements
<1> SUFFICES G
  OBVIOUS
<1>1. CASE o.name = "CreateSpace"
  <2>1. o.s \in Space /\ o.u \in User
    BY <1>1, OpFields
  <2> QED
    BY <1>1, <2>1 DEF Place
<1>2. CASE o.name = "UpdateSpace"
  <2>1. o.s \in Space
    BY <1>2, OpFields
  <2> QED
    BY <1>2, <2>1 DEF Place
<1>3. CASE o.name = "DeleteSpace"
  <2>1. o.s \in Space
    BY <1>3, OpFields
  <2> QED
    BY <1>3, <2>1 DEF Place
<1>4. CASE o.name = "Invite"
  <2>1. o.s \in Space /\ o.u \in User
    BY <1>4, OpFields
  <2> QED
    BY <1>4, <2>1 DEF Place
<1>5. CASE o.name = "Accept"
  <2>1. o.s \in Space /\ o.u \in User
    BY <1>5, OpFields
  <2> QED
    BY <1>5, <2>1 DEF Place
<1>6. CASE o.name = "DeleteUser"
  <2>1. o.u \in User
    BY <1>6, OpFields
  <2>2. "countMemberships" \in Reads
    BY DEF Reads
  <2> QED
    BY <1>6, <2>1, <2>2 DEF Place
<1>7. CASE o.name \in {"Decline", "Revoke", "UpdateMember", "DeleteMember"}
  <2>1. o.s \in Space /\ o.u \in User
    BY <1>7, OpFields
  <2> QED
    BY <1>7, <2>1 DEF Place
<1>8. CASE o.name \in {"Archive", "Restore"}
  <2>1. o.u \in User
    BY <1>8, OpFields
  <2> QED
    BY <1>8, <2>1 DEF Place
<1> QED
  BY <1>1, <1>2, <1>3, <1>4, <1>5, <1>6, <1>7, <1>8, OpFields

\* Statements lock rows of the four tables.
LEMMA LocksTyped ==
  ASSUME TxTyped, NEW t \in Tx, Running(t), ~Finished(t)
  PROVE  Locks(t) \subseteq RowLock
<1> DEFINE o == tx[t].op
           st == Statement(t)
<1>1. o \in Op /\ Place(o.name, tx[t].pc, st, Len(Program(o.name)))
  BY StatementPlace DEF IsTx
<1> HIDE DEF o, st
<1>2. \/ st \in Reads
      \/ st \in UserStatements /\ o.u \in User
      \/ st \in SpaceStatements /\ o.s \in Space
      \/ st \in MemberStatements /\ o.s \in Space /\ o.u \in User
  BY <1>1, StatementFields
<1>3. /\ \A u \in User : <<"user", u>> \in RowLock
      /\ \A s \in Space : <<"space", s>> \in RowLock
      /\ \A S \in SUBSET Space, U \in SUBSET User :
            MemberRows(S, U) \subseteq RowLock /\ MemoRows(S, U) \subseteq RowLock
  BY DEF RowLock, MemberRows, MemoRows
<1>4. /\ o.u \in User => {o.u} \in SUBSET User
      /\ o.s \in Space => {o.s} \in SUBSET Space
      /\ Space \in SUBSET Space /\ User \in SUBSET User
  OBVIOUS
<1>5. CASE st \in Reads
  BY <1>5, LocksAre DEF st
<1>6. CASE st \in UserStatements /\ o.u \in User
  <2>1. /\ st \in {"lockUser", "lockUserRow", "updateUser", "deleteUser"} =>
             Locks(t) = {<<"user", o.u>>}
        /\ st = "deleteInvitations" => Locks(t) \subseteq MemberRows(Space, {o.u})
        /\ st = "deleteUserMemos" => Locks(t) = MemoRows(Space, {o.u})
    BY LocksAre DEF st, o
  <2> QED
    BY <1>3, <1>4, <1>6, <2>1 DEF UserStatements
<1>7. CASE st \in SpaceStatements /\ o.s \in Space
  <2>1. /\ st \in {"lockSpace", "updateSpace", "deleteSpace"} => Locks(t) = {<<"space", o.s>>}
        /\ st = "deleteMembers" => Locks(t) \subseteq MemberRows({o.s}, User)
        /\ st = "deleteSpaceMemos" => Locks(t) = MemoRows({o.s}, User)
    BY LocksAre DEF st, o
  <2> QED
    BY <1>3, <1>4, <1>7, <2>1 DEF SpaceStatements
<1>8. CASE st \in MemberStatements /\ o.s \in Space /\ o.u \in User
  <2>1. /\ st = "insertSpace" =>
             Locks(t) = IF space[o.s] = "UNUSED"
                          THEN {<<"space", o.s>>} \cup MemberRows({o.s}, {o.u}) ELSE {}
        /\ st = "insertInvitation" => Locks(t) = MemberRows({o.s}, {o.u})
        /\ st \in {"accept", "deleteInvitation", "updateRole", "deleteMember"} =>
             Locks(t) \subseteq MemberRows({o.s}, {o.u})
    BY LocksAre DEF st, o
  <2>2. Locks(t) \subseteq {<<"space", o.s>>} \cup MemberRows({o.s}, {o.u})
    BY <1>8, <2>1 DEF MemberStatements
  <2> QED
    BY <1>3, <1>4, <1>8, <2>2
<1> QED
  BY <1>2, <1>5, <1>6, <1>7, <1>8

-----------------------------------------------------------------------------
(* What a transaction may write, table by table.                           *)

\* The row that a write is about.
LEMMA WriteKind ==
  ASSUME NEW w
  PROVE  /\ \A a, b : w = <<<<"user", a>>, b>> => w[1][1] = "user" /\ w[1][2] = a /\ w[2] = b
         /\ \A a, b : w = <<<<"space", a>>, b>> => w[1][1] = "space" /\ w[1][2] = a /\ w[2] = b
         /\ \A a, b : w = <<<<"profile", a>>, b>> => w[1][1] = "profile" /\ w[2] = b
         /\ \A a, b, c : w = <<<<"member", a, b>>, c>> =>
              w[1][1] = "member" /\ w[1][2] = a /\ w[1][3] = b /\ w[2] = c
  OBVIOUS

\* Each kind of pending write is about its own table.
LEMMA PendingKind ==
  ASSUME NEW t \in Tx, NEW w
  PROVE  /\ PendingUser(t, w) => w[1][1] = "user"
         /\ PendingSpace(t, w) => w[1][1] = "space"
         /\ PendingProfile(t, w) => w[1][1] = "profile"
         /\ PendingMember(t, w) => w[1][1] = "member"
<1>1. PendingUser(t, w) => w[1][1] = "user"
  BY WriteKind DEF PendingUser
<1>2. PendingSpace(t, w) => w[1][1] = "space"
  BY WriteKind DEF PendingSpace
<1>3. PendingProfile(t, w) => w[1][1] = "profile"
  BY WriteKind DEF PendingProfile
<1>4. PendingMember(t, w) => w[1][1] = "member"
  BY WriteKind DEF PendingMember
<1> QED
  BY <1>1, <1>2, <1>3, <1>4

\* A pending write of an account: an archival, a restoration or a deletion.
LEMMA UserWritten ==
  ASSUME NEW t \in Tx, NEW w, Pending(t, w), NEW u, w[1] = <<"user", u>>
  PROVE  /\ u = tx[t].op.u /\ <<"user", u>> \in tx[t].held /\ UserExists(u)
         /\ \/ w[2] \in {"ARCHIVED", "NORMAL"}
            \/ w[2] = "DELETED" /\ tx[t].op.name = "DeleteUser" /\ tx[t].pc > 3
<1>1. w[1][1] = "user" /\ w[1][2] = u
  OBVIOUS
<1>2. PendingUser(t, w)
  BY <1>1, PendingKind DEF Pending
<1> QED
  BY <1>1, <1>2, WriteKind DEF PendingUser

\* A pending write of a space: its creation or its deletion.
LEMMA SpaceWritten ==
  ASSUME NEW t \in Tx, NEW w, Pending(t, w), NEW s, w[1] = <<"space", s>>
  PROVE  /\ s = tx[t].op.s /\ <<"space", s>> \in tx[t].held
         /\ \/ w[2] = "LIVE" /\ tx[t].op.name = "CreateSpace" /\ space[s] = "UNUSED"
            \/ w[2] = "DELETED" /\ tx[t].op.name = "DeleteSpace" /\ tx[t].pc > 5
<1>1. w[1][1] = "space" /\ w[1][2] = s
  OBVIOUS
<1>2. PendingSpace(t, w)
  BY <1>1, PendingKind DEF Pending
<1> QED
  BY <1>1, <1>2, WriteKind DEF PendingSpace

\* A pending write of a profile is well typed.
LEMMA ProfileWritten ==
  ASSUME NEW t \in Tx, NEW w, Pending(t, w), NEW s, w[1] = <<"profile", s>>
  PROVE  w[2] \in Profile \cup {NoProfile}
<1>1. w[1][1] = "profile"
  OBVIOUS
<1>2. PendingProfile(t, w)
  BY <1>1, PendingKind DEF Pending
<1> QED
  BY <1>2, WriteKind DEF PendingProfile

\* A pending write of a membership deletes the row or is justified.
LEMMA MemberWritten ==
  ASSUME NEW t \in Tx, NEW w, Pending(t, w), NEW s, NEW u, w[1] = <<"member", s, u>>
  PROVE  /\ <<"member", s, u>> \in tx[t].held
         /\ w[2] \in Row \cup {NoRow}
         /\ w[2] = NoRow \/ Granted(t, s, u, w[2])
<1>1. w[1][1] = "member" /\ w[1][2] = s /\ w[1][3] = u
  OBVIOUS
<1>2. PendingMember(t, w)
  BY <1>1, PendingKind DEF Pending
<1> QED
  BY <1>1, <1>2, WriteKind DEF PendingMember

-----------------------------------------------------------------------------
(* COMMIT.                                                                 *)

\* A row keeps its value or takes one that was written.
LEMMA AfterValue ==
  ASSUME NEW W, NEW row, NEW old
  PROVE  \/ After(W, row, old) = old /\ \A v \in W : v[1] # row
         \/ \E v \in W : v[1] = row /\ After(W, row, old) = v[2]
<1>1. CASE \E v \in W : v[1] = row
  <2>1. PICK v \in W : v[1] = row
    BY <1>1
  <2>2. (CHOOSE x \in W : x[1] = row) \in W /\ (CHOOSE x \in W : x[1] = row)[1] = row
    BY <2>1
  <2> QED
    BY <1>1, <2>2 DEF After
<1> QED
  BY <1>1 DEF After

\* A row changes at COMMIT only if its transaction holds it.
LEMMA CommitUser ==
  ASSUME RCInv, NEW t \in Tx, Commit(t), NEW u \in User
  PROVE  \/ user'[u] = user[u]
         \/ /\ <<"user", u>> \in tx[t].held /\ UserExists(u)
            /\ \/ user'[u] \in {"ARCHIVED", "NORMAL"}
               \/ /\ user'[u] = "DELETED" /\ u = tx[t].op.u
                  /\ tx[t].op.name = "DeleteUser" /\ tx[t].pc > 3
<1>1. \A w \in tx[t].writes : Pending(t, w)
  BY DEF RCInv, TxInv, Commit, Finished
<1>2. user'[u] = After(tx[t].writes, <<"user", u>>, user[u])
  BY DEF Commit
<1> QED
  BY <1>1, <1>2, UserWritten, AfterValue

\* The same of spaces; a creation that commits makes its space LIVE.
LEMMA CommitSpace ==
  ASSUME RCInv, NEW t \in Tx, Commit(t), NEW s \in Space
  PROVE  /\ \/ space'[s] = space[s]
            \/ /\ <<"space", s>> \in tx[t].held /\ s = tx[t].op.s
               /\ \/ space'[s] = "LIVE" /\ tx[t].op.name = "CreateSpace" /\ space[s] = "UNUSED"
                  \/ space'[s] = "DELETED" /\ tx[t].op.name = "DeleteSpace" /\ tx[t].pc > 5
         /\ tx[t].op.name = "CreateSpace" /\ <<<<"space", s>>, "LIVE">> \in tx[t].writes =>
              space'[s] = "LIVE"
         /\ profile'[s] = profile[s] \/ profile'[s] \in Profile \cup {NoProfile}
<1>1. \A w \in tx[t].writes : Pending(t, w)
  BY DEF RCInv, TxInv, Commit, Finished
<1>2. space'[s] = After(tx[t].writes, <<"space", s>>, space[s])
  BY DEF Commit
<1>3. profile'[s] = After(tx[t].writes, <<"profile", s>>, profile[s])
  BY DEF Commit
<1>4. \/ space'[s] = space[s] /\ \A v \in tx[t].writes : v[1] # <<"space", s>>
      \/ /\ <<"space", s>> \in tx[t].held /\ s = tx[t].op.s
         /\ \/ space'[s] = "LIVE" /\ tx[t].op.name = "CreateSpace" /\ space[s] = "UNUSED"
            \/ space'[s] = "DELETED" /\ tx[t].op.name = "DeleteSpace" /\ tx[t].pc > 5
  BY <1>1, <1>2, SpaceWritten, AfterValue
<1>5. ASSUME tx[t].op.name = "CreateSpace", <<<<"space", s>>, "LIVE">> \in tx[t].writes
      PROVE  space'[s] = "LIVE"
  <2>1. <<<<"space", s>>, "LIVE">>[1] = <<"space", s>>
    OBVIOUS
  <2> QED
    BY <1>4, <1>5, <2>1
<1>6. profile'[s] = profile[s] \/ profile'[s] \in Profile \cup {NoProfile}
  BY <1>1, <1>3, ProfileWritten, AfterValue
<1> QED
  BY <1>4, <1>5, <1>6

\* The same of memberships; a deletion that commits leaves no row.
LEMMA CommitMember ==
  ASSUME RCInv, NEW t \in Tx, Commit(t), NEW s \in Space, NEW u \in User
  PROVE  /\ \/ member'[s][u] = member[s][u]
            \/ /\ <<"member", s, u>> \in tx[t].held
               /\ member'[s][u] \in Row \cup {NoRow}
               /\ member'[s][u] = NoRow \/ Granted(t, s, u, member'[s][u])
         /\ MemberDeleted(t, s, u) => member'[s][u] = NoRow \/ Granted(t, s, u, member'[s][u])
<1>1. \A w \in tx[t].writes : Pending(t, w)
  BY DEF RCInv, TxInv, Commit, Finished
<1>2. member'[s][u] = After(tx[t].writes, <<"member", s, u>>, member[s][u])
  BY DEF Commit
<1>3. \/ member'[s][u] = member[s][u] /\ \A v \in tx[t].writes : v[1] # <<"member", s, u>>
      \/ /\ <<"member", s, u>> \in tx[t].held
         /\ member'[s][u] \in Row \cup {NoRow}
         /\ member'[s][u] = NoRow \/ Granted(t, s, u, member'[s][u])
  BY <1>1, <1>2, MemberWritten, AfterValue
<1>4. <<<<"member", s, u>>, NoRow>>[1] = <<"member", s, u>>
  OBVIOUS
<1> QED
  BY <1>3, <1>4 DEF MemberDeleted

-----------------------------------------------------------------------------
(* What other transactions do not disturb.                                 *)

\* The fields that the promises of a transaction rest on.
LEMMA NamedRows ==
  ASSUME NEW o \in Op
  PROVE  /\ o.name \in {"CreateSpace", "Accept", "Invite", "DeleteUser"} => o.u \in User
         /\ o.name \in {"DeleteSpace", "Invite"} => o.s \in Space
  BY OpFields

\* A step that leaves a transaction and the rows it holds alone, and gives
\* its locked space and its locked user no new row, leaves its promises.
LEMMA OthersStand ==
  ASSUME RCInv, NEW v \in Tx, Running(v), tx'[v] = tx[v],
         \A u \in User : <<"user", u>> \in tx[v].held =>
            (ActiveUser(u) => ActiveUser(u)') /\ (UserExists(u) => UserExists(u)'),
         \A s \in Space : <<"space", s>> \in tx[v].held => space'[s] = space[s],
         \A s \in Space, u \in User :
            <<"member", s, u>> \in tx[v].held => member'[s][u] = member[s][u],
         \A s \in Space, u \in User :
            <<"space", s>> \in tx[v].held /\ SpaceExists(s) /\ member'[s][u] # NoRow =>
               member[s][u] # NoRow,
         \A s \in Space, u \in User :
            <<"user", u>> \in tx[v].held =>
               /\ member'[s][u] # NoRow => member[s][u] # NoRow
               /\ ActiveMember(s, u)' => ActiveMember(s, u)
  PROVE  TxInv(v)'
<1> DEFINE o == tx[v].op
           h == tx[v].held
<1>1. IsTx(tx[v]) /\ TxInv(v)
  BY DEF RCInv, TxTyped, Running
<1>2. o \in Op /\ tx[v].pc \in Nat
  BY <1>1 DEF IsTx
<1>3. KindsInv(v)'
  BY <1>1 DEF TxInv, KindsInv, Finished, Running
<1>4. ReadsStand(v)'
  <2>0. ReadsStand(v)
    BY <1>1 DEF TxInv
  <2>1. o.name \in {"CreateSpace", "Accept"} /\ tx[v].pc > 1 =>
          <<"user", o.u>> \in h /\ ActiveUser(o.u)'
    BY <1>2, <2>0, NamedRows DEF ReadsStand
  <2>2. o.name = "Invite" /\ tx[v].pc > 4 => <<"user", o.u>> \in h /\ ActiveUser(o.u)'
    BY <1>2, <2>0, NamedRows DEF ReadsStand
  <2>3. o.name = "Invite" /\ tx[v].pc > 3 => <<"space", o.s>> \in h /\ SpaceExists(o.s)'
    BY <1>2, <2>0, NamedRows DEF ReadsStand, SpaceExists
  <2>4. o.name = "DeleteSpace" /\ tx[v].pc > 2 => <<"space", o.s>> \in h /\ SpaceExists(o.s)'
    BY <1>2, <2>0, NamedRows DEF ReadsStand, SpaceExists
  <2>5. o.name = "DeleteSpace" /\ tx[v].pc > 5 =>
          \A u \in User : member'[o.s][u] # NoRow => MemberDeleted(v, o.s, u)
    BY <1>2, <2>0, NamedRows DEF ReadsStand
  <2>6. o.name = "DeleteUser" /\ tx[v].pc > 1 => <<"user", o.u>> \in h /\ UserExists(o.u)'
    BY <1>2, <2>0, NamedRows DEF ReadsStand
  <2>7. o.name = "DeleteUser" /\ tx[v].pc > 2 => \A s \in Space : ~ActiveMember(s, o.u)'
    BY <1>2, <2>0, NamedRows DEF ReadsStand
  <2>8. o.name = "DeleteUser" /\ tx[v].pc > 3 =>
          \A s \in Space : member'[s][o.u] # NoRow => MemberDeleted(v, s, o.u)
    BY <1>2, <2>0, NamedRows DEF ReadsStand
  <2>9. \A s, u : MemberDeleted(v, s, u)' <=> MemberDeleted(v, s, u)
    BY DEF MemberDeleted
  <2>10. o.name = "Invite" => \A s \in Space : <<"space", s>> \in h => SpaceExists(s)'
    BY <2>0 DEF ReadsStand, SpaceExists
  <2> QED
    BY <2>1, <2>2, <2>3, <2>4, <2>5, <2>6, <2>7, <2>8, <2>9, <2>10
       DEF ReadsStand, ActiveUser, SpaceExists, UserExists, ActiveMember
<1>5. ASSUME NEW w, Pending(v, w) PROVE Pending(v, w)'
  <2>1. CASE PendingUser(v, w)
    BY <2>1 DEF PendingUser, Pending, UserExists
  <2>2. CASE PendingSpace(v, w)
    BY <2>2 DEF PendingSpace, Pending
  <2>3. CASE PendingProfile(v, w)
    BY <2>3 DEF PendingProfile, Pending
  <2>4. CASE PendingMember(v, w)
    <3>1. PICK s \in Space, u \in User, row \in Row \cup {NoRow} :
            /\ w = <<<<"member", s, u>>, row>>
            /\ <<"member", s, u>> \in h
            /\ row = NoRow \/ Granted(v, s, u, row)
      BY <2>4 DEF PendingMember
    <3>2. member'[s][u] = member[s][u]
      BY <3>1
    <3>3. Granted(v, s, u, row) => Granted(v, s, u, row)'
      BY <3>2 DEF Granted, ActiveUser, SpaceExists, Invited, ActiveMember
    <3> QED
      BY <3>1, <3>3 DEF PendingMember, Pending
  <2> QED
    BY <1>5, <2>1, <2>2, <2>3, <2>4 DEF Pending
<1> QED
  BY <1>1, <1>3, <1>4, <1>5 DEF TxInv

\* COMMIT publishes values of the declared types, ...
LEMMA CommitType ==
  ASSUME RCInv, NEW t \in Tx, Commit(t)
  PROVE  TypeOK'
<1>0. TypeOK
  BY DEF RCInv, TxTyped
<1>1. \A u \in User : user'[u] \in UserStatus
  BY <1>0, CommitUser DEF TypeOK, UserStatus
<1>2. \A s \in Space : space'[s] \in SpaceStatus
  BY <1>0, CommitSpace DEF TypeOK, SpaceStatus
<1>3. \A s \in Space : profile'[s] \in Profile \cup {NoProfile}
  BY <1>0, CommitSpace DEF TypeOK
<1>4. \A s \in Space, u \in User : member'[s][u] \in Row \cup {NoRow}
  BY <1>0, CommitMember DEF TypeOK
<1>5. /\ user' = [u \in User |-> user'[u]]
      /\ space' = [s \in Space |-> space'[s]]
      /\ profile' = [s \in Space |-> profile'[s]]
      /\ member' = [s \in Space |-> [u \in User |-> member'[s][u]]]
  BY DEF Commit
<1>6. user' \in [User -> UserStatus] /\ space' \in [Space -> SpaceStatus]
  BY <1>1, <1>2, <1>5
<1>7. profile' \in [Space -> Profile \cup {NoProfile}]
  BY <1>3, <1>5
<1>8. member' \in [Space -> [User -> Row \cup {NoRow}]]
  BY <1>4, <1>5
<1> QED
  BY <1>6, <1>7, <1>8 DEF TypeOK

\* ... orphans no row: a parent's deletion takes the rows it found, no other
\* appeared while it held the parent, and a new row's parents are held, ...
LEMMA CommitNoOrphans ==
  ASSUME RCInv, NEW t \in Tx, Commit(t)
  PROVE  NoOrphanRows'
<1> DEFINE o == tx[t].op
<1>1. ReadsStand(t) /\ NoOrphanRows /\ tx[t].op \in Op
  BY DEF RCInv, TxInv, Commit, Finished, TxTyped, Running, IsTx
<1> SUFFICES ASSUME NEW s \in Space, NEW u \in User, member'[s][u] # NoRow
             PROVE  space'[s] = "LIVE" /\ user'[u] \in {"NORMAL", "ARCHIVED"}
  BY DEF NoOrphanRows, SpaceExists, UserExists
<1>2. CASE Granted(t, s, u, member'[s][u])
  <2>1. member[s][u] # NoRow => space[s] = "LIVE" /\ user[u] \in {"NORMAL", "ARCHIVED"}
    BY <1>1 DEF NoOrphanRows, SpaceExists, UserExists
  <2>2. Invited(s, u) \/ ActiveMember(s, u) => member[s][u] # NoRow
    BY DEF Invited, ActiveMember, NoRow
  <2>3. \/ o.name = "CreateSpace" /\ space'[s] = "LIVE"
        \/ o.name \in {"Invite", "Accept", "UpdateMember"} /\ space[s] = "LIVE"
    BY <1>2, <2>1, <2>2, CommitSpace DEF Granted, SpaceExists
  <2>4. o.name # "DeleteUser" /\ user[u] \in {"NORMAL", "ARCHIVED"}
    BY <1>2, <2>1, <2>2 DEF Granted, ActiveUser
  <2>5. space'[s] = "LIVE"
    BY <2>3, CommitSpace
  <2> QED
    BY <2>4, <2>5, CommitUser
<1>3. CASE ~Granted(t, s, u, member'[s][u])
  <2>1. member'[s][u] = member[s][u] /\ ~MemberDeleted(t, s, u)
    BY <1>3, CommitMember
  <2>2. space[s] = "LIVE" /\ user[u] \in {"NORMAL", "ARCHIVED"}
    BY <1>1, <2>1 DEF NoOrphanRows, SpaceExists, UserExists
  <2>3. ~(o.name = "DeleteSpace" /\ tx[t].pc > 5 /\ s = o.s)
    BY <1>1, <2>1 DEF ReadsStand
  <2>4. ~(o.name = "DeleteUser" /\ tx[t].pc > 3 /\ u = o.u)
    BY <1>1, <2>1 DEF ReadsStand
  <2>5. space'[s] = "LIVE"
    BY <2>2, <2>3, CommitSpace
  <2> QED
    BY <2>2, <2>4, <2>5, CommitUser
<1> QED
  BY <1>2, <1>3

\* ... and leaves what other transactions rely on.
LEMMA CommitOthers ==
  ASSUME RCInv, NEW t \in Tx, Commit(t), NEW v \in Tx, v # t, Running(v)
  PROVE  TxInv(v)'
<1>1. tx'[v] = tx[v]
  BY EndFields DEF Commit, RCInv
<1>2. \A r : r \in tx[t].held => r \notin tx[v].held
  BY DEF RCInv, OneOwner, Commit, Finished
<1>3. \A u \in User : <<"user", u>> \in tx[v].held => user'[u] = user[u]
  BY <1>2, CommitUser
<1>4. \A s \in Space : <<"space", s>> \in tx[v].held => space'[s] = space[s]
  BY <1>2, CommitSpace
<1>5. \A s \in Space, u \in User :
        <<"member", s, u>> \in tx[v].held => member'[s][u] = member[s][u]
  BY <1>2, CommitMember
<1>6. \A s \in Space, u \in User : Invited(s, u) \/ ActiveMember(s, u) => member[s][u] # NoRow
  BY DEF Invited, ActiveMember, NoRow
<1>7. ASSUME NEW s \in Space, NEW u \in User, <<"space", s>> \in tx[v].held,
             member'[s][u] # NoRow
      PROVE  member[s][u] # NoRow
  <2>1. CASE Granted(t, s, u, member'[s][u])
    BY <1>2, <1>6, <1>7, <2>1 DEF Granted
  <2> QED
    BY <1>7, <2>1, CommitMember
<1>8. ASSUME NEW s \in Space, NEW u \in User, <<"user", u>> \in tx[v].held
      PROVE  /\ member'[s][u] # NoRow => member[s][u] # NoRow
             /\ ActiveMember(s, u)' => ActiveMember(s, u)
  <2>1. CASE Granted(t, s, u, member'[s][u])
    <3>1. tx[t].op.name = "UpdateMember" /\ ActiveMember(s, u)
      BY <1>2, <1>8, <2>1 DEF Granted
    <3> QED
      BY <1>6, <3>1
  <2>2. CASE member'[s][u] = NoRow
    BY <2>2 DEF ActiveMember, NoRow
  <2>3. CASE member'[s][u] = member[s][u]
    BY <2>3 DEF ActiveMember
  <2> QED
    BY <2>1, <2>2, <2>3, CommitMember
<1>9. \A u \in User : <<"user", u>> \in tx[v].held =>
        (ActiveUser(u) => ActiveUser(u)') /\ (UserExists(u) => UserExists(u)')
  BY <1>3 DEF ActiveUser, UserExists
<1> QED
  BY <1>1, <1>4, <1>5, <1>7, <1>8, <1>9, OthersStand

\* Ending a transaction keeps the records and the locks of the others.
LEMMA EndTyped ==
  ASSUME TxTyped, OneOwner, NEW t \in Tx, tx' = [tx EXCEPT ![t] = NoTx], TypeOK'
  PROVE  TxTyped' /\ OneOwner' /\ ~Running(t)'
<1>1. /\ tx' = [v \in Tx |-> tx'[v]]
      /\ tx'[t] = NoTx
      /\ \A v \in Tx : v # t => tx'[v] = tx[v]
  BY EndFields
<1>2. ~Running(t)'
  BY <1>1 DEF Running
<1>3. TxTyped'
  <2>1. \A v \in Tx : tx'[v] = NoTx \/ IsTx(tx'[v])
    BY <1>1 DEF TxTyped
  <2> QED
    BY <1>1, <2>1 DEF TxTyped, IsTx, RowLock, NoTx
<1>4. OneOwner'
  BY <1>1, <1>2 DEF OneOwner, Running
<1> QED
  BY <1>2, <1>3, <1>4

\* So COMMIT keeps the invariant.
LEMMA CommitInv ==
  ASSUME RCInv, NEW t \in Tx, Commit(t)
  PROVE  RCInv'
<1>1. TypeOK' /\ NoOrphanRows'
  BY CommitType, CommitNoOrphans
<1>2. tx' = [tx EXCEPT ![t] = NoTx]
  BY DEF Commit
<1>3. TxTyped' /\ OneOwner' /\ ~Running(t)'
  BY <1>1, <1>2, EndTyped DEF RCInv
<1>4. ASSUME NEW v \in Tx, Running(v)' PROVE TxInv(v)'
  <2>1. v # t
    BY <1>3, <1>4
  <2>2. Running(v)
    BY <1>2, <1>4, <2>1, EndFields DEF Running, RCInv
  <2> QED
    BY <2>1, <2>2, CommitOthers
<1> QED
  BY <1>1, <1>3, <1>4 DEF RCInv

\* A step that commits nothing leaves the promises of the transactions it
\* does not concern.
LEMMA QuietOthers ==
  ASSUME RCInv, UNCHANGED vars, NEW v \in Tx, Running(v), tx'[v] = tx[v]
  PROVE  TxInv(v)'
<1>1. user' = user /\ space' = space /\ member' = member
  BY DEF vars
<1>2. \A u \in User : <<"user", u>> \in tx[v].held =>
        (ActiveUser(u) => ActiveUser(u)') /\ (UserExists(u) => UserExists(u)')
  BY <1>1 DEF ActiveUser, UserExists
<1>3. \A s \in Space, u \in User :
        <<"user", u>> \in tx[v].held =>
           /\ member'[s][u] # NoRow => member[s][u] # NoRow
           /\ ActiveMember(s, u)' => ActiveMember(s, u)
  BY <1>1 DEF ActiveMember
<1> QED
  BY <1>1, <1>2, <1>3, OthersStand

\* Nor does it change the tables.
LEMMA QuietTables ==
  ASSUME RCInv, UNCHANGED vars
  PROVE  TypeOK' /\ NoOrphanRows'
  BY DEF RCInv, TxTyped, TypeOK, NoOrphanRows, SpaceExists, UserExists, vars

\* Whatever ends a transaction without COMMIT keeps the invariant.
LEMMA RollbackInv ==
  ASSUME RCInv, UNCHANGED vars, NEW t \in Tx, tx' = [tx EXCEPT ![t] = NoTx]
  PROVE  RCInv'
<1>1. TypeOK' /\ NoOrphanRows'
  BY QuietTables
<1>2. TxTyped' /\ OneOwner' /\ ~Running(t)'
  BY <1>1, EndTyped DEF RCInv
<1>3. ASSUME NEW v \in Tx, Running(v)' PROVE TxInv(v)'
  <2>1. v # t
    BY <1>2, <1>3
  <2>2. tx'[v] = tx[v]
    BY <2>1, EndFields DEF RCInv
  <2>3. Running(v)
    BY <1>3, <2>2 DEF Running
  <2> QED
    BY <2>2, <2>3, QuietOthers
<1> QED
  BY <1>1, <1>2, <1>3 DEF RCInv

\* A transaction begins with no locks and nothing written.
LEMMA BeginInv ==
  ASSUME RCInv, NEW t \in Tx, NEW o \in Op, Begin(t, o)
  PROVE  RCInv'
<1> DEFINE x == [op |-> o, pc |-> 1, held |-> {}, writes |-> {},
                 sawAdmin |-> FALSE, sawNormal |-> FALSE]
<1>1. TypeOK' /\ NoOrphanRows' /\ UNCHANGED vars
  BY QuietTables DEF Begin
<1>2. /\ tx' = [v \in Tx |-> tx'[v]] /\ tx'[t] = x
      /\ \A v \in Tx : v # t => tx'[v] = tx[v]
  BY DEF Begin, RCInv, TxTyped
<1>3. IsTx(x) /\ x # NoTx
  BY NoTxIsNone DEF IsTx
<1>4. TxTyped'
  <2>1. \A v \in Tx : tx'[v] = NoTx \/ IsTx(tx'[v])
    BY <1>2, <1>3 DEF TxTyped, RCInv
  <2> QED
    BY <1>1, <1>2, <2>1 DEF TxTyped, IsTx, RowLock, NoTx
<1>5. tx'[t].held = {} /\ tx'[t].writes = {} /\ tx'[t].pc = 1
  BY <1>2
<1> HIDE DEF x
<1>6. OneOwner'
  <2> SUFFICES ASSUME NEW v \in Tx, NEW y \in Tx, v # y, Running(v)', Running(y)'
               PROVE  tx'[v].held \cap tx'[y].held = {}
    BY DEF OneOwner
  <2> QED
    BY <1>2, <1>5 DEF OneOwner, RCInv, Running
<1>7. TxInv(t)'
  <2>1. KindsInv(t)'
    BY <1>5 DEF KindsInv
  <2>2. ReadsStand(t)'
    BY <1>5 DEF ReadsStand
  <2> QED
    BY <1>5, <2>1, <2>2 DEF TxInv
<1>8. ASSUME NEW v \in Tx, Running(v)', v # t PROVE TxInv(v)'
  <2>1. tx'[v] = tx[v] /\ Running(v)
    BY <1>2, <1>8 DEF Running
  <2> QED
    BY <1>1, <2>1, QuietOthers
<1> QED
  BY <1>1, <1>4, <1>6, <1>7, <1>8 DEF RCInv

\* A new account concerns no transaction.
LEMMA InsertUserInv ==
  ASSUME RCInv, NEW u \in User, InsertUser(u)
  PROVE  RCInv'
<1>1. /\ user[u] = "UNUSED" /\ user' = [user EXCEPT ![u] = "NORMAL"]
      /\ space' = space /\ profile' = profile /\ member' = member /\ tx' = tx
  BY DEF InsertUser, CreateUser, CanCreateUser, DoCreateUser
<1>2. TypeOK /\ NoOrphanRows
  BY DEF RCInv, TxTyped
<1>3. TypeOK'
  BY <1>1, <1>2 DEF TypeOK, UserStatus
<1>4. \A a \in User : (ActiveUser(a) => ActiveUser(a)') /\ (UserExists(a) => UserExists(a)')
  BY <1>1, <1>2 DEF TypeOK, ActiveUser, UserExists
<1>5. NoOrphanRows'
  BY <1>1, <1>2, <1>4 DEF NoOrphanRows, SpaceExists
<1>6. TxTyped' /\ OneOwner'
  BY <1>1, <1>3 DEF RCInv, TxTyped, OneOwner, Running, IsTx, RowLock
<1>7. ASSUME NEW v \in Tx, Running(v)' PROVE TxInv(v)'
  <2>1. Running(v) /\ tx'[v] = tx[v]
    BY <1>1, <1>7 DEF Running
  <2>2. \A s \in Space, a \in User : ActiveMember(s, a)' => ActiveMember(s, a)
    BY <1>1 DEF ActiveMember
  <2> QED
    BY <1>1, <1>4, <2>1, <2>2, OthersStand
<1> QED
  BY <1>5, <1>6, <1>7 DEF RCInv

-----------------------------------------------------------------------------
(* Executing a statement.                                                  *)

\* A statement is granted rows that nobody else holds.
LEMMA ExecuteTyped ==
  ASSUME RCInv, NEW t \in Tx, Execute(t)
  PROVE  TxTyped' /\ OneOwner' /\ IsTx(tx'[t])
<1>1. /\ tx' = [v \in Tx |-> tx'[v]]
      /\ \A v \in Tx : v # t => tx'[v] = tx[v]
      /\ tx'[t] = [op |-> tx[t].op, pc |-> tx[t].pc + 1, held |-> tx[t].held \cup Locks(t),
                   writes |-> tx[t].writes \cup Writes(t), sawAdmin |-> tx'[t].sawAdmin,
                   sawNormal |-> tx'[t].sawNormal]
  BY ExecuteFields DEF RCInv
<1>2. IsTx(tx[t]) /\ Locks(t) \subseteq RowLock /\ Running(t)
  BY LocksTyped DEF Execute, RCInv, TxTyped, Running
<1>3. IsTx(tx'[t])
  BY <1>1, <1>2 DEF IsTx
<1>4. TxTyped'
  <2>1. TypeOK'
    BY QuietTables DEF Execute
  <2>2. \A v \in Tx : tx'[v] = NoTx \/ IsTx(tx'[v])
    BY <1>1, <1>3 DEF RCInv, TxTyped
  <2> QED
    BY <1>1, <2>1, <2>2 DEF TxTyped, IsTx, RowLock, NoTx
<1>5. \A v \in Tx : v # t /\ Running(v) => tx'[t].held \cap tx[v].held = {}
  <2>1. tx'[t].held = tx[t].held \cup Locks(t)
    BY <1>1
  <2>2. ASSUME NEW v \in Tx, v # t, Running(v) PROVE Locks(t) \cap tx[v].held = {}
    <3>1. Locks(t) \cap HeldByOthers(t) = {}
      BY DEF Execute, Blocked
    <3>2. tx[v].held \subseteq HeldByOthers(t)
      BY <2>2 DEF HeldByOthers
    <3> QED
      BY <3>1, <3>2
  <2>3. ASSUME NEW v \in Tx, v # t, Running(v) PROVE tx[t].held \cap tx[v].held = {}
    BY <1>2, <2>3 DEF RCInv, OneOwner
  <2> QED
    BY <2>1, <2>2, <2>3
<1>6. OneOwner'
  <2> SUFFICES ASSUME NEW v \in Tx, NEW y \in Tx, v # y, Running(v)', Running(y)'
               PROVE  tx'[v].held \cap tx'[y].held = {}
    BY DEF OneOwner
  <2> QED
    BY <1>1, <1>5 DEF OneOwner, RCInv, Running
<1> QED
  BY <1>3, <1>4, <1>6

\* The fields of the transaction after a statement.
LEMMA ExecuteState ==
  ASSUME RCInv, NEW t \in Tx, Execute(t)
  PROVE  /\ tx'[t] # NoTx /\ tx'[t].op = tx[t].op /\ tx'[t].pc = tx[t].pc + 1
         /\ tx'[t].held = tx[t].held \cup Locks(t)
         /\ tx'[t].writes = tx[t].writes \cup Writes(t)
         /\ user' = user /\ space' = space /\ member' = member
<1>1. tx'[t] = [op |-> tx[t].op, pc |-> tx[t].pc + 1, held |-> tx[t].held \cup Locks(t),
                writes |-> tx[t].writes \cup Writes(t), sawAdmin |-> tx'[t].sawAdmin,
                sawNormal |-> tx'[t].sawNormal]
  BY ExecuteFields DEF RCInv
<1>2. /\ tx'[t].op = tx[t].op /\ tx'[t].pc = tx[t].pc + 1
      /\ tx'[t].held = tx[t].held \cup Locks(t)
      /\ tx'[t].writes = tx[t].writes \cup Writes(t)
  BY <1>1
<1>3. tx'[t] # NoTx
  BY ExecuteTyped, NoTxIsNone
<1>4. user' = user /\ space' = space /\ member' = member
  BY DEF Execute, vars
<1> QED
  BY <1>2, <1>3, <1>4

\* The kinds of row a statement locks.
LockKind(st, kind) ==
    \/ st \in {"lockUser", "lockUserRow", "updateUser", "deleteUser"} /\ kind = "user"
    \/ st \in {"lockSpace", "updateSpace", "deleteSpace", "insertSpace"} /\ kind = "space"
    \/ /\ st \in {"insertSpace", "insertInvitation", "accept", "deleteInvitation", "updateRole",
                  "deleteMember", "deleteMembers", "deleteInvitations"}
       /\ kind = "member"
    \/ st \in {"deleteSpaceMemos", "deleteUserMemos"} /\ kind = "memo"

\* The rows a statement locks are of the kinds the table lists.
LEMMA LocksKind ==
  ASSUME TxTyped, NEW t \in Tx, Running(t), ~Finished(t), NEW r \in Locks(t)
  PROVE  LockKind(Statement(t), r[1])
<1> DEFINE o == tx[t].op
           st == Statement(t)
<1>1. \/ st \in Reads \/ st \in UserStatements \/ st \in SpaceStatements \/ st \in MemberStatements
  BY StatementPlace, StatementFields DEF IsTx
<1>2. /\ \A S, U : r \in MemberRows(S, U) => r[1] = "member"
      /\ \A S, U : r \in MemoRows(S, U) => r[1] = "memo"
      /\ \A x : r = <<"user", x>> => r[1] = "user"
      /\ \A x : r = <<"space", x>> => r[1] = "space"
  BY DEF MemberRows, MemoRows
<1> HIDE DEF st, o
<1>3. CASE st \in Reads
  BY <1>3, LocksAre DEF st
<1>4. CASE st \in {"lockUser", "lockUserRow", "updateUser", "deleteUser"}
  <2>1. r = <<"user", o.u>>
    BY <1>4, LocksAre DEF st, o
  <2> QED
    BY <1>2, <1>4, <2>1 DEF LockKind, st
<1>5. CASE st \in {"lockSpace", "updateSpace", "deleteSpace"}
  <2>1. r = <<"space", o.s>>
    BY <1>5, LocksAre DEF st, o
  <2> QED
    BY <1>2, <1>5, <2>1 DEF LockKind, st
<1>6. CASE st = "insertSpace"
  <2>1. r = <<"space", o.s>> \/ r \in MemberRows({o.s}, {o.u})
    <3>1. Locks(t) = IF space[o.s] = "UNUSED"
                       THEN {<<"space", o.s>>} \cup MemberRows({o.s}, {o.u}) ELSE {}
      BY <1>6, LocksAre DEF st, o
    <3> QED
      BY <3>1
  <2> QED
    BY <1>2, <1>6, <2>1 DEF LockKind, st
<1>7. CASE st \in {"insertInvitation", "accept", "deleteInvitation", "updateRole", "deleteMember",
                   "deleteMembers", "deleteInvitations"}
  <2>1. \/ r \in MemberRows({o.s}, {o.u})
        \/ r \in MemberRows({o.s}, User)
        \/ r \in MemberRows(Space, {o.u})
    BY <1>7, LocksAre DEF st, o
  <2> QED
    BY <1>2, <1>7, <2>1 DEF LockKind, st
<1>8. CASE st \in {"deleteSpaceMemos", "deleteUserMemos"}
  <2>1. r \in MemoRows({o.s}, User) \/ r \in MemoRows(Space, {o.u})
    BY <1>8, LocksAre DEF st, o
  <2> QED
    BY <1>2, <1>8, <2>1 DEF LockKind, st
<1> QED
  BY <1>1, <1>3, <1>4, <1>5, <1>6, <1>7, <1>8
     DEF UserStatements, SpaceStatements, MemberStatements

\* One statement further, an operation holds what the table of kinds says.
LEMMA KeepsStep ==
  ASSUME NEW name, NEW n \in Nat \ {0}, NEW st, NEW len \in Nat, Place(name, n, st, len),
         n + 1 <= len, NEW kind, Keeps(name, n, kind) \/ LockKind(st, kind)
  PROVE  Keeps(name, n + 1, kind)
<1>0. st \in Reads => ~LockKind(st, kind)
  BY DEF Reads, LockKind
<1>1. CASE name = "CreateSpace"
  BY <1>0, <1>1 DEF Place, Keeps, LockKind
<1>2. CASE name = "UpdateSpace"
  BY <1>0, <1>2 DEF Place, Keeps, LockKind
<1>3. CASE name = "DeleteSpace"
  BY <1>0, <1>3 DEF Place, Keeps, LockKind
<1>4. CASE name = "Invite"
  BY <1>0, <1>4 DEF Place, Keeps, LockKind
<1>5. CASE name = "Accept"
  BY <1>0, <1>5 DEF Place, Keeps, LockKind
<1>6. CASE name = "DeleteUser"
  BY <1>0, <1>6 DEF Place, Keeps, LockKind
<1>7. CASE name \in {"Decline", "Revoke", "UpdateMember", "DeleteMember", "Archive", "Restore"}
  BY <1>0, <1>7 DEF Place, Keeps
<1> QED
  BY <1>1, <1>2, <1>3, <1>4, <1>5, <1>6, <1>7 DEF Place

\* Executing a statement follows the table of kinds.
LEMMA ExecuteKinds ==
  ASSUME RCInv, NEW t \in Tx, Execute(t)
  PROVE  KindsInv(t)'
<1> DEFINE o == tx[t].op
           len == Len(Program(o.name))
<1>1. Running(t) /\ ~Finished(t) /\ KindsInv(t)
  BY DEF Execute, RCInv, TxInv
<1>2. /\ tx'[t].op = o /\ tx'[t].pc = tx[t].pc + 1 /\ tx'[t].held = tx[t].held \cup Locks(t)
      /\ tx'[t] # NoTx
  BY ExecuteState
<1>3. tx[t].pc \in Nat \ {0} /\ len \in Nat /\ Place(o.name, tx[t].pc, Statement(t), len)
  BY <1>1, StatementPlace DEF RCInv, IsTx
<1>4. ~Finished(t)' => tx[t].pc + 1 <= len
  BY <1>2, <1>3 DEF Finished, Running
<1>5. ASSUME NEW r \in tx[t].held \cup Locks(t), tx[t].pc + 1 <= len
      PROVE  Keeps(o.name, tx[t].pc + 1, r[1])
  <2>1. CASE r \in tx[t].held
    <3>1. Keeps(o.name, tx[t].pc, r[1])
      BY <1>1, <2>1 DEF KindsInv
    <3> QED
      BY <1>3, <1>5, <3>1, KeepsStep
  <2>2. CASE r \in Locks(t)
    <3>1. LockKind(Statement(t), r[1])
      BY <1>1, <2>2, LocksKind DEF RCInv
    <3> QED
      BY <1>3, <1>5, <3>1, KeepsStep
  <2> QED
    BY <1>5, <2>1, <2>2
<1> QED
  BY <1>2, <1>4, <1>5 DEF KindsInv

\* What a transaction reads under its locks is so when it has read it.
LEMMA ExecuteReads ==
  ASSUME RCInv, NEW t \in Tx, Execute(t)
  PROVE  ReadsStand(t)'
<1> DEFINE o == tx[t].op
           n == tx[t].pc
           st == Statement(t)
           H == tx[t].held \cup Locks(t)
           W == tx[t].writes \cup Writes(t)
<1>1. Running(t) /\ ~Finished(t) /\ ReadsStand(t) /\ Holds(t) /\ TypeOK
  BY DEF Execute, RCInv, TxInv, TxTyped
<1>2. /\ tx'[t].op = o /\ tx'[t].pc = n + 1 /\ tx'[t].held = H /\ tx'[t].writes = W
      /\ user' = user /\ space' = space /\ member' = member
  BY ExecuteState
<1>3. o \in Op /\ n \in Nat \ {0} /\ Place(o.name, n, st, Len(Program(o.name)))
  BY <1>1, StatementPlace DEF RCInv, IsTx
<1>4. /\ st = "lockUser" => ActiveUser(o.u) /\ <<"user", o.u>> \in H
      /\ st = "lockSpace" => SpaceExists(o.s) /\ <<"space", o.s>> \in H
      /\ st = "lockUserRow" => UserExists(o.u) /\ <<"user", o.u>> \in H
      /\ st = "countMemberships" => \A s \in Space : ~ActiveMember(s, o.u)
  BY <1>1, HoldsAre, LocksAre
<1>5. ASSUME st = "deleteMembers"
      PROVE  \A u \in User : member[o.s][u] # NoRow => <<<<"member", o.s, u>>, NoRow>> \in W
  <2>1. Locks(t) = MemberRows({o.s}, {u \in User : member[o.s][u] # NoRow})
    BY <1>5 DEF Locks
  <2>2. Writes(t) = {<<row, NoRow>> : row \in Locks(t)}
    BY <1>5, WritesAre
  <2> QED
    BY <2>1, <2>2 DEF MemberRows
<1>6. ASSUME st = "deleteInvitations", \A s \in Space : ~ActiveMember(s, o.u), o.u \in User
      PROVE  \A s \in Space : member[s][o.u] # NoRow => <<<<"member", s, o.u>>, NoRow>> \in W
  <2>1. Locks(t) = MemberRows({s \in Space : Invited(s, o.u)}, {o.u})
    BY <1>6 DEF Locks
  <2>2. Writes(t) = {<<row, NoRow>> : row \in Locks(t)}
    BY <1>6, WritesAre
  <2>3. \A s \in Space : member[s][o.u] # NoRow => Invited(s, o.u)
    BY <1>1, <1>6 DEF TypeOK, Row, Invited, ActiveMember
  <2> QED
    BY <2>1, <2>2, <2>3 DEF MemberRows
<1>16. o.name = "Invite" => \A s \in Space : <<"space", s>> \in H => SpaceExists(s)
  <2> SUFFICES ASSUME o.name = "Invite", NEW s \in Space, <<"space", s>> \in H
               PROVE  SpaceExists(s)
    OBVIOUS
  <2>1. CASE <<"space", s>> \in tx[t].held
    BY <1>1, <2>1 DEF ReadsStand
  <2>2. CASE <<"space", s>> \in Locks(t)
    <3>1. LockKind(st, <<"space", s>>[1])
      BY <1>1, <2>2, LocksKind DEF RCInv
    <3>2. st \in {"lockSpace", "updateSpace", "deleteSpace", "insertSpace"}
      BY <3>1 DEF LockKind
    <3>3. st = "lockSpace"
      BY <1>3, <3>2 DEF Place, Reads
    <3>4. Locks(t) = {<<"space", o.s>>} /\ SpaceExists(o.s)
      BY <1>1, <3>3, LocksAre, HoldsAre
    <3>5. <<"space", s>>[2] = s /\ <<"space", o.s>>[2] = o.s
      OBVIOUS
    <3>6. s = o.s
      BY <2>2, <3>4, <3>5
    <3> QED
      BY <3>4, <3>6
  <2> QED
    BY <2>1, <2>2
<1> HIDE DEF o, n, st, H, W
<1>7. /\ o.name \in {"CreateSpace", "Accept"} /\ n = 1 => st = "lockUser"
      /\ o.name = "Invite" /\ n = 4 => st = "lockUser"
      /\ o.name = "Invite" /\ n = 3 => st = "lockSpace"
      /\ o.name = "DeleteSpace" /\ n = 2 => st = "lockSpace"
      /\ o.name = "DeleteSpace" /\ n = 5 => st = "deleteMembers"
      /\ o.name = "DeleteUser" /\ n = 1 => st = "lockUserRow"
      /\ o.name = "DeleteUser" /\ n = 2 => st = "countMemberships"
      /\ o.name = "DeleteUser" /\ n = 3 => st = "deleteInvitations"
  BY <1>3 DEF Place
<1>8. \A k \in Nat : n + 1 > k => n = k \/ n > k
  BY <1>3
<1>9. tx[t].held \subseteq H /\ tx[t].writes \subseteq W
  BY DEF H, W
<1>10. /\ o.name \in {"CreateSpace", "Accept"} /\ n > 1 => <<"user", o.u>> \in H /\ ActiveUser(o.u)
       /\ o.name = "Invite" /\ n > 4 => <<"user", o.u>> \in H /\ ActiveUser(o.u)
       /\ o.name = "Invite" /\ n > 3 => <<"space", o.s>> \in H /\ SpaceExists(o.s)
       /\ o.name = "DeleteSpace" /\ n > 2 => <<"space", o.s>> \in H /\ SpaceExists(o.s)
       /\ o.name = "DeleteSpace" /\ n > 5 =>
            \A u \in User : member[o.s][u] # NoRow => <<<<"member", o.s, u>>, NoRow>> \in W
       /\ o.name = "DeleteUser" /\ n > 1 => <<"user", o.u>> \in H /\ UserExists(o.u)
       /\ o.name = "DeleteUser" /\ n > 2 => \A s \in Space : ~ActiveMember(s, o.u)
       /\ o.name = "DeleteUser" /\ n > 3 =>
            \A s \in Space : member[s][o.u] # NoRow => <<<<"member", s, o.u>>, NoRow>> \in W
  BY <1>1, <1>9 DEF ReadsStand, MemberDeleted, o, n
<1>11. /\ o.name \in {"CreateSpace", "Accept"} /\ n + 1 > 1 =>
            <<"user", o.u>> \in H /\ ActiveUser(o.u)
       /\ o.name = "Invite" /\ n + 1 > 4 => <<"user", o.u>> \in H /\ ActiveUser(o.u)
       /\ o.name = "Invite" /\ n + 1 > 3 => <<"space", o.s>> \in H /\ SpaceExists(o.s)
       /\ o.name = "DeleteSpace" /\ n + 1 > 2 => <<"space", o.s>> \in H /\ SpaceExists(o.s)
  BY <1>4, <1>7, <1>8, <1>10
<1>12. o.name = "DeleteSpace" /\ n + 1 > 5 =>
         \A u \in User : member[o.s][u] # NoRow => <<<<"member", o.s, u>>, NoRow>> \in W
  BY <1>5, <1>7, <1>8, <1>10
<1>13. /\ o.name = "DeleteUser" /\ n + 1 > 1 => <<"user", o.u>> \in H /\ UserExists(o.u)
       /\ o.name = "DeleteUser" /\ n + 1 > 2 => \A s \in Space : ~ActiveMember(s, o.u)
  BY <1>4, <1>7, <1>8, <1>10
<1>14. o.name = "DeleteUser" /\ n + 1 > 3 =>
         \A s \in Space : member[s][o.u] # NoRow => <<<<"member", s, o.u>>, NoRow>> \in W
  <2>1. o.name = "DeleteUser" => o.u \in User
    BY <1>3, NamedRows
  <2>2. o.name = "DeleteUser" /\ n = 3 => \A s \in Space : ~ActiveMember(s, o.u)
    BY <1>3, <1>10
  <2> QED
    BY <1>6, <1>7, <1>8, <1>10, <2>1, <2>2
<1>15. /\ \A u : ActiveUser(u)' <=> ActiveUser(u)
       /\ \A u : UserExists(u)' <=> UserExists(u)
       /\ \A s : SpaceExists(s)' <=> SpaceExists(s)
       /\ \A s, u : ActiveMember(s, u)' <=> ActiveMember(s, u)
       /\ \A s, u : MemberDeleted(t, s, u)' <=> <<<<"member", s, u>>, NoRow>> \in W
  BY <1>2 DEF ActiveUser, UserExists, SpaceExists, ActiveMember, MemberDeleted
<1> QED
  BY <1>2, <1>11, <1>12, <1>13, <1>14, <1>15, <1>16 DEF ReadsStand

\* What justified an earlier write of the transaction still does.
LEMMA ExecuteOldWrites ==
  ASSUME RCInv, NEW t \in Tx, Execute(t), NEW w \in tx[t].writes
  PROVE  Pending(t, w)'
<1>1. Pending(t, w) /\ tx[t].pc \in Nat
  BY DEF Execute, RCInv, TxInv, TxTyped, Running, IsTx
<1>2. /\ tx'[t].op = tx[t].op /\ tx'[t].pc = tx[t].pc + 1
      /\ tx[t].held \subseteq tx'[t].held /\ tx[t].writes \subseteq tx'[t].writes
      /\ user' = user /\ space' = space /\ member' = member
  BY ExecuteState
<1>3. \A k \in Nat : tx[t].pc > k => tx'[t].pc > k
  BY <1>1, <1>2
<1>4. CASE PendingUser(t, w)
  BY <1>2, <1>3, <1>4 DEF PendingUser, Pending, UserExists
<1>5. CASE PendingSpace(t, w)
  BY <1>2, <1>3, <1>5 DEF PendingSpace, Pending
<1>6. CASE PendingProfile(t, w)
  BY <1>6 DEF PendingProfile, Pending
<1>7. CASE PendingMember(t, w)
  <2>1. PICK s \in Space, u \in User, row \in Row \cup {NoRow} :
          /\ w = <<<<"member", s, u>>, row>>
          /\ <<"member", s, u>> \in tx[t].held
          /\ row = NoRow \/ Granted(t, s, u, row)
    BY <1>7 DEF PendingMember
  <2>2. Granted(t, s, u, row) => Granted(t, s, u, row)'
    BY <1>2 DEF Granted, ActiveUser, SpaceExists, Invited, ActiveMember
  <2> QED
    BY <1>2, <2>1, <2>2 DEF PendingMember, Pending
<1> QED
  BY <1>1, <1>4, <1>5, <1>6, <1>7 DEF Pending

\* What a statement writes is justified by what it, and the statements that
\* locked its parents, have seen.
LEMMA ExecuteNewWrites ==
  ASSUME RCInv, NEW t \in Tx, Execute(t), NEW w \in Writes(t)
  PROVE  Pending(t, w)'
<1> DEFINE o == tx[t].op
           n == tx[t].pc
           st == Statement(t)
           H == tx[t].held \cup Locks(t)
           W == tx[t].writes \cup Writes(t)
<1>1. /\ Running(t) /\ ~Finished(t) /\ ReadsStand(t)' /\ Holds(t) /\ TypeOK
      /\ ReadsStand(t)
  BY ExecuteReads DEF Execute, RCInv, TxInv, TxTyped
<1>2. /\ tx'[t].op = o /\ tx'[t].pc = n + 1 /\ tx'[t].held = H /\ tx'[t].writes = W
      /\ user' = user /\ space' = space /\ member' = member
  BY ExecuteState
<1>3. o \in Op /\ n \in Nat \ {0} /\ Place(o.name, n, st, Len(Program(o.name)))
  BY <1>1, StatementPlace DEF RCInv, IsTx
<1>4. /\ st \in UserStatements => o.u \in User
      /\ st \in SpaceStatements => o.s \in Space
      /\ st \in MemberStatements => o.s \in Space /\ o.u \in User
  BY <1>3, StatementFields DEF Reads, UserStatements, SpaceStatements, MemberStatements
<1>5. /\ st \in {"updateUser", "deleteUser"} => <<"user", o.u>> \in H
      /\ st = "deleteSpace" => <<"space", o.s>> \in H
      /\ st = "insertSpace" /\ space[o.s] = "UNUSED" =>
           <<"space", o.s>> \in H /\ MemberRows({o.s}, {o.u}) \subseteq H
      /\ Locks(t) \subseteq H /\ Writes(t) \subseteq W
  BY LocksAre
<1>6. /\ st = "updateUser" => o.name \in {"Archive", "Restore"}
      /\ st = "deleteUser" => o.name = "DeleteUser" /\ n = 5
      /\ st = "deleteSpace" => o.name = "DeleteSpace" /\ n = 6
      /\ st = "updateSpace" => o.name = "UpdateSpace"
      /\ st = "insertSpace" => o.name = "CreateSpace" /\ n = 2
      /\ st = "insertInvitation" => o.name = "Invite" /\ n = 5
      /\ st = "accept" => o.name = "Accept" /\ n = 2
      /\ st = "updateRole" => o.name = "UpdateMember"
  BY <1>3 DEF Place, Reads
<1>7. /\ \A u : ActiveUser(u)' <=> ActiveUser(u)
      /\ \A u : UserExists(u)' <=> UserExists(u)
      /\ \A s : SpaceExists(s)' <=> SpaceExists(s)
      /\ \A s, u : ActiveMember(s, u)' <=> ActiveMember(s, u)
      /\ \A s, u : Invited(s, u)' <=> Invited(s, u)
  BY <1>2 DEF ActiveUser, UserExists, SpaceExists, ActiveMember, Invited
<1>8. st \in Reads \cup UserStatements \cup SpaceStatements \cup MemberStatements
  BY <1>3, StatementFields
<1>9. CASE st \in Reads \cup {"lockUser", "lockUserRow", "lockSpace", "deleteSpaceMemos",
                              "deleteUserMemos"}
  BY <1>9, WritesAre
<1>10. CASE st = "updateUser"
  <2>1. /\ Locks(t) = {<<"user", o.u>>} /\ UserExists(o.u)
        /\ Writes(t) = {<<row, IF o.name = "Archive" THEN "ARCHIVED" ELSE "NORMAL">> :
                          row \in Locks(t)}
    BY <1>1, <1>10, LocksAre, WritesAre, HoldsAre
  <2>2. \E s \in {"ARCHIVED", "NORMAL"} : w = <<<<"user", o.u>>, s>>
    BY <2>1
  <2> QED
    BY <1>2, <1>4, <1>5, <1>6, <1>7, <1>10, <2>1, <2>2 DEF Pending, PendingUser, UserStatements
<1>11. CASE st = "deleteUser"
  <2>1. Locks(t) = {<<"user", o.u>>} /\ Writes(t) = {<<row, "DELETED">> : row \in Locks(t)}
    BY <1>11, LocksAre, WritesAre
  <2>2. w = <<<<"user", o.u>>, "DELETED">>
    BY <2>1
  <2>3. UserExists(o.u)
    BY <1>1, <1>6, <1>11 DEF ReadsStand
  <2> QED
    BY <1>2, <1>4, <1>5, <1>6, <1>7, <1>11, <2>2, <2>3 DEF Pending, PendingUser, UserStatements
<1>12. CASE st = "deleteSpace"
  <2>1. w = <<<<"space", o.s>>, "DELETED">> \/ w = <<<<"profile", o.s>>, NoProfile>>
    BY <1>12, WritesAre
  <2> QED
    BY <1>2, <1>4, <1>5, <1>6, <1>12, <2>1
       DEF Pending, PendingSpace, PendingProfile, SpaceStatements
<1>13. CASE st = "updateSpace"
  <2>1. w = <<<<"profile", o.s>>, o.p>>
    BY <1>13, WritesAre
  <2>2. o.p \in Profile
    BY <1>3, <1>6, <1>13, OpFields
  <2> QED
    BY <1>4, <1>13, <2>1, <2>2 DEF Pending, PendingProfile, SpaceStatements
<1>14. CASE st = "insertSpace"
  <2>1. \/ w = <<<<"space", o.s>>, "LIVE">>
        \/ w = <<<<"profile", o.s>>, o.p>>
        \/ w = <<<<"member", o.s, o.u>>, [status |-> "ACTIVE", role |-> "ADMIN"]>>
    BY <1>14, WritesAre
  <2>2. space[o.s] = "UNUSED" /\ <<<<"space", o.s>>, "LIVE">> \in Writes(t)
    BY <1>1, <1>14, HoldsAre, WritesAre
  <2>3. o.p \in Profile /\ o.s \in Space /\ o.u \in User
    BY <1>3, <1>6, <1>14, OpFields
  <2>4. <<"user", o.u>> \in H /\ ActiveUser(o.u)
    BY <1>1, <1>6, <1>14 DEF ReadsStand
  <2>5. <<"space", o.s>> \in H /\ <<"member", o.s, o.u>> \in H
    BY <1>5, <1>14, <2>2 DEF MemberRows
  <2>6. CASE w = <<<<"space", o.s>>, "LIVE">>
    BY <1>2, <1>6, <1>14, <2>2, <2>3, <2>5, <2>6 DEF Pending, PendingSpace
  <2>7. CASE w = <<<<"profile", o.s>>, o.p>>
    BY <2>3, <2>7 DEF Pending, PendingProfile
  <2>8. CASE w = <<<<"member", o.s, o.u>>, [status |-> "ACTIVE", role |-> "ADMIN"]>>
    <3> DEFINE row == [status |-> "ACTIVE", role |-> "ADMIN"]
    <3>1. row \in Row
      BY DEF Row, Role
    <3>2. Granted(t, o.s, o.u, row)'
      BY <1>2, <1>5, <1>6, <1>7, <1>14, <2>2, <2>4, <2>5 DEF Granted
    <3> QED
      BY <1>2, <2>3, <2>5, <2>8, <3>1, <3>2 DEF Pending, PendingMember
  <2> QED
    BY <2>1, <2>6, <2>7, <2>8
<1>15. CASE st \in {"deleteMembers", "deleteInvitations", "deleteInvitation", "deleteMember"}
  <2>1. PICK r \in Locks(t) : w = <<r, NoRow>>
    BY <1>15, WritesAre
  <2>2. r \in RowLock /\ r[1] = "member"
    BY <1>1, <1>15, LocksTyped, LocksKind DEF LockKind, RCInv
  <2>3. r \in MemberRows(Space, User)
    <3>1. /\ \A x : <<"user", x>>[1] = "user" /\ <<"space", x>>[1] = "space"
          /\ \A x, y : <<"memo", x, y>>[1] = "memo"
      OBVIOUS
    <3> QED
      BY <2>2, <3>1 DEF RowLock, MemoRows
  <2>4. PICK s \in Space, u \in User : r = <<"member", s, u>>
    BY <2>3 DEF MemberRows
  <2> QED
    BY <1>2, <1>5, <2>1, <2>4 DEF Pending, PendingMember
<1>16. CASE st = "insertInvitation"
  <2> DEFINE row == [status |-> "INVITED", role |-> o.role]
  <2>1. Locks(t) = MemberRows({o.s}, {o.u}) /\ Writes(t) = {<<r, row>> : r \in Locks(t)}
    BY <1>16, LocksAre, WritesAre
  <2>2. w = <<<<"member", o.s, o.u>>, row>> /\ <<"member", o.s, o.u>> \in H
    BY <2>1 DEF MemberRows
  <2>3. o.role \in Role
    BY <1>3, <1>6, <1>16, OpFields
  <2>4. <<"user", o.u>> \in H /\ ActiveUser(o.u) /\ <<"space", o.s>> \in H /\ SpaceExists(o.s)
    BY <1>1, <1>6, <1>16 DEF ReadsStand
  <2>5. Granted(t, o.s, o.u, row)'
    BY <1>2, <1>6, <1>7, <1>16, <2>3, <2>4 DEF Granted
  <2>6. row \in Row
    BY <2>3 DEF Row
  <2> QED
    BY <1>2, <1>4, <1>16, <2>2, <2>5, <2>6 DEF Pending, PendingMember, MemberStatements
<1>17. CASE st = "accept"
  <2> DEFINE row == [status |-> "ACTIVE", role |-> member[o.s][o.u].role]
  <2>1. Writes(t) = {<<r, row>> : r \in Locks(t)} /\ Locks(t) \subseteq MemberRows({o.s}, {o.u})
    BY <1>17, LocksAre, WritesAre
  <2>2. w = <<<<"member", o.s, o.u>>, row>> /\ <<"member", o.s, o.u>> \in H
    BY <2>1 DEF MemberRows
  <2>3. Invited(o.s, o.u)
    BY <1>1, <1>17, HoldsAre
  <2>4. <<"user", o.u>> \in H /\ ActiveUser(o.u)
    BY <1>1, <1>6, <1>17 DEF ReadsStand
  <2>5. Granted(t, o.s, o.u, row)'
    BY <1>2, <1>6, <1>7, <1>17, <2>3, <2>4 DEF Granted
  <2>6. o.s \in Space /\ o.u \in User
    BY <1>4, <1>17 DEF MemberStatements
  <2>7. member[o.s][o.u] \in Row
    BY <1>1, <2>3, <2>6 DEF TypeOK, Invited, NoRow
  <2>8. row \in Row
    BY <2>7 DEF Row
  <2> QED
    BY <1>2, <2>2, <2>5, <2>6, <2>8 DEF Pending, PendingMember
<1>18. CASE st = "updateRole"
  <2> DEFINE row == [status |-> "ACTIVE", role |-> o.role]
  <2>1. Writes(t) = {<<r, row>> : r \in Locks(t)} /\ Locks(t) \subseteq MemberRows({o.s}, {o.u})
    BY <1>18, LocksAre, WritesAre
  <2>2. w = <<<<"member", o.s, o.u>>, row>> /\ <<"member", o.s, o.u>> \in H
    BY <2>1 DEF MemberRows
  <2>3. ActiveMember(o.s, o.u)
    BY <1>1, <1>18, HoldsAre
  <2>4. o.role \in Role
    BY <1>3, <1>6, <1>18, OpFields
  <2>5. Granted(t, o.s, o.u, row)'
    BY <1>2, <1>6, <1>7, <1>18, <2>3, <2>4 DEF Granted
  <2>6. row \in Row
    BY <2>4 DEF Row
  <2> QED
    BY <1>2, <1>4, <1>18, <2>2, <2>5, <2>6 DEF Pending, PendingMember, MemberStatements
<1> QED
  BY <1>8, <1>9, <1>10, <1>11, <1>12, <1>13, <1>14, <1>15, <1>16, <1>17, <1>18
     DEF UserStatements, SpaceStatements, MemberStatements

\* So executing a statement keeps the invariant.
LEMMA ExecuteInv ==
  ASSUME RCInv, NEW t \in Tx, Execute(t)
  PROVE  RCInv'
<1>1. TxTyped' /\ OneOwner' /\ NoOrphanRows' /\ UNCHANGED vars
  BY ExecuteTyped, QuietTables DEF Execute
<1>2. TxInv(t)'
  <2>1. \A w \in tx'[t].writes : Pending(t, w)'
    BY ExecuteState, ExecuteOldWrites, ExecuteNewWrites
  <2> QED
    BY <2>1, ExecuteKinds, ExecuteReads DEF TxInv
<1>3. ASSUME NEW v \in Tx, v # t, Running(v)' PROVE TxInv(v)'
  <2>1. tx'[v] = tx[v]
    BY <1>3, ExecuteFields DEF RCInv
  <2>2. Running(v)
    BY <1>3, <2>1 DEF Running
  <2> QED
    BY <1>1, <2>1, <2>2, QuietOthers
<1> QED
  BY <1>1, <1>2, <1>3 DEF RCInv

\* An empty database without transactions satisfies the invariant.
LEMMA RCInvInit == RCInit => RCInv
<1> SUFFICES ASSUME RCInit PROVE RCInv
  OBVIOUS
<1>1. TypeOK
  BY DEF RCInit, Init, TypeOK, UserStatus, SpaceStatus, NoRow, NoProfile
<1>2. NoOrphanRows
  BY DEF RCInit, Init, NoOrphanRows
<1>3. tx = [t \in Tx |-> NoTx]
  BY DEF RCInit
<1>4. TxTyped /\ \A t \in Tx : ~Running(t)
  BY <1>1, <1>3 DEF TxTyped, Running
<1> QED
  BY <1>2, <1>4 DEF RCInv, OneOwner

\* Every step of the PostgreSQL driver keeps the invariant.
LEMMA RCInvNext == RCInv /\ [RCNext]_rcVars => RCInv'
<1> SUFFICES ASSUME RCInv, [RCNext]_rcVars PROVE RCInv'
  OBVIOUS
<1>1. ASSUME NEW u \in User, InsertUser(u) PROVE RCInv'
  BY <1>1, InsertUserInv
<1>2. ASSUME NEW t \in Tx, NEW o \in Op, Begin(t, o) PROVE RCInv'
  BY <1>2, BeginInv
<1>3. ASSUME NEW t \in Tx, Execute(t) PROVE RCInv'
  BY <1>3, ExecuteInv
<1>4. ASSUME NEW t \in Tx, RollbackOnError(t) PROVE RCInv'
  BY <1>4, RollbackInv DEF RollbackOnError
<1>5. ASSUME NEW t \in Tx, Cancel(t) PROVE RCInv'
  BY <1>5, RollbackInv DEF Cancel
<1>6. ASSUME NEW t \in Tx, DeadlockVictim(t) PROVE RCInv'
  BY <1>6, RollbackInv DEF DeadlockVictim
<1>7. ASSUME NEW t \in Tx, Commit(t) PROVE RCInv'
  BY <1>7, CommitInv
<1>8. CASE UNCHANGED rcVars
  <2>1. UNCHANGED vars /\ tx' = tx
    BY <1>8 DEF rcVars
  <2>2. TypeOK' /\ NoOrphanRows'
    BY <2>1, QuietTables
  <2>3. TxTyped' /\ OneOwner'
    BY <2>1, <2>2 DEF RCInv, TxTyped, OneOwner, Running, IsTx, RowLock
  <2>4. ASSUME NEW v \in Tx, Running(v)' PROVE TxInv(v)'
    BY <2>1, <2>4, QuietOthers DEF Running
  <2> QED
    BY <2>2, <2>3, <2>4 DEF RCInv
<1> QED
  BY <1>1, <1>2, <1>3, <1>4, <1>5, <1>6, <1>7, <1>8 DEF RCNext, Step

-----------------------------------------------------------------------------
(* What follows from the invariant.                                        *)

\* The promises of all transactions hold in every state of the PostgreSQL
\* driver, however many connections run.
THEOREM RCInvAlways == RCSpec => []RCInv
<1>1. RCInit => RCInv
  BY RCInvInit
<1>2. RCInv /\ [RCNext]_rcVars => RCInv'
  BY RCInvNext
<1> QED
  BY <1>1, <1>2, PTL DEF RCSpec

\* The committed rows are well typed and every row lock has one holder.
THEOREM ReadCommittedTyped == RCSpec => []RCTypeOK
<1>1. RCInv => RCTypeOK
  <2> SUFFICES ASSUME RCInv, NEW t \in Tx, Running(t)
               PROVE  tx[t].op \in Op /\ tx[t].held \subseteq RowLock \ HeldByOthers(t)
    BY DEF RCInv, TxTyped, RCTypeOK
  <2>1. tx[t].op \in Op /\ tx[t].held \subseteq RowLock
    BY DEF RCInv, TxTyped, IsTx, Running
  <2>2. tx[t].held \cap HeldByOthers(t) = {}
    BY DEF RCInv, OneOwner, HeldByOthers
  <2> QED
    BY <2>1, <2>2
<1> QED
  BY <1>1, RCInvAlways, PTL

\* At READ COMMITTED as well, no space_member row outlives its space or its
\* user: the locks on both parents are enough without foreign keys.
THEOREM ReadCommittedNoOrphans == RCSpec => []NoOrphanRows
<1>1. RCInv => NoOrphanRows
  BY DEF RCInv
<1> QED
  BY <1>1, RCInvAlways, PTL

\* At READ COMMITTED as well, a row becomes ACTIVE only by the consent of its
\* user, who has a NORMAL account when the transaction commits.
THEOREM ReadCommittedConsent == RCSpec => MembershipNeedsConsent
<1>1. RCInv /\ [RCNext]_rcVars => [ConsentStep]_vars
  <2> SUFFICES ASSUME RCInv, RCNext, ~UNCHANGED vars PROVE ConsentStep
    BY DEF rcVars
  <2>1. ASSUME NEW u \in User, InsertUser(u) PROVE ConsentStep
    BY <2>1 DEF InsertUser, CreateUser, DoCreateUser, ConsentStep, ActiveMember
  <2>2. ASSUME NEW t \in Tx, Commit(t) PROVE ConsentStep
    <3> SUFFICES ASSUME NEW s \in Space, NEW u \in User,
                        ActiveMember(s, u)', ~ActiveMember(s, u)
                 PROVE  /\ ActiveUser(u)
                        /\ \/ ~SpaceExists(s) /\ SpaceExists(s)'
                           \/ Invited(s, u) /\ member'[s][u].role = member[s][u].role
      BY DEF ConsentStep
    <3>1. member'[s][u] # member[s][u] /\ member'[s][u] # NoRow
      BY DEF ActiveMember, NoRow
    <3>2. Granted(t, s, u, member'[s][u])
      BY <2>2, <3>1, CommitMember
    <3>3. CASE tx[t].op.name = "CreateSpace"
      <4>1. space[s] = "UNUSED" /\ ActiveUser(u) /\ <<<<"space", s>>, "LIVE">> \in tx[t].writes
        BY <3>2, <3>3 DEF Granted
      <4>2. space'[s] = "LIVE"
        BY <2>2, <3>3, <4>1, CommitSpace
      <4> QED
        BY <4>1, <4>2 DEF SpaceExists
    <3>4. CASE tx[t].op.name = "Accept"
      <4>1. /\ ActiveUser(u) /\ Invited(s, u)
            /\ member'[s][u] = [status |-> "ACTIVE", role |-> member[s][u].role]
        BY <3>2, <3>4 DEF Granted
      <4> QED
        BY <4>1
    <3>5. CASE tx[t].op.name = "Invite"
      <4>1. \E r \in Role : member'[s][u] = [status |-> "INVITED", role |-> r]
        BY <3>2, <3>5 DEF Granted
      <4> QED
        BY <4>1 DEF ActiveMember
    <3>6. CASE tx[t].op.name = "UpdateMember"
      BY <3>2, <3>6 DEF Granted
    <3> QED
      BY <3>2, <3>3, <3>4, <3>5, <3>6 DEF Granted
  <2> QED
    BY <2>1, <2>2 DEF RCNext, Step, Begin, Execute, RollbackOnError, Cancel, DeadlockVictim
<1> QED
  BY <1>1, RCInvAlways, PTL DEF RCSpec, MembershipNeedsConsent

\* Which rows an operation can wait for (kind wanted) while it holds others
\* (kind kept).
Waits(name, wanted, kept) ==
    \/ name = "CreateSpace" /\ wanted \in {"space", "member"} /\ kept = "user"
    \/ name = "DeleteSpace" /\ wanted = "memo" /\ kept = "space"
    \/ name = "DeleteSpace" /\ wanted = "member" /\ kept \in {"space", "memo"}
    \/ name = "Invite" /\ wanted = "user" /\ kept = "space"
    \/ name = "Invite" /\ wanted = "member" /\ kept \in {"space", "user"}
    \/ name = "Accept" /\ wanted = "member" /\ kept = "user"
    \/ name = "DeleteUser" /\ wanted = "member" /\ kept = "user"
    \/ name = "DeleteUser" /\ wanted = "memo" /\ kept \in {"user", "member"}

\* The last statement of a deletion wants a row that it holds already.
Last(name, n) == (name = "DeleteSpace" /\ n = 6) \/ (name = "DeleteUser" /\ n = 5)

\* The table of waits follows from those of programs and of kinds.
LEMMA WaitsTable ==
  ASSUME NEW name, NEW n \in Nat \ {0}, NEW st, NEW len, Place(name, n, st, len), ~Last(name, n),
         NEW wanted, LockKind(st, wanted), NEW kept, Keeps(name, n, kept)
  PROVE  Waits(name, wanted, kept)
<1>0. st \notin Reads
  BY DEF Reads, LockKind
<1>1. CASE name = "CreateSpace"
  BY <1>1 DEF Place, Keeps, LockKind, Waits
<1>2. CASE name = "UpdateSpace"
  BY <1>0, <1>2 DEF Place, Keeps
<1>3. CASE name = "DeleteSpace"
  BY <1>0, <1>3 DEF Place, Keeps, LockKind, Waits, Last
<1>4. CASE name = "Invite"
  BY <1>0, <1>4 DEF Place, Keeps, LockKind, Waits
<1>5. CASE name = "Accept"
  BY <1>5 DEF Place, Keeps, LockKind, Waits
<1>6. CASE name = "DeleteUser"
  <2>1. "countMemberships" \in Reads
    BY DEF Reads
  <2> QED
    BY <1>0, <1>6, <2>1 DEF Place, Keeps, LockKind, Waits, Last
<1>7. CASE name \in {"Decline", "Revoke", "UpdateMember", "DeleteMember", "Archive", "Restore"}
  BY <1>7 DEF Keeps
<1> QED
  BY <1>1, <1>2, <1>3, <1>4, <1>5, <1>6, <1>7 DEF Place

\* Two operations that each want a kind of row the other keeps.
LEMMA OppositeWaits ==
  ASSUME NEW a, NEW b, NEW k, NEW l, Waits(a, k, l), Waits(b, l, k)
  PROVE  \/ {a, b} = {"DeleteUser", "DeleteSpace"}
         \/ a = "CreateSpace" /\ b = "Invite" /\ k = "space"
         \/ b = "CreateSpace" /\ a = "Invite" /\ l = "space"
  BY DEF Waits

\* A transaction that is blocked wants a row that it does not hold.
LEMMA BlockedWants ==
  ASSUME RCInv, NEW t \in Tx, Blocked(t)
  PROVE  /\ Running(t) /\ ~Finished(t)
         /\ tx[t].pc \in Nat \ {0}
         /\ Place(tx[t].op.name, tx[t].pc, Statement(t), Len(Program(tx[t].op.name)))
         /\ ~Last(tx[t].op.name, tx[t].pc)
<1> DEFINE o == tx[t].op
<1>1. Running(t) /\ ~Finished(t) /\ Locks(t) \cap HeldByOthers(t) # {}
  BY DEF Blocked
<1>2. tx[t].pc \in Nat \ {0} /\ Place(o.name, tx[t].pc, Statement(t), Len(Program(o.name)))
  BY <1>1, StatementPlace DEF RCInv, IsTx
<1>3. tx[t].held \cap HeldByOthers(t) = {}
  BY <1>1 DEF RCInv, OneOwner, HeldByOthers
<1>4. ReadsStand(t)
  BY <1>1 DEF RCInv, TxInv
<1>5. CASE o.name = "DeleteSpace" /\ tx[t].pc = 6
  <2>1. Statement(t) = "deleteSpace"
    BY <1>2, <1>5 DEF Place
  <2>2. Locks(t) = {<<"space", o.s>>}
    BY <2>1, LocksAre
  <2>3. <<"space", o.s>> \in tx[t].held
    BY <1>4, <1>5 DEF ReadsStand
  <2> QED
    BY <1>1, <1>3, <2>2, <2>3
<1>6. CASE o.name = "DeleteUser" /\ tx[t].pc = 5
  <2>1. Statement(t) = "deleteUser"
    BY <1>2, <1>6 DEF Place
  <2>2. Locks(t) = {<<"user", o.u>>}
    BY <2>1, LocksAre
  <2>3. <<"user", o.u>> \in tx[t].held
    BY <1>4, <1>6 DEF ReadsStand
  <2> QED
    BY <1>1, <1>3, <2>2, <2>3
<1> QED
  BY <1>1, <1>2, <1>5, <1>6 DEF Last

\* CreateSpace inserts under an id that no invitation has locked.
LEMMA CreateWantsNoInvite ==
  ASSUME RCInv, NEW t \in Tx, NEW v \in Tx, Blocked(t), Running(v),
         tx[t].op.name = "CreateSpace", tx[v].op.name = "Invite",
         NEW r \in Locks(t) \cap tx[v].held, r[1] = "space"
  PROVE  FALSE
<1> DEFINE o == tx[t].op
<1>1. tx[t].op \in Op /\ Running(t) /\ ~Finished(t)
  BY DEF Blocked, RCInv, TxTyped, IsTx, Running
<1>2. Place(o.name, tx[t].pc, Statement(t), Len(Program(o.name))) /\ LockKind(Statement(t), "space")
  BY <1>1, BlockedWants, LocksKind DEF RCInv
<1>3. Statement(t) = "insertSpace"
  BY <1>2 DEF Place, LockKind
<1>4. Locks(t) = IF space[o.s] = "UNUSED"
                   THEN {<<"space", o.s>>} \cup MemberRows({o.s}, {o.u}) ELSE {}
  BY <1>3, LocksAre
<1>5. space[o.s] = "UNUSED" /\ r = <<"space", o.s>>
  <2>1. \A x \in MemberRows({o.s}, {o.u}) : x[1] = "member"
    BY DEF MemberRows
  <2> QED
    BY <1>4, <2>1
<1>6. o.s \in Space
  BY <1>1, OpFields
<1>7. SpaceExists(o.s)
  BY <1>5, <1>6 DEF RCInv, TxInv, ReadsStand
<1> QED
  BY <1>5, <1>7 DEF SpaceExists

\* Two transactions wait for each other only when one deletes a user and the
\* other a space, for any number of connections.
THEOREM OnlyDeletesEverDeadlock == RCSpec => []OnlyDeletesDeadlock
<1>1. RCInv => OnlyDeletesDeadlock
  <2> SUFFICES ASSUME RCInv, NEW t \in Tx, NEW v \in Tx, WaitsFor(t, v), WaitsFor(v, t)
               PROVE  {tx[t].op.name, tx[v].op.name} = {"DeleteUser", "DeleteSpace"}
    BY DEF OnlyDeletesDeadlock
  <2>1. Blocked(t) /\ Blocked(v) /\ Running(t) /\ Running(v) /\ ~Finished(t) /\ ~Finished(v)
    BY DEF WaitsFor, Blocked
  <2>2. PICK r \in Locks(t) \cap tx[v].held : TRUE
    BY DEF WaitsFor
  <2>3. PICK q \in Locks(v) \cap tx[t].held : TRUE
    BY DEF WaitsFor
  <2>4. LockKind(Statement(t), r[1]) /\ LockKind(Statement(v), q[1])
    BY <2>1, <2>2, <2>3, LocksKind DEF RCInv
  <2>5. Keeps(tx[t].op.name, tx[t].pc, q[1]) /\ Keeps(tx[v].op.name, tx[v].pc, r[1])
    BY <2>1, <2>2, <2>3 DEF RCInv, TxInv, KindsInv
  <2>6. Waits(tx[t].op.name, r[1], q[1]) /\ Waits(tx[v].op.name, q[1], r[1])
    BY <2>1, <2>4, <2>5, BlockedWants, WaitsTable
  <2>7. ~(tx[t].op.name = "CreateSpace" /\ tx[v].op.name = "Invite" /\ r[1] = "space")
    BY <2>1, <2>2, CreateWantsNoInvite
  <2>8. ~(tx[v].op.name = "CreateSpace" /\ tx[t].op.name = "Invite" /\ q[1] = "space")
    BY <2>1, <2>3, CreateWantsNoInvite
  <2> QED
    BY <2>6, <2>7, <2>8, OppositeWaits
<1> QED
  BY <1>1, RCInvAlways, PTL
=============================================================================
