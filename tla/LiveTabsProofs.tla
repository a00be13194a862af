--------------------------- MODULE LiveTabsProofs ---------------------------
(***************************************************************************)
(* Theorems about LiveTabs, for any tabs and bounds.                       *)
(***************************************************************************)
EXTENDS LiveTabs, TLAPS

\* The types of what a controller depends on; nobody's loop has no phase.
LoopTypes ==
    /\ online \in BOOLEAN
    /\ page \in [Tab -> {"visible", "hidden", "away"}]
    /\ timer \in [Tab -> BOOLEAN]
    /\ wanted \in [Tab -> BOOLEAN]
    /\ waiting \subseteq Tab
    /\ leader \in [tab : Tab \cup {NoTab},
                   phase : {"none", "connecting", "reading", "backoff"}, aborted : BOOLEAN]
    /\ leader.tab = NoTab => leader = NoLeader

\* The inductive invariant.
TabsInv == LoopTypes /\ ControllerMatches

-----------------------------------------------------------------------------
(* How the operations that change a controller change it.                  *)

\* stopLeadership keeps it, whatever becomes of the page: its loop is aborted
\* and its request withdrawn.
LEMMA StopKeeps ==
    ASSUME TabsInv, NEW t \in Tab, stopLeadership(t), online' \in BOOLEAN,
           NEW p \in {"visible", "hidden", "away"}, page' = [page EXCEPT ![t] = p],
           NEW b \in BOOLEAN, timer' = [timer EXCEPT ![t] = b]
    PROVE  TabsInv'
<1> USE TabsAssumption DEF TabsInv, LoopTypes, ControllerMatches
<1>1. /\ wanted' = [wanted EXCEPT ![t] = FALSE]
      /\ waiting' = waiting \ {t}
      /\ leader' = [leader EXCEPT !.aborted = @ \/ leader.tab = t]
  BY DEF stopLeadership
<1>2. CASE leader.tab = t
  <2>1. leader' = [leader EXCEPT !.aborted = TRUE]
    BY <1>1, <1>2
  <2> QED BY <1>1, <1>2, <2>1
<1>3. CASE leader.tab # t
  <2>1. leader' = leader
    BY <1>1, <1>3
  <2>2. leader.tab' = NoTab => leader' = NoLeader'
    BY <2>1 DEF NoLeader
  <2> QED BY <1>1, <1>3, <2>1, <2>2
<1> QED BY <1>2, <1>3

\* reconcilePageState of a page that is shown or restored keeps the invariant:
\* an eligible page asks for the lock unless it has asked, and another stops.
LEMMA ReconcileShown ==
    ASSUME TabsInv, NEW t \in Tab, reconcilePageState(t, TRUE),
           page' = [page EXCEPT ![t] = "visible"], online' = online
    PROVE  TabsInv'
<1> USE TabsAssumption DEF TabsInv, LoopTypes, ControllerMatches, NoLeader
<1>1. timer' = [timer EXCEPT ![t] = FALSE]
  BY DEF reconcilePageState
<1>2. CASE online /\ wanted[t]
  BY <1>1, <1>2 DEF reconcilePageState, startLeadership, loop
<1>3. CASE online /\ ~wanted[t]
  <2>1. /\ wanted' = [wanted EXCEPT ![t] = TRUE]
        /\ waiting' = waiting \cup {t}
        /\ leader' = leader
    BY <1>3 DEF reconcilePageState, startLeadership
  <2>2. leader.tab # t \/ leader.aborted
    BY <1>3
  <2> QED BY <1>1, <1>3, <2>1, <2>2
<1>4. CASE ~online
  <2>1. stopLeadership(t)
    BY <1>4 DEF reconcilePageState
  <2> QED BY <1>1, <2>1, StopKeeps
<1> QED BY <1>2, <1>3, <1>4

\* A page that is hidden, or hears of the network while it is, keeps what it
\* has and has a timer.
LEMMA ReconcileHidden ==
    ASSUME TabsInv, NEW t \in Tab, reconcilePageState(t, FALSE),
           page' = [page EXCEPT ![t] = "hidden"], online' = online
    PROVE  TabsInv'
BY TabsAssumption
   DEF TabsInv, LoopTypes, ControllerMatches, NoLeader, reconcilePageState, loop

\* A loop that returns takes its own controller along and nobody else's.
LEMMA ReturnKeeps ==
    ASSUME TabsInv, leader.tab \in Tab, Return,
           UNCHANGED <<online, page, timer, waiting>>
    PROVE  TabsInv'
BY TabsAssumption DEF TabsInv, LoopTypes, ControllerMatches, NoLeader, Return

-----------------------------------------------------------------------------
\* The initial state has the invariant.
LEMMA TabsInit == Init => TabsInv
BY TabsAssumption DEF Init, TabsInv, LoopTypes, ControllerMatches, NoLeader

\* Every step keeps it.
LEMMA TabsStep == TabsInv /\ [Next]_vars => TabsInv'
<1> SUFFICES ASSUME TabsInv, [Next]_vars PROVE TabsInv'
  OBVIOUS
<1> USE TabsAssumption DEF tabs
<1>a. LoopTypes
  BY DEF TabsInv
<1>1. ASSUME NEW t \in Tab, Grant(t) PROVE TabsInv'
  <2> USE DEF TabsInv, LoopTypes, ControllerMatches
  <2>1. /\ leader.tab = NoTab /\ t \in waiting
        /\ waiting' = waiting \ {t}
        /\ UNCHANGED <<online, page, timer>>
    BY <1>1 DEF Grant, NoLeader
  <2>2. CASE isPageEligibleForSSE(t)
    <3>1. /\ leader' = [tab |-> t, phase |-> "connecting", aborted |-> FALSE]
          /\ wanted' = wanted
      BY <1>1, <2>2 DEF Grant
    <3>2. wanted[t]
      BY <2>1
    <3> QED BY <2>1, <3>1, <3>2
  <2>3. CASE ~isPageEligibleForSSE(t)
    <3>1. wanted' = [wanted EXCEPT ![t] = FALSE] /\ leader' = leader
      BY <1>1, <2>3 DEF Grant
    <3>2. leader.tab' = NoTab => leader' = NoLeader'
      BY <3>1 DEF NoLeader
    <3> QED BY <2>1, <3>1, <3>2
  <2> QED BY <2>2, <2>3
<1>2. ASSUME NoTokenLeft PROVE TabsInv'
  <2>1. leader.tab \in Tab
    BY <1>2, <1>a DEF NoTokenLeft, LoopTypes, NoLeader
  <2> QED BY <2>1, <1>2, ReturnKeeps DEF NoTokenLeft
<1>3. ASSUME LoopReturns PROVE TabsInv'
  <2>1. leader.tab \in Tab
    BY <1>3, <1>a DEF LoopReturns, LoopTypes, NoLeader
  <2> QED BY <2>1, <1>3, ReturnKeeps DEF LoopReturns
<1>4. ASSUME Connected \/ Disconnected \/ Retry PROVE TabsInv'
  <2>1. /\ leader.phase # "none"
        /\ \E phase \in {"connecting", "reading", "backoff"} :
             leader' = [leader EXCEPT !.phase = phase]
        /\ UNCHANGED <<online, page, timer, wanted, waiting>>
    BY <1>4 DEF Connected, Disconnected, Retry, Answered, At, GoTo
  <2> QED BY <2>1 DEF TabsInv, LoopTypes, ControllerMatches, NoLeader
<1>5. ASSUME ReadEvent \/ Change \/ (\E t \in Tab : handleSyncMessage(t)) PROVE TabsInv'
  <2>1. UNCHANGED <<online, page, timer, wanted, waiting, leader>>
    BY <1>5 DEF ReadEvent, Change, handleSyncMessage, loop
  <2> QED BY <2>1 DEF TabsInv, LoopTypes, ControllerMatches
<1>6. ASSUME Network PROVE TabsInv'
  BY <1>6 DEF Network, loop, TabsInv, LoopTypes, ControllerMatches
<1>7. ASSUME NEW t \in Tab, Hide(t) PROVE TabsInv'
  BY <1>7, ReconcileHidden DEF Hide
<1>8. ASSUME NEW t \in Tab, Show(t) \/ PageShow(t) PROVE TabsInv'
  BY <1>8, ReconcileShown DEF Show, PageShow
<1>9. ASSUME NEW t \in Tab, PageHide(t) PROVE TabsInv'
  BY <1>9, <1>a, StopKeeps DEF PageHide, LoopTypes
<1>10. ASSUME NEW t \in Tab, HiddenTooLong(t) PROVE TabsInv'
  <2>1. page' = [page EXCEPT ![t] = page[t]]
    BY <1>10, <1>a DEF HiddenTooLong, LoopTypes
  <2> QED BY <2>1, <1>10, <1>a, StopKeeps DEF HiddenTooLong, LoopTypes
<1>11. ASSUME NEW t \in Tab, HandleNews(t) PROVE TabsInv'
  <2>1. page' = [page EXCEPT ![t] = page[t]] /\ online' = online
    BY <1>11, <1>a DEF HandleNews, LoopTypes
  <2>2. CASE ~Head(news[t])
    <3>1. stopLeadership(t) /\ timer' = [timer EXCEPT ![t] = timer[t]]
      BY <2>2, <1>11, <1>a DEF HandleNews, LoopTypes
    <3> QED BY <3>1, <2>1, <1>a, StopKeeps DEF LoopTypes
  <2>3. CASE Head(news[t]) /\ page[t] = "visible"
    <3>1. reconcilePageState(t, TRUE)
      BY <2>3, <1>11 DEF HandleNews
    <3> QED BY <3>1, <2>1, <2>3, ReconcileShown
  <2>4. CASE Head(news[t]) /\ page[t] # "visible"
    <3>1. reconcilePageState(t, FALSE) /\ page[t] = "hidden"
      BY <2>4, <1>11 DEF HandleNews, Active
    <3> QED BY <3>1, <2>1, ReconcileHidden
  <2> QED BY <2>2, <2>3, <2>4
<1>12. ASSUME NEW t \in Tab, Load(t) PROVE TabsInv'
  <2>1. ~wanted[t] /\ t \notin waiting
    BY <1>12 DEF Load, TabsInv, ControllerMatches, LoopTypes
  <2> QED BY <2>1, <1>12 DEF Load, TabsInv, ControllerMatches, LoopTypes, NoLeader
<1>13. CASE UNCHANGED vars
  BY <1>13 DEF vars, loop, TabsInv, LoopTypes, ControllerMatches
<1> QED
  BY <1>1, <1>2, <1>3, <1>4, <1>5, <1>6, <1>7, <1>8, <1>9, <1>10, <1>11, <1>12, <1>13
     DEF Next, LoopStep, TabStep

\* The inductive invariant of the connection's leadership.
THEOREM TabsSound == Spec => []TabsInv
BY TabsInit, TabsStep, PTL DEF Spec

\* For any number of tabs, a tab has a controller exactly while it waits for the
\* lock or leads, so that stopLeadership always ends what the tab has begun; and
\* a page that keeps one is visible or has a timer that ends it.
THEOREM ControllersMatch == Spec => []ControllerMatches
<1>1. TabsInv => ControllerMatches
  BY DEF TabsInv
<1> QED BY <1>1, TabsSound, PTL
=============================================================================
