------------------------------ MODULE LiveTabs ------------------------------
(***************************************************************************)
(* The tabs of one browser share one live-update stream                    *)
(* (web/src/hooks/useLiveMemoRefresh.ts): whoever holds a lock runs the    *)
(* connection loop and passes events and its status to the other tabs      *)
(* through a BroadcastChannel.  Tabs are hidden, shown, left and restored, *)
(* the network goes and comes, and the lock changes hands.                 *)
(*                                                                         *)
(* What LiveUpdates examines is taken for granted here: a stream delivers  *)
(* every change or ends, and an invalidated cache is fetched again.  The   *)
(* lock manager grants a free lock to somebody who waits; the channel      *)
(* delivers in the order of the posts, to documents that are active, and   *)
(* faster than a request is answered.                                                               *)
(***************************************************************************)
EXTENDS Naturals, Sequences

CONSTANTS
    Tab,
    NoTab,          \* no tab
    First,          \* the tab that leads at first
    MaxChanges,     \* bound of the changes on the server
    MaxFaults,      \* bound of failing requests and broken streams
    MaxInputs       \* bound of what user and network do to the pages

ASSUME TabsAssumption == First \in Tab /\ NoTab \notin Tab
ASSUME TabsBounds == {MaxChanges, MaxFaults, MaxInputs} \subseteq Nat

VARIABLES
    online,     \* navigator.onLine
    news,       \* news[t]: online and offline events t has not handled
    page,       \* page[t]: the document of t
    timer,      \* timer[t]: hiddenDisconnectTimeout is set
    wanted,     \* wanted[t]: leadershipAbortController is set
    waiting,    \* the tabs whose requests for the lock are pending
    leader,     \* the connection loop of the lock's holder
    status,     \* status[t]: _status
    once,       \* once[t]: hasConnectedOnceRef
    inbox,      \* inbox[t]: messages t has not handled
    wire        \* events on their way to the leader

VARIABLES changes, faults, inputs    \* what the bounds count

\* Read by the properties only.
VARIABLES
    behind,     \* behind[t]: a change t must show has not invalidated its caches
    gaveUp      \* gaveUp[t]: the loop of t has ended because it got no token

loop == <<wanted, waiting, leader>>
tabs == <<page, timer, news, online>>
bounds == <<changes, faults, inputs>>
vars == <<tabs, loop, status, once, inbox, wire, behind, gaveUp, bounds>>

NoLeader == [tab |-> NoTab, phase |-> "none", aborted |-> FALSE]

Active(t) == page[t] \in {"visible", "hidden"}
isPageEligibleForSSE(t) == page[t] = "visible" /\ online

-----------------------------------------------------------------------------
(* The channel.                                                            *)

EventMessage == [kind |-> "event"]
StatusMessage(s) == [kind |-> "status", status |-> s]
StatusRequest(t) == [kind |-> "status-request", requester |-> t]

\* The inboxes after t has posted m; there are no messages to oneself.
postSyncMessage(t, m) ==
    [o \in Tab |-> IF o # t /\ Active(o) THEN Append(inbox[o], m) ELSE inbox[o]]

publishStatus(t, s) ==
    /\ status' = [status EXCEPT ![t] = s]
    /\ inbox' = postSyncMessage(t, StatusMessage(s))

\* setSSEStatus, and the resynchronisation when connected again.
AdoptStatus(t, s) ==
    /\ status' = [status EXCEPT ![t] = s]
    /\ once' = [once EXCEPT ![t] = @ \/ s = "connected"]
    /\ behind' = [behind EXCEPT ![t] = @ /\ ~(s = "connected" /\ once[t])]

-----------------------------------------------------------------------------
(* Leadership.                                                             *)

\* Mutant: nobody is asked for the status.
startLeadershipSilently(t) ==
    /\ gaveUp' = [gaveUp EXCEPT ![t] = FALSE]
    /\ IF wanted[t]
       THEN UNCHANGED <<loop, inbox>>
       ELSE /\ wanted' = [wanted EXCEPT ![t] = TRUE]
            /\ waiting' = waiting \cup {t}
            /\ UNCHANGED <<leader, inbox>>
    /\ UNCHANGED status

\* For an eligible page: the lock is requested once, and whoever leads is
\* asked for its status.
startLeadership(t) ==
    /\ gaveUp' = [gaveUp EXCEPT ![t] = FALSE]
    /\ IF wanted[t]
       THEN UNCHANGED <<loop, inbox>>
       ELSE /\ wanted' = [wanted EXCEPT ![t] = TRUE]
            /\ waiting' = waiting \cup {t}
            /\ inbox' = postSyncMessage(t, StatusRequest(t))
            /\ UNCHANGED leader
    /\ UNCHANGED status

\* The abort withdraws a request that is pending; a loop notices it later.
stopLeadership(t) ==
    /\ wanted' = [wanted EXCEPT ![t] = FALSE]
    /\ waiting' = waiting \ {t}
    /\ leader' = [leader EXCEPT !.aborted = @ \/ leader.tab = t]
    /\ status' = [status EXCEPT ![t] = "disconnected"]
    /\ gaveUp' = [gaveUp EXCEPT ![t] = FALSE]
    /\ UNCHANGED inbox

\* For a page that is visible or hidden now.
reconcilePageState(t, visible) ==
    /\ timer' = [timer EXCEPT ![t] = ~visible]
    /\ IF ~visible THEN UNCHANGED <<loop, status, inbox, gaveUp>>
       ELSE IF online THEN startLeadership(t) ELSE stopLeadership(t)

-----------------------------------------------------------------------------
(* Pages and network.                                                      *)

Input ==
    /\ inputs < MaxInputs /\ inputs' = inputs + 1
    /\ UNCHANGED <<changes, faults, wire>>

Hide(t) ==
    /\ Input /\ page[t] = "visible"
    /\ page' = [page EXCEPT ![t] = "hidden"]
    /\ reconcilePageState(t, FALSE)
    /\ UNCHANGED <<news, online, once, behind>>

Show(t) ==
    /\ Input /\ page[t] = "hidden"
    /\ page' = [page EXCEPT ![t] = "visible"]
    /\ reconcilePageState(t, TRUE)
    /\ UNCHANGED <<news, online, once, behind>>

\* The timer of reconcilePageState.
HiddenTooLong(t) ==
    /\ timer[t] /\ Active(t)
    /\ timer' = [timer EXCEPT ![t] = FALSE]
    /\ stopLeadership(t)
    /\ UNCHANGED <<page, news, online, once, wire, behind, bounds>>

\* pagehide: the document is left, and perhaps kept.
PageHide(t) ==
    /\ Input /\ Active(t)
    /\ page' = [page EXCEPT ![t] = "away"]
    /\ timer' = [timer EXCEPT ![t] = FALSE]
    /\ stopLeadership(t)
    /\ UNCHANGED <<news, online, once, behind>>

\* pageshow: the document that was kept is restored.
PageShow(t) ==
    /\ Input /\ page[t] = "away"
    /\ page' = [page EXCEPT ![t] = "visible"]
    /\ reconcilePageState(t, TRUE)
    /\ UNCHANGED <<news, online, once, behind>>

\* A new document, with what it has just fetched.
Load(t) ==
    /\ Input /\ page[t] = "away" /\ leader.tab # t
    /\ page' = [page EXCEPT ![t] = "visible"]
    /\ news' = [news EXCEPT ![t] = <<>>]
    /\ once' = [once EXCEPT ![t] = FALSE]
    /\ behind' = [behind EXCEPT ![t] = FALSE]
    /\ timer' = [timer EXCEPT ![t] = FALSE]
    /\ gaveUp' = [gaveUp EXCEPT ![t] = FALSE]
    /\ status' = [status EXCEPT ![t] = "disconnected"]
    /\ wanted' = [wanted EXCEPT ![t] = online]
    /\ waiting' = IF online THEN waiting \cup {t} ELSE waiting
    /\ inbox' = [IF online THEN postSyncMessage(t, StatusRequest(t)) ELSE inbox
                   EXCEPT ![t] = <<>>]
    /\ UNCHANGED <<online, leader>>

\* The network goes or comes; every document is told in its turn, one that was left when it
\* is restored.
Network ==
    /\ Input
    /\ online' = ~online
    /\ news' = [t \in Tab |-> Append(news[t], online')]
    /\ UNCHANGED <<page, timer, loop, status, once, inbox, behind, gaveUp>>

\* handleOnline, handleOffline
HandleNews(t) ==
    /\ Active(t) /\ news[t] # <<>>
    /\ news' = [news EXCEPT ![t] = Tail(@)]
    /\ IF Head(news[t]) THEN reconcilePageState(t, page[t] = "visible")
                        ELSE stopLeadership(t) /\ UNCHANGED timer
    /\ UNCHANGED <<page, online, once, wire, behind, bounds>>

-----------------------------------------------------------------------------
(* The connection loop.                                                    *)

Fault == faults < MaxFaults /\ faults' = faults + 1 /\ UNCHANGED <<changes, inputs>>

At(phase) == leader.phase = phase /\ ~leader.aborted
GoTo(phase) == leader' = [leader EXCEPT !.phase = phase]

\* Mutant: the tab that gives the lock back keeps its controller.
GrantKeepsController(t) ==
    /\ leader = NoLeader /\ t \in waiting
    /\ waiting' = waiting \ {t}
    /\ IF isPageEligibleForSSE(t)
       THEN /\ leader' = [tab |-> t, phase |-> "connecting", aborted |-> FALSE]
            /\ publishStatus(t, "connecting")
       ELSE UNCHANGED <<leader, status, inbox>>
    /\ UNCHANGED <<tabs, wanted, once, wire, behind, gaveUp, bounds>>

\* The lock is granted.  A tab that has been hidden while it waited gives it
\* back, and its controller up.
Grant(t) ==
    /\ leader = NoLeader /\ t \in waiting
    /\ waiting' = waiting \ {t}
    /\ IF isPageEligibleForSSE(t)
       THEN /\ leader' = [tab |-> t, phase |-> "connecting", aborted |-> FALSE]
            /\ publishStatus(t, "connecting")
            /\ UNCHANGED wanted
       ELSE /\ wanted' = [wanted EXCEPT ![t] = FALSE]
            /\ UNCHANGED <<leader, status, inbox>>
    /\ UNCHANGED <<tabs, once, wire, behind, gaveUp, bounds>>

\* Mutant: whatever controller is set is forgotten.
ReturnForgetting ==
    leader' = NoLeader /\ wanted' = [wanted EXCEPT ![leader.tab] = FALSE] /\ wire' = 0

\* The task returns, the lock is free, and the controller, if it still is the
\* loop's own, forgotten.
Return ==
    /\ leader' = NoLeader
    /\ wanted' = [wanted EXCEPT ![leader.tab] = @ /\ leader.aborted]
    /\ wire' = 0

\* There is no token: the loop ends, without a look at the signal.
NoTokenLeft ==
    /\ leader.phase = "connecting" /\ Active(leader.tab)
    /\ Fault
    /\ publishStatus(leader.tab, "disconnected")
    /\ Return
    /\ gaveUp' = [gaveUp EXCEPT ![leader.tab] = ~leader.aborted]
    /\ UNCHANGED <<tabs, waiting, once, behind>>

\* Messages of earlier leaders have come before the answer.
Answered ==
    /\ At("connecting")
    /\ \A n \in DOMAIN inbox[leader.tab] : inbox[leader.tab][n].kind # "status"

Connected ==
    /\ Answered
    /\ GoTo("reading")
    /\ AdoptStatus(leader.tab, "connected")
    /\ inbox' = postSyncMessage(leader.tab, StatusMessage("connected"))
    /\ wire' = 0
    /\ UNCHANGED <<tabs, wanted, waiting, gaveUp, bounds>>

\* The request is refused or fails, or the stream ends: the loop backs off.
Disconnected ==
    /\ Answered \/ At("reading")
    /\ Fault
    /\ GoTo("backoff")
    /\ publishStatus(leader.tab, "disconnected")
    /\ wire' = 0
    /\ UNCHANGED <<tabs, wanted, waiting, once, behind, gaveUp>>

Retry ==
    /\ At("backoff")
    /\ GoTo("connecting")
    /\ publishStatus(leader.tab, "connecting")
    /\ UNCHANGED <<tabs, wanted, waiting, once, wire, behind, gaveUp, bounds>>

\* consumeSSEStream and publishEvent
ReadEvent ==
    /\ At("reading") /\ wire > 0
    /\ wire' = wire - 1
    /\ behind' = [behind EXCEPT ![leader.tab] = FALSE]
    /\ inbox' = postSyncMessage(leader.tab, EventMessage)
    /\ UNCHANGED <<tabs, loop, status, once, gaveUp, bounds>>

\* The abort has ended the request, the reading or the wait; a loop that
\* waits for its token meets it when it begins the request.  The browser frees
\* the lock of a document that was left.
LoopReturns ==
    /\ leader.aborted
    /\ Return
    /\ UNCHANGED <<tabs, waiting, status, once, inbox, behind, gaveUp, bounds>>

\* handleSyncMessage.  The answer to a request is for the requester only.
handleSyncMessage(t) ==
    /\ Active(t) /\ inbox[t] # <<>>
    /\ LET m == Head(inbox[t])
           rest == [inbox EXCEPT ![t] = Tail(@)]
       IN CASE m.kind = "event" ->
                 /\ once' = [once EXCEPT ![t] = TRUE]
                 /\ behind' = [behind EXCEPT ![t] = FALSE]
                 /\ inbox' = rest
                 /\ UNCHANGED status
            [] m.kind = "status" ->
                 /\ AdoptStatus(t, m.status)
                 /\ inbox' = rest
            [] OTHER ->
                 /\ inbox' = IF leader.tab = t /\ Active(m.requester)
                             THEN [rest EXCEPT ![m.requester] = Append(@, StatusMessage(status[t]))]
                             ELSE rest
                 /\ UNCHANGED <<status, once, behind>>
    /\ UNCHANGED <<tabs, loop, wire, gaveUp, bounds>>

\* The server publishes a change.  Who has never been connected is not owed it.
Change ==
    /\ changes < MaxChanges
    /\ changes' = changes + 1
    /\ wire' = IF leader.phase = "reading" THEN wire + 1 ELSE wire
    /\ behind' = [t \in Tab |-> behind[t] \/ once[t]]
    /\ UNCHANGED <<tabs, loop, status, once, inbox, gaveUp, faults, inputs>>

-----------------------------------------------------------------------------
\* One tab has connected and the others follow it.
Init ==
    /\ online = TRUE
    /\ page = [t \in Tab |-> "visible"]
    /\ wanted = [t \in Tab |-> TRUE]
    /\ waiting = Tab \ {First}
    /\ leader = [tab |-> First, phase |-> "reading", aborted |-> FALSE]
    /\ status = [t \in Tab |-> "connected"]
    /\ once = [t \in Tab |-> TRUE]
    /\ inbox = [t \in Tab |-> <<>>] /\ news = inbox
    /\ timer = [t \in Tab |-> FALSE] /\ behind = timer /\ gaveUp = timer
    /\ wire = 0
    /\ changes = 0 /\ faults = 0 /\ inputs = 0

LoopStep ==
    \/ (\E t \in Tab : Grant(t)) \/ NoTokenLeft \/ Connected \/ Disconnected
    \/ Retry \/ ReadEvent \/ LoopReturns

TabStep(t) == handleSyncMessage(t) \/ HandleNews(t)

Next ==
    \/ LoopStep \/ Change \/ Network
    \/ \E t \in Tab : \/ TabStep(t) \/ HiddenTooLong(t)
                      \/ Hide(t) \/ Show(t) \/ PageHide(t) \/ PageShow(t) \/ Load(t)

\* Events and messages are handled; requests settle, and are repeated without
\* limit.  Nothing is assumed of the user, of the network or of timers.
Fairness == WF_vars(LoopStep) /\ \A t \in Tab : WF_vars(TabStep(t))

Spec == Init /\ [][Next]_vars /\ Fairness

-----------------------------------------------------------------------------
(* Properties.                                                             *)

\* A tab has a controller exactly while a request of its own is pending or its
\* own loop runs unaborted (the comparison in startLeadership's finally): else
\* a tab leads that nobody can stop, or one never asks again.  And only a page
\* that is visible has one, or one whose timer will end it.
ControllerMatches ==
    /\ \A t \in Tab :
         /\ wanted[t] <=> (t \in waiting \/ (leader.tab = t /\ ~leader.aborted))
         /\ wanted[t] => page[t] = "visible" \/ (page[t] = "hidden" /\ timer[t])
    /\ leader.aborted \/ leader.tab \notin waiting

Served(t) == page[t] = "visible" /\ online /\ ~gaveUp[t]

\* A tab that stays visible and online does not miss a change for ever,
\* whoever has led when it happened and whichever frames, messages and answers
\* were lost with a leader that left.
SharedChangesSeen == \A t \in Tab : []<>~(Served(t) /\ behind[t])

\* It is connected in the end, by itself or through another tab, and shows it.
TabsReconnect ==
    \A t \in Tab : []<>(Served(t) => leader.phase = "reading" /\ status[t] = "connected")
=============================================================================
