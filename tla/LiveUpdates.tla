---------------------------- MODULE LiveUpdates ----------------------------
(***************************************************************************)
(* Live refresh: the server's SSEHub, one handler goroutine per stream     *)
(* (handleSSE), the request goroutines that publish a change after they    *)
(* have committed it, and the browser's connection loop, which invalidates *)
(* its caches on every event and on every reconnection.                    *)
(*                                                                         *)
(* All changes are alike: an event carries no data and only says that      *)
(* something changed.  A change is a version number, and what a tab shows  *)
(* is the version its last refetch has read.  A tab here has a connection  *)
(* of its own; tabs that share one through a lock and a BroadcastChannel   *)
(* are a single tab.                                                       *)
(***************************************************************************)
EXTENDS Integers, FiniteSets

CONSTANTS
    Tab,            \* browser tabs
    Conn,           \* slots for streams that exist at the same time
    Publisher,      \* request goroutines
    BufferSize,     \* sseClientEventBufferSize
    WireSize,       \* frames that fit between a handler and its browser
    MaxVersion,     \* bound of the number of changes
    MaxFaults       \* bound of failures, and of times a page is hidden

ASSUME SizesArePositive ==
    BufferSize \in Nat \ {0} /\ WireSize \in Nat \ {0} /\ MaxVersion \in Nat

VARIABLES
    version,    \* changes that are committed
    publisher,  \* publisher[p]: where p is in publish
    closed,     \* hub.closed
    clients,    \* hub.clients
    channel,    \* channel[k]: the events and done channels of stream k
    buffer,     \* buffer[k]: frames in the events channel
    handler,    \* handler[k]: where the handler of stream k is
    wire,       \* wire[k]: what has been written and not been read
    peer,       \* peer[k]: whether the browser still holds stream k
    tab,        \* tab[t]: the connection loop and the caches of t
    faults,     \* failures so far
    panic       \* a channel was closed twice, or sent to when closed

\* Read by the properties only.
VARIABLE owed   \* owed[t]: the latest change published to a stream t follows

hubVars == <<closed, clients, channel, buffer, panic>>
streamVars == <<handler, wire, peer>>
vars == <<version, publisher, hubVars, streamVars, tab, faults, owed>>

-----------------------------------------------------------------------------
(* The hub.                                                                *)

NoConn == "NONE"

\* Mutant: the channels are closed whether or not the client is registered.
UnsubscribeAlways(ks) ==
    /\ clients' = clients \ ks
    /\ channel' = [k \in Conn |-> IF k \in ks THEN "closed" ELSE channel[k]]
    /\ panic' = (panic \/ \E k \in ks : channel[k] = "closed")

\* Unsubscribe under the write lock: registered clients lose their place and
\* both channels.
Unsubscribe(ks) ==
    /\ clients' = clients \ ks
    /\ channel' = [k \in Conn |-> IF k \in ks \cap clients THEN "closed" ELSE channel[k]]
    /\ panic' = (panic \/ \E k \in ks \cap clients : channel[k] = "closed")

\* A mutation commits; its handler publishes later.
CommitChange(p) ==
    /\ publisher[p].phase = "idle"
    /\ version < MaxVersion
    /\ version' = version + 1
    /\ publisher' = [publisher EXCEPT ![p] =
                       [phase |-> "committed", at |-> version + 1, slow |-> {}]]
    /\ UNCHANGED <<hubVars, streamVars, tab, faults, owed>>

\* Mutant: a full buffer is not noticed.
SlowClientsOverfull == {k \in clients : buffer[k] > BufferSize}

SlowClients == {k \in clients : buffer[k] = BufferSize}

\* The tabs whose streams a publication finds in the hub.
Following(t) == tab[t].once /\ tab[t].conn \in clients /\ tab[t].status = "connected"

\* publish under the read lock: a frame for every client with room.
Publish(p) ==
    /\ publisher[p].phase = "committed"
    /\ buffer' = [k \in Conn |-> IF k \in clients \ SlowClients THEN buffer[k] + 1
                                                                ELSE buffer[k]]
    /\ panic' = (panic \/ \E k \in clients : channel[k] = "closed")
    /\ publisher' = [publisher EXCEPT ![p] =
                       [@ EXCEPT !.phase = "dropping", !.slow = SlowClients]]
    /\ owed' = [t \in Tab |-> IF Following(t) /\ publisher[p].at > owed[t]
                                THEN publisher[p].at ELSE owed[t]]
    /\ UNCHANGED <<version, closed, clients, channel, streamVars, tab, faults>>

\* Afterwards, and one by one, the slow clients are unsubscribed.
DropSlowClient(p) ==
    /\ publisher[p].phase = "dropping"
    /\ \E k \in publisher[p].slow :
         /\ Unsubscribe({k})
         /\ publisher' = [publisher EXCEPT ![p].slow = @ \ {k}]
    /\ UNCHANGED <<version, closed, buffer, streamVars, tab, faults, owed>>

PublishReturns(p) ==
    /\ publisher[p].phase = "dropping" /\ publisher[p].slow = {}
    /\ publisher' = [publisher EXCEPT ![p] = [phase |-> "idle", at |-> 0, slow |-> {}]]
    /\ UNCHANGED <<version, hubVars, streamVars, tab, faults, owed>>

\* Mutant: streams that are open stay open.
CloseOnlyMarks ==
    /\ ~closed
    /\ closed' = TRUE
    /\ UNCHANGED <<clients, channel, panic, version, publisher, buffer,
                   streamVars, tab, faults, owed>>

\* Close, when the server shuts down.
Close ==
    /\ ~closed
    /\ closed' = TRUE
    /\ Unsubscribe(clients)
    /\ UNCHANGED <<version, publisher, buffer, streamVars, tab, faults, owed>>

-----------------------------------------------------------------------------
(* handleSSE.                                                              *)

\* Authentication has succeeded and the headers are flushed ...
FlushHeaders(k) ==
    /\ handler[k] = "accepted"
    /\ handler' = [handler EXCEPT ![k] = "flushed"]
    /\ wire' = [wire EXCEPT ![k].headers = TRUE]
    /\ UNCHANGED <<version, publisher, hubVars, peer, tab, faults, owed>>

\* ... before the stream is a client of the hub.  A hub that is closed hands
\* out channels that are closed.
Subscribe(k) ==
    /\ handler[k] = "flushed"
    /\ handler' = [handler EXCEPT ![k] = "streaming"]
    /\ buffer' = [buffer EXCEPT ![k] = 0]
    /\ channel' = [channel EXCEPT ![k] = IF closed THEN "closed" ELSE "open"]
    /\ clients' = IF closed THEN clients ELSE clients \cup {k}
    /\ UNCHANGED <<version, publisher, closed, panic, wire, peer, tab, faults, owed>>

\* The handler returns: the deferred Unsubscribe, and the response ends.
Return(k) ==
    /\ Unsubscribe({k})
    /\ handler' = [handler EXCEPT ![k] = "none"]
    /\ UNCHANGED <<version, publisher, closed, buffer, wire, peer, tab, faults, owed>>

\* The first select: done before buffered events.
CheckDone(k) ==
    /\ handler[k] = "streaming"
    /\ IF channel[k] = "closed"
       THEN Return(k)
       ELSE /\ handler' = [handler EXCEPT ![k] = "waiting"]
            /\ UNCHANGED <<version, publisher, hubVars, wire, peer, tab, faults, owed>>

\* The second select, a frame: also one left behind in a channel that is
\* closed.
TakeFrame(k) ==
    /\ handler[k] = "waiting" /\ buffer[k] > 0
    /\ buffer' = [buffer EXCEPT ![k] = @ - 1]
    /\ handler' = [handler EXCEPT ![k] = "writing"]
    /\ UNCHANGED <<version, publisher, closed, clients, channel, panic, wire, peer,
                   tab, faults, owed>>

\* The write blocks while the connection takes no more, and sees no done.
WriteFrame(k) ==
    /\ handler[k] = "writing" /\ wire[k].frames < WireSize
    /\ wire' = [wire EXCEPT ![k].frames = @ + 1]
    /\ handler' = [handler EXCEPT ![k] = "streaming"]
    /\ UNCHANGED <<version, publisher, hubVars, peer, tab, faults, owed>>

\* The second select, done: the hub has disconnected the stream.
SeeDone(k) == handler[k] = "waiting" /\ channel[k] = "closed" /\ Return(k)

\* The browser is gone: ctx.Done() in the select, an error of the write.
SeeRequestDone(k) == handler[k] \in {"waiting", "writing"} /\ ~peer[k] /\ Return(k)

-----------------------------------------------------------------------------
(* The connection loop of a tab.                                           *)

InUse(k) ==
    \/ handler[k] # "none"
    \/ \E t \in Tab : tab[t].conn = k
    \/ \E p \in Publisher : k \in publisher[p].slow

Connect(t) ==
    /\ tab[t].status = "disconnected"
    /\ \E k \in Conn :
         /\ ~InUse(k)
         /\ tab' = [tab EXCEPT ![t].status = "connecting", ![t].conn = k]
         /\ handler' = [handler EXCEPT ![k] = "accepted"]
         /\ wire' = [wire EXCEPT ![k] = [headers |-> FALSE, frames |-> 0]]
         /\ peer' = [peer EXCEPT ![k] = TRUE]
         /\ channel' = [channel EXCEPT ![k] = "none"]
         /\ buffer' = [buffer EXCEPT ![k] = 0]
    /\ UNCHANGED <<version, publisher, closed, clients, panic, faults, owed>>

\* Mutant: a reconnection does not invalidate anything.
ConnectedWithoutResync(t) ==
    /\ tab[t].status = "connecting" /\ wire[tab[t].conn].headers
    /\ tab' = [tab EXCEPT ![t].status = "connected", ![t].once = TRUE,
                          ![t].resynced = tab[t].once]
    /\ UNCHANGED <<version, publisher, hubVars, streamVars, faults, owed>>

\* The headers arrive.  The first connection trusts the page's own fetches,
\* every later one invalidates the caches.
Connected(t) ==
    /\ tab[t].status = "connecting" /\ wire[tab[t].conn].headers
    /\ tab' = [tab EXCEPT ![t].status = "connected", ![t].once = TRUE,
                          ![t].stale = @ \/ tab[t].once, ![t].resynced = tab[t].once]
    /\ UNCHANGED <<version, publisher, hubVars, streamVars, faults, owed>>

\* An event arrives and is handled.
ReceiveFrame(t) ==
    /\ tab[t].status = "connected" /\ wire[tab[t].conn].frames > 0
    /\ wire' = [wire EXCEPT ![tab[t].conn].frames = @ - 1]
    /\ tab' = [tab EXCEPT ![t].stale = TRUE]
    /\ UNCHANGED <<version, publisher, hubVars, handler, peer, faults, owed>>

\* React Query refetches what was invalidated.
Refetch(t) ==
    /\ tab[t].stale
    /\ tab' = [tab EXCEPT ![t].stale = FALSE, ![t].view = version]
    /\ UNCHANGED <<version, publisher, hubVars, streamVars, faults, owed>>

Disconnected(t, status) ==
    /\ peer' = [peer EXCEPT ![tab[t].conn] = FALSE]
    /\ tab' = [tab EXCEPT ![t].status = status, ![t].conn = NoConn,
                          ![t].resynced = FALSE]

\* The stream has ended and everything in it has been read; the loop waits
\* and tries again.
StreamEnds(t) ==
    /\ tab[t].status \in {"connecting", "connected"}
    /\ handler[tab[t].conn] = "none"
    /\ tab[t].status = "connecting" => ~wire[tab[t].conn].headers
    /\ wire[tab[t].conn].frames = 0
    /\ Disconnected(t, "disconnected")
    /\ UNCHANGED <<version, publisher, hubVars, handler, wire, faults, owed>>

-----------------------------------------------------------------------------
(* Failures, and pages that are hidden or offline for a while.             *)

Fault == faults < MaxFaults /\ faults' = faults + 1

\* The connection breaks; what was on its way is lost.
ConnectionLost(t) ==
    /\ Fault
    /\ tab[t].status \in {"connecting", "connected"}
    /\ Disconnected(t, "disconnected")
    /\ UNCHANGED <<version, publisher, hubVars, handler, wire, owed>>

\* The request is refused, or fails before its headers are sent.
RequestFails(k) ==
    /\ Fault
    /\ handler[k] = "accepted"
    /\ handler' = [handler EXCEPT ![k] = "none"]
    /\ UNCHANGED <<version, publisher, hubVars, wire, peer, tab, owed>>

\* stopLeadership aborts the stream of a page that is hidden or offline.
StopLeadership(t) ==
    /\ Fault
    /\ tab[t].status \in {"connecting", "connected"}
    /\ Disconnected(t, "stopped")
    /\ UNCHANGED <<version, publisher, hubVars, handler, wire, owed>>

\* reconcilePageState starts it again.
StartLeadership(t) ==
    /\ tab[t].status = "stopped"
    /\ tab' = [tab EXCEPT ![t].status = "disconnected"]
    /\ UNCHANGED <<version, publisher, hubVars, streamVars, faults, owed>>

\* The server process ends and is started again: goroutines and hub are new,
\* changes that were committed and not yet published stay unannounced.
Restart ==
    /\ Fault
    /\ publisher' = [p \in Publisher |-> [phase |-> "idle", at |-> 0, slow |-> {}]]
    /\ closed' = FALSE
    /\ clients' = {}
    /\ channel' = [k \in Conn |-> "none"]
    /\ buffer' = [k \in Conn |-> 0]
    /\ handler' = [k \in Conn |-> "none"]
    /\ UNCHANGED <<version, panic, wire, peer, tab, owed>>

-----------------------------------------------------------------------------
(* The system.                                                             *)

\* A page is loaded and has fetched what it shows.
Init ==
    /\ version = 0
    /\ publisher = [p \in Publisher |-> [phase |-> "idle", at |-> 0, slow |-> {}]]
    /\ closed = FALSE
    /\ clients = {}
    /\ channel = [k \in Conn |-> "none"]
    /\ buffer = [k \in Conn |-> 0]
    /\ handler = [k \in Conn |-> "none"]
    /\ wire = [k \in Conn |-> [headers |-> FALSE, frames |-> 0]]
    /\ peer = [k \in Conn |-> FALSE]
    /\ tab = [t \in Tab |-> [status |-> "disconnected", conn |-> NoConn, once |-> FALSE,
                             stale |-> FALSE, resynced |-> FALSE, view |-> 0]]
    /\ faults = 0
    /\ panic = FALSE
    /\ owed = [t \in Tab |-> 0]

PublisherStep(p) == Publish(p) \/ DropSlowClient(p) \/ PublishReturns(p)

HandlerStep(k) ==
    \/ FlushHeaders(k) \/ Subscribe(k) \/ CheckDone(k)
    \/ TakeFrame(k) \/ WriteFrame(k) \/ SeeDone(k) \/ SeeRequestDone(k)

TabStep(t) ==
    Connect(t) \/ Connected(t) \/ ReceiveFrame(t) \/ StreamEnds(t) \/ StartLeadership(t)

Next ==
    \/ \E p \in Publisher : CommitChange(p) \/ PublisherStep(p)
    \/ \E k \in Conn : HandlerStep(k) \/ RequestFails(k)
    \/ \E t \in Tab : TabStep(t) \/ Refetch(t) \/ ConnectionLost(t) \/ StopLeadership(t)
    \/ Close
    \/ Restart

\* Goroutines that can run do run, and a visible page runs its loop, retries
\* and refetches.  Changes, failures and shutdown need not happen.
Fairness ==
    /\ \A p \in Publisher : WF_vars(PublisherStep(p))
    /\ \A k \in Conn : WF_vars(HandlerStep(k))
    /\ \A t \in Tab : WF_vars(TabStep(t)) /\ WF_vars(Refetch(t))

Spec == Init /\ [][Next]_vars /\ Fairness

-----------------------------------------------------------------------------
(* Properties.                                                             *)

\* Buffers keep their bounds and every variable its type.
LiveTypeOK ==
    /\ version \in 0..MaxVersion
    /\ clients \subseteq Conn
    /\ buffer \in [Conn -> 0..BufferSize]
    /\ handler \in [Conn -> {"none", "accepted", "flushed",
                             "streaming", "waiting", "writing"}]
    /\ channel \in [Conn -> {"none", "open", "closed"}]
    /\ \A k \in Conn : wire[k].frames \in 0..WireSize

\* No goroutine closes a channel twice or sends to one that is closed, which
\* would end the process: publishers that drop the same slow client, the
\* handler's deferred Unsubscribe and Close may come in any order.
NoPanic == ~panic

\* A stream is a client of the hub exactly as long as its channels are open:
\* a handler that is no longer a client always finds out.
ClientsAreOpen ==
    \A k \in Conn : handler[k] \in {"streaming", "waiting", "writing"} =>
        (k \in clients <=> channel[k] = "open")

\* "Slow clients with a full buffer are disconnected so they can reconnect and
\* resynchronize instead of silently missing an event": a change published to
\* the stream of a connected tab is on its screen in the end, whether the
\* frame arrives, is dropped, or is lost with its connection; the hub must
\* stay open for it.
PublishedIsSeen ==
    \A t \in Tab : \A v \in 1..MaxVersion :
        owed[t] = v ~> (tab[t].view >= v \/ closed)

\* "Long-lived SSE requests do not finish on their own": once the hub is
\* closed every handler returns, the ones that subscribe after it included.
ShutdownDrains ==
    \A k \in Conn : (closed /\ handler[k] # "none") ~> (handler[k] = "none" \/ ~closed)

\* A tab that has resynchronized after a reconnection and has nothing left to
\* read or to fetch shows every change whose publication is over.
Settled(t) ==
    /\ tab[t].status = "connected" /\ tab[t].resynced /\ ~tab[t].stale
    /\ tab[t].conn \in clients
    /\ buffer[tab[t].conn] = 0 /\ wire[tab[t].conn].frames = 0
    /\ \A p \in Publisher : publisher[p].phase = "idle"

ResyncIsComplete == \A t \in Tab : Settled(t) => tab[t].view = version
=============================================================================
