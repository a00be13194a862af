------------------------- MODULE LiveUpdatesProofs -------------------------
(***************************************************************************)
(* What holds of the hub for any number of tabs, streams and publishers,   *)
(* and any buffer: no channel is misused, and the registered clients are   *)
(* those with open channels.                                               *)
(*                                                                         *)
(* The argument is in Registered: a registered stream has open channels    *)
(* and a handler in its loop.  A slot is reused only when its handler has  *)
(* returned, so the second half keeps a late Unsubscribe of the old stream *)
(* away from the new one.                                                  *)
(***************************************************************************)
EXTENDS LiveUpdates, TLAPS

InLoop(k) == handler[k] \in {"streaming", "waiting", "writing"}

Typed ==
    /\ clients \subseteq Conn
    /\ channel \in [Conn -> {"none", "open", "closed"}]
    /\ handler \in [Conn -> {"none", "accepted", "flushed",
                             "streaming", "waiting", "writing"}]

Registered == \A k \in clients : channel[k] = "open" /\ InLoop(k)

Unregistered == \A k \in Conn : InLoop(k) /\ k \notin clients => channel[k] = "closed"

HubInv == Typed /\ NoPanic /\ Registered /\ Unregistered

\* Removing streams from the hub, by whichever goroutine, keeps the hub's
\* invariant as long as their handlers stay where they are or return.
LEMMA UnsubscribeKeeps ==
    ASSUME NEW ks \in SUBSET Conn, HubInv, Unsubscribe(ks),
           \/ handler' = handler
           \/ \E k \in ks : handler' = [handler EXCEPT ![k] = "none"]
    PROVE  HubInv'
<1>1. Typed' /\ NoPanic'
  BY DEF HubInv, Typed, NoPanic, Registered, Unsubscribe
<1>2. Registered'
  BY DEF HubInv, Typed, Registered, InLoop, Unsubscribe
<1>3. Unregistered'
  BY DEF HubInv, Typed, Registered, Unregistered, InLoop, Unsubscribe
<1> QED
  BY <1>1, <1>2, <1>3 DEF HubInv

\* Every step of a publisher, a handler, a tab or the environment keeps the
\* hub's invariant.
LEMMA HubStep == HubInv /\ (\A p \in Publisher : publisher[p].slow \subseteq Conn)
                   /\ [Next]_vars => HubInv'
<1> SUFFICES ASSUME HubInv, \A p \in Publisher : publisher[p].slow \subseteq Conn, [Next]_vars
             PROVE  HubInv'
  OBVIOUS
<1> USE DEF HubInv, Typed, NoPanic, Registered, Unregistered, InLoop
<1>1. CASE UNCHANGED <<clients, channel, handler, panic>>
  BY <1>1
<1>2. ASSUME NEW p \in Publisher, CommitChange(p) \/ PublisherStep(p) PROVE HubInv'
  <2>1. CASE Publish(p)
    BY <2>1 DEF Publish, streamVars
  <2>2. CASE DropSlowClient(p)
    <3>1. PICK k \in publisher[p].slow : Unsubscribe({k})
      BY <2>2 DEF DropSlowClient
    <3> QED
      BY <2>2, <3>1, UnsubscribeKeeps DEF DropSlowClient, streamVars
  <2> QED
    BY <1>1, <1>2, <2>1, <2>2
       DEF CommitChange, PublisherStep, PublishReturns, hubVars, streamVars
<1>3. ASSUME NEW k \in Conn, HandlerStep(k) \/ RequestFails(k) PROVE HubInv'
  <2>1. ASSUME Return(k) PROVE HubInv'
    BY <2>1, UnsubscribeKeeps DEF Return
  <2>2. CASE FlushHeaders(k) \/ RequestFails(k)
    BY <2>2 DEF FlushHeaders, RequestFails, hubVars
  <2>3. CASE Subscribe(k)
    BY <2>3 DEF Subscribe
  <2>4. CASE CheckDone(k)
    BY <2>1, <2>4 DEF CheckDone, hubVars
  <2>5. CASE TakeFrame(k) \/ WriteFrame(k)
    BY <2>5 DEF TakeFrame, WriteFrame, hubVars
  <2> QED
    BY <1>3, <2>1, <2>2, <2>3, <2>4, <2>5 DEF HandlerStep, SeeDone, SeeRequestDone
<1>4. ASSUME NEW t \in Tab,
             TabStep(t) \/ Refetch(t) \/ ConnectionLost(t) \/ StopLeadership(t)
      PROVE  HubInv'
  <2>1. CASE Connect(t)
    <3>1. PICK k \in Conn : /\ handler[k] = "none"
                            /\ handler' = [handler EXCEPT ![k] = "accepted"]
                            /\ channel' = [channel EXCEPT ![k] = "none"]
                            /\ clients' = clients /\ panic' = panic
      BY <2>1 DEF Connect, InUse
    <3> QED
      BY <3>1
  <2>2. CASE ~Connect(t)
    BY <1>1, <1>4, <2>2 DEF TabStep, Connected, ReceiveFrame, StreamEnds,
       StartLeadership, Refetch, ConnectionLost, StopLeadership, hubVars, streamVars
  <2> QED
    BY <2>1, <2>2
<1>5. CASE Close
  BY <1>5, UnsubscribeKeeps DEF Close, streamVars
<1>6. CASE Restart
  BY <1>6 DEF Restart
<1>7. CASE UNCHANGED vars
  BY <1>1, <1>7 DEF vars, hubVars, streamVars
<1> QED
  BY <1>2, <1>3, <1>4, <1>5, <1>6, <1>7 DEF Next

\* What a publisher is about to drop are streams.
Dropping ==
    /\ publisher \in [Publisher -> [phase : {"idle", "committed", "dropping"},
                                    at : Int, slow : SUBSET Conn]]
    /\ version \in Int

\* No step gives a publisher anything else to drop.
LEMMA DroppingStep == Dropping /\ clients \subseteq Conn /\ [Next]_vars => Dropping'
<1> SUFFICES ASSUME Dropping, clients \subseteq Conn, [Next]_vars PROVE Dropping'
  OBVIOUS
<1> USE DEF Dropping
<1>1. CASE UNCHANGED <<version, publisher>>
  BY <1>1
<1>2. ASSUME NEW p \in Publisher, CommitChange(p) PROVE Dropping'
  BY <1>2 DEF CommitChange
<1>3. ASSUME NEW p \in Publisher, Publish(p) PROVE Dropping'
  BY <1>3 DEF Publish, SlowClients
<1>4. ASSUME NEW p \in Publisher, DropSlowClient(p) PROVE Dropping'
  <2>1. PICK k \in publisher[p].slow :
          publisher' = [publisher EXCEPT ![p].slow = @ \ {k}]
    BY <1>4 DEF DropSlowClient
  <2>2. publisher[p].slow \ {k} \in SUBSET Conn
    OBVIOUS
  <2> QED
    BY <1>4, <2>1, <2>2 DEF DropSlowClient
<1>5. ASSUME NEW p \in Publisher, PublishReturns(p) PROVE Dropping'
  BY <1>5 DEF PublishReturns
<1>6. ASSUME NEW k \in Conn, HandlerStep(k) \/ RequestFails(k) PROVE Dropping'
  BY <1>1, <1>6 DEF HandlerStep, FlushHeaders, Subscribe, CheckDone, TakeFrame, WriteFrame,
     SeeDone, SeeRequestDone, Return, RequestFails
<1>7. ASSUME NEW t \in Tab,
             TabStep(t) \/ Refetch(t) \/ ConnectionLost(t) \/ StopLeadership(t)
      PROVE  Dropping'
  BY <1>1, <1>7 DEF TabStep, Connect, Connected, ReceiveFrame, StreamEnds, StartLeadership,
     Refetch, ConnectionLost, StopLeadership
<1>8. CASE Close
  BY <1>1, <1>8 DEF Close
<1>9. CASE Restart
  BY <1>9 DEF Restart
<1>10. CASE UNCHANGED vars
  BY <1>1, <1>10 DEF vars
<1> QED
  BY <1>2, <1>3, <1>4, <1>5, <1>6, <1>7, <1>8, <1>9, <1>10 DEF Next, PublisherStep

\* No goroutine ever closes a channel of SSEHub twice or sends to one that is
\* closed, and the clients of the hub are exactly the streams in their loop
\* whose channels are open, whoever unsubscribes them and in whatever order.
THEOREM HubIsSound == Spec => [](NoPanic /\ ClientsAreOpen)
<1>1. Init => HubInv /\ Dropping
  BY DEF Init, HubInv, Typed, NoPanic, Registered, Unregistered, InLoop, Dropping
<1>2. HubInv /\ Dropping /\ [Next]_vars => (HubInv /\ Dropping)'
  <2>1. Dropping => \A p \in Publisher : publisher[p].slow \subseteq Conn
    BY DEF Dropping
  <2>2. HubInv => clients \subseteq Conn
    BY DEF HubInv, Typed
  <2> QED
    BY <2>1, <2>2, HubStep, DroppingStep
<1>3. HubInv => NoPanic /\ ClientsAreOpen
  BY DEF HubInv, Registered, Unregistered, InLoop, ClientsAreOpen
<1> QED
  BY <1>1, <1>2, <1>3, PTL DEF Spec

-----------------------------------------------------------------------------
(* Bounds.                                                                 *)

Wire == [headers : BOOLEAN, frames : 0..WireSize]

\* What is on its way never exceeds a buffer or a connection.
WithinBounds ==
    /\ version \in 0..MaxVersion
    /\ buffer \in [Conn -> 0..BufferSize]
    /\ wire \in [Conn -> Wire]

\* Every step keeps them there: publish drops what a full buffer cannot take.
LEMMA BoundsStep == WithinBounds /\ [Next]_vars => WithinBounds'
<1> SUFFICES ASSUME WithinBounds, [Next]_vars PROVE WithinBounds'
  OBVIOUS
<1> USE SizesArePositive DEF WithinBounds, Wire
<1>1. CASE UNCHANGED <<version, buffer, wire>>
  BY <1>1
<1>2. ASSUME NEW p \in Publisher, CommitChange(p) PROVE WithinBounds'
  BY <1>2 DEF CommitChange, hubVars, streamVars
<1>3. ASSUME NEW p \in Publisher, Publish(p) PROVE WithinBounds'
  <2>1. /\ version' = version /\ wire' = wire
        /\ buffer' = [k \in Conn |-> IF k \in clients \ SlowClients THEN buffer[k] + 1
                                                                    ELSE buffer[k]]
    BY <1>3 DEF Publish, streamVars
  <2>2. ASSUME NEW k \in Conn, k \in clients \ SlowClients PROVE buffer[k] + 1 \in 0..BufferSize
    <3>1. buffer[k] \in 0..BufferSize /\ buffer[k] # BufferSize
      BY <2>2 DEF SlowClients
    <3> QED
      BY <3>1
  <2> QED
    BY <2>1, <2>2
<1>4. ASSUME NEW p \in Publisher, DropSlowClient(p) \/ PublishReturns(p) PROVE WithinBounds'
  BY <1>1, <1>4 DEF DropSlowClient, PublishReturns, hubVars, streamVars
<1>5. ASSUME NEW k \in Conn, HandlerStep(k) \/ RequestFails(k) PROVE WithinBounds'
  <2>1. CASE FlushHeaders(k)
    BY <2>1 DEF FlushHeaders, hubVars
  <2>2. CASE Subscribe(k)
    BY <2>2 DEF Subscribe
  <2>3. CASE TakeFrame(k)
    BY <2>3 DEF TakeFrame
  <2>4. CASE WriteFrame(k)
    BY <2>4 DEF WriteFrame, hubVars
  <2>5. CASE CheckDone(k) \/ SeeDone(k) \/ SeeRequestDone(k) \/ RequestFails(k)
    BY <1>1, <2>5 DEF CheckDone, SeeDone, SeeRequestDone, RequestFails, Return, hubVars
  <2> QED
    BY <1>5, <2>1, <2>2, <2>3, <2>4, <2>5 DEF HandlerStep
<1>6. ASSUME NEW t \in Tab,
             TabStep(t) \/ Refetch(t) \/ ConnectionLost(t) \/ StopLeadership(t)
      PROVE  WithinBounds'
  <2>1. CASE Connect(t)
    BY <2>1 DEF Connect
  <2>2. CASE ReceiveFrame(t)
    <3>1. /\ version' = version /\ buffer' = buffer /\ wire[tab[t].conn].frames > 0
          /\ wire' = [wire EXCEPT ![tab[t].conn].frames = @ - 1]
      BY <2>2 DEF ReceiveFrame, hubVars
    <3>2. CASE tab[t].conn \in Conn
      <4>1. wire[tab[t].conn] \in Wire /\ wire[tab[t].conn].frames - 1 \in 0..WireSize
        BY <3>1, <3>2
      <4>2. [wire[tab[t].conn] EXCEPT !.frames = @ - 1] \in Wire
        BY <4>1
      <4> QED
        BY <3>1, <4>2
    <3>3. CASE tab[t].conn \notin Conn
      <4>1. wire' = wire
        BY <3>1, <3>3
      <4> QED
        BY <3>1, <4>1
    <3> QED
      BY <3>2, <3>3
  <2>3. CASE ~Connect(t) /\ ~ReceiveFrame(t)
    BY <1>1, <1>6, <2>3 DEF TabStep, Connected, StreamEnds, StartLeadership, Refetch,
       ConnectionLost, StopLeadership, hubVars, streamVars
  <2> QED
    BY <2>1, <2>2, <2>3
<1>7. CASE Close
  BY <1>1, <1>7 DEF Close, streamVars
<1>8. CASE Restart
  BY <1>8 DEF Restart
<1>9. CASE UNCHANGED vars
  BY <1>1, <1>9 DEF vars, hubVars, streamVars
<1> QED
  BY <1>2, <1>3, <1>4, <1>5, <1>6, <1>7, <1>8, <1>9 DEF Next, PublisherStep

\* No publication overfills the channel of a slow client, and every variable
\* of the hub keeps its type.
THEOREM LiveTyped == Spec => []LiveTypeOK
<1>1. Init => HubInv /\ Dropping /\ WithinBounds
  BY SizesArePositive DEF Init, HubInv, Typed, NoPanic, Registered, Unregistered, InLoop,
     Dropping, WithinBounds, Wire
<1>2. HubInv /\ Dropping /\ WithinBounds /\ [Next]_vars => (HubInv /\ Dropping /\ WithinBounds)'
  <2>1. Dropping => \A p \in Publisher : publisher[p].slow \subseteq Conn
    BY DEF Dropping
  <2>2. HubInv => clients \subseteq Conn
    BY DEF HubInv, Typed
  <2> QED
    BY <2>1, <2>2, HubStep, DroppingStep, BoundsStep
<1>3. HubInv /\ WithinBounds => LiveTypeOK
  BY DEF HubInv, Typed, WithinBounds, Wire, LiveTypeOK
<1> QED
  BY <1>1, <1>2, <1>3, PTL DEF Spec
=============================================================================
