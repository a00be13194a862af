---------------------------- MODULE RateLimiter ----------------------------
(***************************************************************************)
(* The in-memory sliding-window limiter of internal/ratelimit.  Every      *)
(* operation reads the clock first and takes the mutex afterwards, so an   *)
(* operation is two steps: Stamp, and the critical section named after it. *)
(* In between others may enter, and with a later time.                     *)
(*                                                                         *)
(* An id is a scope with a key.  Ids whose scope has no rule touch nothing *)
(* and are left out.  Time is counted in ticks (the clock's nanoseconds),  *)
(* and the shares of a window are exact where the code rounds floats.      *)
(***************************************************************************)
EXTENDS Integers, FiniteSets, FiniteSetsExt

CONSTANTS
    Id,             \* the keys that are counted
    Limit,          \* Limit[i]: units allowed in a window
    Window,         \* Window[i]: its length in ticks
    Second,         \* ticks in a second
    Capacity,       \* entries the limiter keeps
    EvictionSample, \* entries inspected for eviction in one call
    Caller,         \* goroutines that use the limiter
    Cost,           \* units a request may ask for
    MaxTime,        \* bound of the clock
    MaxCount        \* bound of what a key may pile up where nothing is refused

ASSUME RulesArePositive ==
    /\ Limit \in [Id -> Nat \ {0}]
    /\ Window \in [Id -> Nat \ {0}]
    /\ Second \in Nat \ {0}
    /\ Cost \subseteq Nat \ {0}
    /\ Capacity \in Nat /\ MaxTime \in Nat

VARIABLES
    now,        \* the clock
    entries,    \* entries[i]: the entry of i, or NoEntry
    call        \* call[c]: what caller c is doing

\* What the properties compare the entries with; no operation reads them.
VARIABLES
    net,        \* net[i][w]: units admitted in window w and not refunded
    latest,     \* the latest stamp that has entered the mutex
    disturbed   \* <<i, w, cause>>: what upset the count of i in window w

limiterVars == <<now, entries, call>>
vars == <<now, entries, call, net, latest, disturbed>>

-----------------------------------------------------------------------------
(* Entries.                                                                *)

NoEntry == [windowStart |-> -1]

\* now.Truncate(rule.Window)
Truncate(i, t) == t - (t % Window[i])

Fresh(i, t) == [windowStart |-> Truncate(i, t), current |-> 0, previous |-> 0]

roll(i, e, t) ==
    CASE Truncate(i, t) = e.windowStart -> e
      [] Truncate(i, t) = e.windowStart + Window[i] ->
           [windowStart |-> Truncate(i, t), current |-> 0, previous |-> e.current]
      [] OTHER -> Fresh(i, t)

\* The share of the previous window that still overlaps, truncated.
estimate(i, e, t) ==
    e.current + (e.previous * Max({Window[i] - (t - e.windowStart), 0})) \div Window[i]

Admits(i, e, t, cost) == estimate(i, e, t) + cost <= Limit[i]

\* How far into a window total has decayed below allowance, rounded up.
decayTime(window, total, allowance) ==
    IF allowance >= total THEN 0
    ELSE (window * (total - allowance) + total - 1) \div total

\* Mutant: the next window is taken to admit everything at once.
readyAtBoundary(i, e, t, cost) ==
    LET budget == Limit[i] - cost
    IN CASE e.current <= budget /\ e.previous > 0 ->
              e.windowStart + decayTime(Window[i], e.previous, budget - e.current + 1)
         [] e.current <= budget /\ e.previous = 0 -> t
         [] OTHER -> e.windowStart + Window[i]

\* When a request that is refused at t would be admitted.
readyTime(i, e, t, cost) ==
    LET budget == Limit[i] - cost
    IN CASE e.current <= budget /\ e.previous > 0 ->
              e.windowStart + decayTime(Window[i], e.previous, budget - e.current + 1)
         [] e.current <= budget /\ e.previous = 0 -> t
         [] OTHER ->
              e.windowStart + Window[i] + decayTime(Window[i], e.current, budget + 1)

\* Mutant: a second is added twice.
retryAfterPadded(i, e, t, cost) ==
    IF cost > Limit[i] THEN Window[i]
    ELSE (Max({readyTime(i, e, t, cost) - t, 0}) \div Second) * Second + 2 * Second

\* The delay in whole seconds, a second at least.
retryAfter(i, e, t, cost) ==
    IF cost > Limit[i] THEN Window[i]
    ELSE (Max({readyTime(i, e, t, cost) - t, 0}) \div Second) * Second + Second

-----------------------------------------------------------------------------
(* The table.                                                              *)

Tracked == {i \in Id : entries[i] # NoEntry}

\* What an operation stamped t sees of i: lookup, or the state of a new key.
Seen(i, t) == IF i \in Tracked THEN roll(i, entries[i], t) ELSE Fresh(i, t)

\* Mutant: the sample is evicted whether or not it has expired.
ExpiredAlways(i, t) == TRUE

Expired(i, t) == t - entries[i].windowStart >= 2 * Window[i]

\* The tables makeRoom may leave: at capacity, a random sample is rid of its
\* expired entries.
Swept(t) ==
    IF Cardinality(Tracked) < Capacity THEN {entries}
    ELSE {[i \in Id |-> IF i \in sample /\ Expired(i, t) THEN NoEntry ELSE entries[i]] :
            sample \in kSubset(Min({EvictionSample, Cardinality(Tracked)}), Tracked)}

HasRoom(table) == Cardinality({i \in Id : table[i] # NoEntry}) < Capacity

\* Mutant: a new key is tracked although nothing was freed.
recordAlways(i, t, cost) ==
    IF i \in Tracked
    THEN entries' = [entries EXCEPT ![i] = [Seen(i, t) EXCEPT !.current = @ + cost]]
    ELSE \E table \in Swept(t) :
           entries' = [table EXCEPT ![i] = [Fresh(i, t) EXCEPT !.current = cost]]

\* record: a key without room is not counted.
record(i, t, cost) ==
    IF i \in Tracked
    THEN entries' = [entries EXCEPT ![i] = [Seen(i, t) EXCEPT !.current = @ + cost]]
    ELSE \E table \in Swept(t) :
           entries' = IF HasRoom(table)
                        THEN [table EXCEPT ![i] = [Fresh(i, t) EXCEPT !.current = cost]]
                        ELSE table

\* lookup rolls the entry it finds, whatever the operation then decides.
rollOnly(i, t) ==
    entries' = [entries EXCEPT ![i] = IF i \in Tracked THEN Seen(i, t) ELSE NoEntry]

-----------------------------------------------------------------------------
(* Operations: the clock is read, then the mutex is taken.                 *)

Idle == [op |-> "idle"]

Stamp(c, op, i, cost) ==
    /\ call[c] = Idle
    /\ Max({Seen(i, now).current, net[i][now \div Window[i]]}) <= MaxCount
    /\ call' = [call EXCEPT ![c] = [op |-> op, id |-> i, cost |-> cost, at |-> now]]
    /\ UNCHANGED <<now, entries, net, latest, disturbed>>

WindowOf(i, t) == t \div Window[i]

\* The bookkeeping of every critical section: whether it entered out of
\* order over a window boundary, and other causes met on the way.
Observe(i, t, causes) ==
    /\ latest' = Max({latest, t})
    /\ disturbed' = disturbed \cup
         {<<i, WindowOf(i, t), cause>> : cause \in causes} \cup
         {<<i, w, "reordered">> : w \in
            {w \in WindowOf(i, t)..WindowOf(i, latest) : t < latest
               /\ WindowOf(i, t) # WindowOf(i, latest)}}

\* Consume, when the request fits.  The caller may give the units back.
ConsumeAdmitted(c) ==
    LET q == call[c]
    IN /\ q.op = "consume"
       /\ Admits(q.id, Seen(q.id, q.at), q.at, q.cost)
       /\ record(q.id, q.at, q.cost)
       /\ net' = [net EXCEPT ![q.id][WindowOf(q.id, q.at)] = @ + q.cost]
       /\ Observe(q.id, q.at, IF entries'[q.id] = NoEntry THEN {"failedOpen"} ELSE {})
       /\ call' = [call EXCEPT ![c] = [q EXCEPT !.op = "holding"]]
       /\ UNCHANGED now

\* Consume that is refused, and Allowed, which never charges.
DecideOnly(c) ==
    LET q == call[c]
    IN /\ \/ q.op = "allowed"
          \/ q.op = "consume" /\ ~Admits(q.id, Seen(q.id, q.at), q.at, q.cost)
       /\ rollOnly(q.id, q.at)
       /\ Observe(q.id, q.at, {})
       /\ call' = [call EXCEPT ![c] = Idle]
       /\ UNCHANGED <<now, net>>

Hit(c) ==
    LET q == call[c]
    IN /\ q.op = "hit"
       /\ record(q.id, q.at, q.cost)
       /\ Observe(q.id, q.at, {})
       /\ call' = [call EXCEPT ![c] = Idle]
       /\ UNCHANGED <<now, net>>

\* The units stay spent: a failed sign-in, or any other kind of request.
Keep(c) ==
    /\ call[c].op = "holding"
    /\ call' = [call EXCEPT ![c] = Idle]
    /\ UNCHANGED <<now, entries, net, latest, disturbed>>

\* The attempt succeeded and its units are to be given back.
StampRefund(c) ==
    /\ call[c].op = "holding"
    /\ call' = [call EXCEPT ![c] =
         [op |-> "refund", id |-> @.id, cost |-> @.cost, at |-> now, spent |-> @.at]]
    /\ UNCHANGED <<now, entries, net, latest, disturbed>>

\* Mutant: the count may fall below zero.
RefundBelowZero(c) ==
    LET q == call[c]
        e == Seen(q.id, q.at)
    IN /\ q.op = "refund"
       /\ entries' = [entries EXCEPT ![q.id] =
            IF q.id \in Tracked THEN [e EXCEPT !.current = @ - q.cost] ELSE NoEntry]
       /\ net' = [net EXCEPT ![q.id][WindowOf(q.id, q.spent)] = @ - q.cost]
       /\ Observe(q.id, q.at, {"lateRefund"})
       /\ call' = [call EXCEPT ![c] = Idle]
       /\ UNCHANGED now

\* Mutant: the reservation is not cleared and is given back once more.
RefundTwice(c) ==
    LET q == call[c]
        e == Seen(q.id, q.at)
    IN /\ q.op = "refund"
       /\ entries' = [entries EXCEPT ![q.id] =
            IF q.id \in Tracked THEN [e EXCEPT !.current = Max({@ - 2 * q.cost, 0})]
                                ELSE NoEntry]
       /\ net' = [net EXCEPT ![q.id][WindowOf(q.id, q.spent)] = @ - q.cost]
       /\ Observe(q.id, q.at, IF WindowOf(q.id, q.at) # WindowOf(q.id, q.spent)
                                THEN {"lateRefund"} ELSE {})
       /\ call' = [call EXCEPT ![c] = Idle]
       /\ UNCHANGED now

Refund(c) ==
    LET q == call[c]
        e == Seen(q.id, q.at)
    IN /\ q.op = "refund"
       /\ entries' = [entries EXCEPT ![q.id] =
            IF q.id \in Tracked THEN [e EXCEPT !.current = Max({@ - q.cost, 0})]
                                ELSE NoEntry]
       /\ net' = [net EXCEPT ![q.id][WindowOf(q.id, q.spent)] = @ - q.cost]
       /\ Observe(q.id, q.at, IF WindowOf(q.id, q.at) # WindowOf(q.id, q.spent)
                                THEN {"lateRefund"} ELSE {})
       /\ call' = [call EXCEPT ![c] = Idle]
       /\ UNCHANGED now

Tick ==
    /\ now < MaxTime
    /\ now' = now + 1
    /\ UNCHANGED <<entries, call, net, latest, disturbed>>

-----------------------------------------------------------------------------
(* The limiter.                                                            *)

Windows(i) == 0..WindowOf(i, MaxTime)

Init ==
    /\ now = 0
    /\ entries = [i \in Id |-> NoEntry]
    /\ call = [c \in Caller |-> Idle]
    /\ net = [i \in Id |-> [w \in Windows(i) |-> 0]]
    /\ latest = 0
    /\ disturbed = {}

Next ==
    \/ Tick
    \/ \E c \in Caller :
         \/ \E op \in {"consume", "allowed", "hit"}, i \in Id, cost \in Cost :
              Stamp(c, op, i, cost)
         \/ ConsumeAdmitted(c) \/ DecideOnly(c) \/ Hit(c)
         \/ Keep(c) \/ StampRefund(c) \/ Refund(c)

Spec == Init /\ [][Next]_vars

-----------------------------------------------------------------------------
(* Properties.                                                             *)

\* Entries are aligned to their window and counts are never negative.
LimiterTypeOK ==
    \A i \in Tracked :
        /\ entries[i].windowStart = Truncate(i, entries[i].windowStart)
        /\ entries[i].current \in Nat
        /\ entries[i].previous \in Nat

\* The table never grows beyond its capacity, however many keys are seen.
TableBounded == Cardinality(Tracked) <= Capacity

\* What upsets the count of a window: the key found no room in the table,
\* operations passed the mutex in another order than they read the clock and
\* with a window boundary between them, or units of another window came back.
Excused(i, w) ==
    \E cause \in {"failedOpen", "reordered", "lateRefund"} : <<i, w, cause>> \in disturbed

\* Consume lets no window admit and keep more than Limit units, refunds,
\* evictions and concurrent callers included, except a window in which one
\* of the three causes was met.
BudgetHolds ==
    \A i \in Id : \A w \in Windows(i) : net[i][w] > Limit[i] => Excused(i, w)

\* Whether i admits a request d ticks from now, if nobody else comes.
AdmittedAfter(i, e, cost, d) == Admits(i, roll(i, e, now + d), now + d, cost)

Refused(i, cost) == cost <= Limit[i] /\ ~Admits(i, Seen(i, now), now, cost)

\* A caller that is refused, waits for the advertised delay and meets nobody
\* else's requests is admitted: decayTime inverts the truncated estimate on
\* the safe side, over the boundary of a window as well.
RetryIsEnough ==
    \A i \in Id, cost \in Cost : Refused(i, cost) =>
        AdmittedAfter(i, Seen(i, now), cost, retryAfter(i, Seen(i, now), now, cost))

\* The delay is not longer than it has to be: any wait that is shorter by
\* more than a second is refused.
RetryIsTight ==
    \A i \in Id, cost \in Cost : Refused(i, cost) =>
        \A d \in 0..(retryAfter(i, Seen(i, now), now, cost) - Second - 1) :
            ~AdmittedAfter(i, Seen(i, now), cost, d)
=============================================================================
