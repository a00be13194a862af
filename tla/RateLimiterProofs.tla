------------------------- MODULE RateLimiterProofs -------------------------
(***************************************************************************)
(* Proofs about RateLimiter, for any keys, rules, costs, callers and       *)
(* bounds: the table keeps its capacity, no window admits more than its    *)
(* limit unless it is excused, and the delay a refused caller is told is   *)
(* enough and no more than a second too long.                              *)
(***************************************************************************)
EXTENDS RateLimiter, FiniteSetTheorems, TLAPS

-----------------------------------------------------------------------------
(* Arithmetic.                                                             *)

\* The quotient and the remainder are determined by the multiples around.
LEMMA DivIs ==
  ASSUME NEW a \in Nat, NEW b \in Nat \ {0}, NEW q \in Nat, NEW r \in Nat, r < b,
         a = b * q + r
  PROVE  a \div b = q /\ a % b = r
OBVIOUS

\* Division with remainder, from the definition.
LEMMA DivBounds ==
  ASSUME NEW a \in Nat, NEW b \in Nat \ {0}
  PROVE  /\ a \div b \in Nat /\ b * (a \div b) <= a /\ a < b * (a \div b) + b
         /\ a % b = a - b * (a \div b) /\ a % b \in Nat
<1> DEFINE q == a \div b
<1>1. q \in Nat
  OBVIOUS
<1>2. b * q <= a /\ a < b * (q + 1)
  OBVIOUS
<1> HIDE DEF q
<1>3. b * (q + 1) = b * q + b /\ b * q \in Nat
  BY <1>1
<1>4. a - b * q \in Nat /\ a - b * q < b /\ a = b * q + (a - b * q)
  BY <1>1, <1>2, <1>3
<1>5. a % b = a - b * q
  BY <1>1, <1>4, DivIs
<1> QED
  BY <1>1, <1>2, <1>3, <1>4, <1>5 DEF q

\* Multiplication by a natural number is monotone.
LEMMA MulMono ==
  ASSUME NEW a \in Int, NEW b \in Int, NEW c \in Nat, a <= b
  PROVE  c * a <= c * b
OBVIOUS

\* A quotient is below k exactly when the dividend is below k times.
LEMMA DivBelow ==
  ASSUME NEW a \in Nat, NEW b \in Nat \ {0}, NEW k \in Nat
  PROVE  a \div b < k <=> a < b * k
<1> DEFINE q == a \div b
<1>1. q \in Nat /\ b * q <= a /\ a < b * q + b
  BY DivBounds
<1> HIDE DEF q
<1>2. ASSUME q < k PROVE a < b * k
  <2>1. b * (q + 1) <= b * k
    BY <1>1, <1>2, MulMono
  <2>2. b * (q + 1) = b * q + b
    BY <1>1
  <2> QED
    BY <1>1, <2>1, <2>2
<1>3. ASSUME k <= q PROVE b * k <= a
  BY <1>1, <1>3, MulMono
<1> QED
  BY <1>1, <1>2, <1>3 DEF q

\* The rounded-up quotient of decayTime.
LEMMA CeilBounds ==
  ASSUME NEW x \in Nat, NEW p \in Nat \ {0}, NEW n \in Nat
  PROVE  /\ (x + p - 1) \div p \in Nat
         /\ n < (x + p - 1) \div p <=> p * n < x
<1> DEFINE a == x + p - 1
<1> DEFINE q == a \div p
<1>0. a \in Nat /\ a = x + p - 1
  OBVIOUS
<1> HIDE DEF a
<1>1. q \in Nat /\ p * q <= a /\ a < p * q + p
  BY <1>0, DivBounds
<1> HIDE DEF q
<1>2. ASSUME n < q PROVE p * n < x
  <2>1. p * (n + 1) <= p * q
    BY <1>1, <1>2, MulMono
  <2>2. p * (n + 1) = p * n + p
    OBVIOUS
  <2> QED
    BY <1>0, <1>1, <2>1, <2>2
<1>3. ASSUME q <= n PROVE x <= p * n
  <2>1. p * q <= p * n
    BY <1>1, <1>3, MulMono
  <2> QED
    BY <1>0, <1>1, <2>1
<1> QED
  BY <1>1, <1>2, <1>3 DEF q, a

\* The maximum of a pair.
LEMMA MaxOfTwo ==
  ASSUME NEW a \in Int, NEW b \in Int
  PROVE  Max({a, b}) = IF a >= b THEN a ELSE b
<1> DEFINE P(x) == x \in {a, b} /\ \A y \in {a, b} : x >= y
<1>1. \E x : P(x)
  <2>1. CASE a >= b
    <3>1. P(a)
      BY <2>1
    <3> QED
      BY <3>1
  <2>2. CASE b >= a
    <3>1. P(b)
      BY <2>2
    <3> QED
      BY <3>1
  <2> QED
    BY <2>1, <2>2
<1>2. Max({a, b}) = CHOOSE x \in {a, b} : \A y \in {a, b} : x >= y
  BY DEF Max
<1>3. P(Max({a, b}))
  BY <1>1, <1>2, Zenon
<1> QED
  BY <1>3

-----------------------------------------------------------------------------
(* Windows and entries.                                                    *)

Entry == [windowStart : Nat, current : Nat, previous : Nat]

\* An entry of key i: its window begins at a multiple of the window.
IsEntry(i, e) == e \in Entry /\ e.windowStart = Truncate(i, e.windowStart)

\* Truncation yields the start of the window that contains the time.
LEMMA TruncateFacts ==
  ASSUME NEW i \in Id, NEW t \in Nat
  PROVE  /\ Window[i] \in Nat \ {0} /\ Limit[i] \in Nat \ {0}
         /\ Truncate(i, t) \in Nat /\ Truncate(i, t) <= t /\ t < Truncate(i, t) + Window[i]
         /\ Truncate(i, t) = Window[i] * (t \div Window[i])
         /\ t \div Window[i] \in Nat
<1>1. Window[i] \in Nat \ {0} /\ Limit[i] \in Nat \ {0}
  BY RulesArePositive
<1>2. /\ t \div Window[i] \in Nat /\ Window[i] * (t \div Window[i]) <= t
      /\ t < Window[i] * (t \div Window[i]) + Window[i]
      /\ t % Window[i] = t - Window[i] * (t \div Window[i]) /\ t % Window[i] \in Nat
  BY <1>1, DivBounds
<1>3. Window[i] * (t \div Window[i]) \in Nat
  BY <1>1, <1>2
<1> DEFINE m == Window[i] * (t \div Window[i])
<1> HIDE DEF m
<1>4. m \in Nat /\ m <= t /\ t < m + Window[i] /\ t % Window[i] = t - m
  BY <1>2, <1>3 DEF m
<1>5. Truncate(i, t) = m
  BY <1>4 DEF Truncate
<1> QED
  BY <1>1, <1>2, <1>4, <1>5 DEF m

\* The window of a time is the aligned one that contains it.
LEMMA TruncateIs ==
  ASSUME NEW i \in Id, NEW t \in Nat, NEW q \in Nat,
         Window[i] * q <= t, t < Window[i] * q + Window[i]
  PROVE  Truncate(i, t) = Window[i] * q /\ t \div Window[i] = q
<1> DEFINE b == Window[i]
<1> DEFINE m == b * q
<1> DEFINE r == t - m
<1>1. b \in Nat \ {0} /\ m \in Nat /\ m <= t /\ t < m + b
  BY RulesArePositive
<1>2. r \in Nat /\ r < b /\ t = m + r /\ t - r = m
  <2> HIDE DEF m, b
  <2> QED
    BY <1>1
<1>3. t = b * q + r
  BY <1>2
<1> HIDE DEF b, r
<1>4. t \div b = q /\ t % b = r
  BY <1>1, <1>2, <1>3, DivIs
<1> QED
  BY <1>2, <1>4 DEF Truncate, b

\* The start of a window truncates to itself.
LEMMA TruncateAligned ==
  ASSUME NEW i \in Id, NEW t \in Nat
  PROVE  Truncate(i, Truncate(i, t)) = Truncate(i, t)
<1> DEFINE q == t \div Window[i]
<1>1. q \in Nat /\ Truncate(i, t) = Window[i] * q /\ Truncate(i, t) \in Nat
      /\ Window[i] \in Nat \ {0}
  BY TruncateFacts
<1> HIDE DEF q
<1> QED
  BY <1>1, TruncateIs

\* Where a time lies relative to an entry decides what roll does.
LEMMA RollFacts ==
  ASSUME NEW i \in Id, NEW t \in Nat, NEW e, IsEntry(i, e)
  PROVE  /\ e.windowStart <= t /\ t < e.windowStart + Window[i] => roll(i, e, t) = e
         /\ e.windowStart + Window[i] <= t /\ t < e.windowStart + Window[i] + Window[i] =>
              roll(i, e, t) = [windowStart |-> e.windowStart + Window[i], current |-> 0,
                               previous |-> e.current]
         /\ e.windowStart + Window[i] + Window[i] <= t => roll(i, e, t) = Fresh(i, t)
         /\ IsEntry(i, roll(i, e, t)) /\ roll(i, e, t).windowStart = Truncate(i, t)
<1> DEFINE s == e.windowStart
<1> DEFINE W == Window[i]
<1> DEFINE k == s \div W
<1>1. e \in Entry /\ s \in Nat /\ W \in Nat \ {0} /\ e.current \in Nat
  BY RulesArePositive DEF IsEntry, Entry
<1>2. k \in Nat /\ s = W * k
  BY <1>1, TruncateFacts DEF IsEntry
<1>3. Truncate(i, t) \in Nat /\ Truncate(i, t) <= t /\ t < Truncate(i, t) + W
      /\ Truncate(i, Truncate(i, t)) = Truncate(i, t)
  BY TruncateFacts, TruncateAligned
<1>4. W * (k + 1) = s + W
  <2> HIDE DEF k, W, s
  <2> QED
    BY <1>1, <1>2
<1>5. s <= t /\ t < s + W => Truncate(i, t) = s
  <2> HIDE DEF k, s
  <2> QED
    BY <1>1, <1>2, TruncateIs
<1>6. s + W <= t /\ t < s + W + W => Truncate(i, t) = s + W
  <2>1. k + 1 \in Nat
    BY <1>2
  <2>2. s + W <= t /\ t < s + W + W => W * (k + 1) <= t /\ t < W * (k + 1) + W
    BY <1>4
  <2> HIDE DEF k, s
  <2> QED
    BY <1>4, <2>1, <2>2, TruncateIs
<1>7. s + W + W <= t => Truncate(i, t) # s /\ Truncate(i, t) # s + W
  <2> HIDE DEF k, s, W
  <2> QED
    BY <1>1, <1>3
<1>8. /\ Truncate(i, t) = s => roll(i, e, t) = e
      /\ Truncate(i, t) # s /\ Truncate(i, t) = s + W =>
           roll(i, e, t) = [windowStart |-> Truncate(i, t), current |-> 0, previous |-> e.current]
      /\ Truncate(i, t) # s /\ Truncate(i, t) # s + W => roll(i, e, t) = Fresh(i, t)
  <2> HIDE DEF k
  <2> QED
    BY <1>1 DEF roll
<1>9. s # s + W
  <2> HIDE DEF k, s, W
  <2> QED
    BY <1>1
<1>10. IsEntry(i, roll(i, e, t)) /\ roll(i, e, t).windowStart = Truncate(i, t)
  <2>1. IsEntry(i, Fresh(i, t)) /\ Fresh(i, t).windowStart = Truncate(i, t)
    BY <1>3 DEF IsEntry, Fresh, Entry
  <2>2. LET x == [windowStart |-> Truncate(i, t), current |-> 0, previous |-> e.current]
        IN  IsEntry(i, x) /\ x.windowStart = Truncate(i, t)
    BY <1>1, <1>3 DEF IsEntry, Entry
  <2> QED
    BY <1>8, <2>1, <2>2
<1> QED
  BY <1>5, <1>6, <1>7, <1>8, <1>9, <1>10

\* decayTime inverts the decay of p over a window of length W: before it at
\* least A is left, after it less.
LEMMA DecayInverts ==
  ASSUME NEW W \in Nat \ {0}, NEW p \in Nat \ {0}, NEW A \in Nat \ {0}, NEW x \in Nat
  PROVE  /\ decayTime(W, p, A) \in Nat /\ decayTime(W, p, A) <= W
         /\ x < decayTime(W, p, A) => W * A <= p * (W - x)
         /\ decayTime(W, p, A) < x => p * (W - x) < W * A
<1>1. CASE A >= p
  <2>1. decayTime(W, p, A) = 0
    BY <1>1 DEF decayTime
  <2>2. ASSUME 0 < x PROVE p * (W - x) < W * A
    <3>1. p * (W - x) = p * W - p * x
      OBVIOUS
    <3>2. p * x >= 1
      BY <2>2
    <3>3. W * p <= W * A /\ W * p = p * W
      BY <1>1, MulMono
    <3> QED
      BY <3>1, <3>2, <3>3
  <2> QED
    BY <2>1, <2>2
<1>2. CASE A < p
  <2> DEFINE y == W * (p - A)
  <2>1. decayTime(W, p, A) = (y + p - 1) \div p
    BY <1>2 DEF decayTime
  <2>2. p - A \in Nat /\ y \in Nat /\ y = W * p - W * A
    BY <1>2
  <2> HIDE DEF y
  <2>3. /\ decayTime(W, p, A) \in Nat
        /\ \A n \in Nat : n < decayTime(W, p, A) <=> p * n < y
    BY <2>1, <2>2, CeilBounds
  <2>4. p * (W - x) = W * p - p * x
    OBVIOUS
  <2>5. decayTime(W, p, A) <= W
    <3>1. p * W = W * p /\ W * A \in Nat
      OBVIOUS
    <3>2. ~(p * W < y)
      BY <2>2, <3>1
    <3> QED
      BY <2>3, <3>2
  <2>6. ASSUME x < decayTime(W, p, A) PROVE W * A <= p * (W - x)
    BY <2>2, <2>3, <2>4, <2>6
  <2>7. ASSUME decayTime(W, p, A) < x PROVE p * (W - x) < W * A
    <3>1. x - 1 \in Nat /\ ~(x - 1 < decayTime(W, p, A))
      BY <2>3, <2>7
    <3>2. ~(p * (x - 1) < y)
      BY <2>3, <3>1
    <3>3. p * (x - 1) = p * x - p
      OBVIOUS
    <3> QED
      BY <2>2, <2>4, <3>2, <3>3
  <2> QED
    BY <2>3, <2>5, <2>6, <2>7
<1> QED
  BY <1>1, <1>2

\* A request fits in a window exactly when the counted units leave room and
\* the decayed share of the previous window is below what is left.
LEMMA Admission ==
  ASSUME NEW i \in Id, NEW e \in Entry, NEW t \in Nat, NEW cost \in Nat, cost <= Limit[i],
         e.windowStart <= t, t < e.windowStart + Window[i]
  PROVE  Admits(i, e, t, cost) <=>
           /\ e.current <= Limit[i] - cost
           /\ e.previous * (Window[i] - (t - e.windowStart))
                < Window[i] * (Limit[i] - cost - e.current + 1)
<1> DEFINE W == Window[i]
<1> DEFINE x == t - e.windowStart
<1> DEFINE B == Limit[i] - cost
<1> DEFINE share == e.previous * (W - x)
<1>1. /\ W \in Nat \ {0} /\ Limit[i] \in Nat \ {0} /\ e.current \in Nat /\ e.previous \in Nat
      /\ e.windowStart \in Nat
  BY RulesArePositive DEF Entry
<1>2. x \in Nat /\ W - x \in Nat /\ W - x > 0 /\ B \in Nat
  BY <1>1
<1>3. Max({W - x, 0}) = W - x
  <2> HIDE DEF x, W
  <2> QED
    BY <1>1, <1>2, MaxOfTwo
<1>4. estimate(i, e, t) = e.current + share \div W
  BY <1>3 DEF estimate
<1>5. share \in Nat
  <2> HIDE DEF x, W
  <2> QED
    BY <1>1, <1>2
<1> HIDE DEF share, x, W
<1>6. share \div W \in Nat
  BY <1>1, <1>5, DivBounds
<1>7. Admits(i, e, t, cost) <=> e.current + share \div W <= B
  BY <1>1, <1>4, <1>6 DEF Admits
<1>8. CASE e.current <= B
  <2> DEFINE k == B - e.current + 1
  <2>1. k \in Nat
    BY <1>1, <1>2, <1>8
  <2>2. Admits(i, e, t, cost) <=> share \div W < k
    BY <1>1, <1>2, <1>6, <1>7
  <2> HIDE DEF k, B
  <2>3. share \div W < k <=> share < W * k
    BY <1>1, <1>5, <2>1, DivBelow
  <2> QED
    BY <1>8, <2>2, <2>3 DEF k, B, W, x, share
<1>9. CASE ~(e.current <= B)
  BY <1>1, <1>2, <1>6, <1>7, <1>9
<1> QED
  BY <1>8, <1>9

\* An entry of an earlier window whose count is within the budget lets the
\* request through at any later time.
LEMMA FreshAdmits ==
  ASSUME NEW i \in Id, NEW t \in Nat, NEW cost \in Nat, cost <= Limit[i]
  PROVE  Admits(i, Fresh(i, t), t, cost)
<1> DEFINE e == Fresh(i, t)
<1>1. /\ Window[i] \in Nat \ {0} /\ Limit[i] \in Nat \ {0}
      /\ Truncate(i, t) \in Nat /\ Truncate(i, t) <= t /\ t < Truncate(i, t) + Window[i]
  BY TruncateFacts
<1>2. e \in Entry /\ e.windowStart = Truncate(i, t) /\ e.current = 0 /\ e.previous = 0
  BY <1>1 DEF Fresh, Entry
<1> HIDE DEF e
<1>3. /\ e.current <= Limit[i] - cost
      /\ e.previous * (Window[i] - (t - e.windowStart)) = 0
  BY <1>1, <1>2
<1>4. 0 < Window[i] * (Limit[i] - cost - e.current + 1)
  BY <1>1, <1>2
<1> QED
  BY <1>1, <1>2, <1>3, <1>4, Admission DEF e

\* The two halves of retryAfter: a request refused now is admitted at every
\* time after readyTime, and at none before it.
LEMMA ReadyIsExact ==
  ASSUME NEW i \in Id, NEW t \in Nat, NEW e, IsEntry(i, e), e.windowStart = Truncate(i, t),
         NEW cost \in Nat, cost <= Limit[i], ~Admits(i, e, t, cost), NEW u \in Nat, t <= u
  PROVE  /\ readyTime(i, e, t, cost) \in Nat
         /\ readyTime(i, e, t, cost) < u => Admits(i, roll(i, e, u), u, cost)
         /\ u < readyTime(i, e, t, cost) => ~Admits(i, roll(i, e, u), u, cost)
<1> DEFINE W == Window[i]
<1> DEFINE s == e.windowStart
<1> DEFINE B == Limit[i] - cost
<1>1. /\ W \in Nat \ {0} /\ Limit[i] \in Nat \ {0} /\ e.current \in Nat /\ e.previous \in Nat
      /\ s \in Nat /\ s <= t /\ t < s + W /\ B \in Nat /\ e \in Entry
  BY TruncateFacts DEF IsEntry, Entry
<1>2. /\ s <= u /\ u < s + W => roll(i, e, u) = e
      /\ s + W <= u /\ u < s + W + W =>
           roll(i, e, u) = [windowStart |-> s + W, current |-> 0, previous |-> e.current]
      /\ s + W + W <= u => roll(i, e, u) = Fresh(i, u)
  BY RollFacts
<1>3. s + W + W <= u => Admits(i, roll(i, e, u), u, cost)
  BY <1>2, FreshAdmits
<1> DEFINE n == [windowStart |-> s + W, current |-> 0, previous |-> e.current]
<1>4. n \in Entry /\ n.windowStart = s + W /\ n.current = 0 /\ n.previous = e.current
  BY <1>1 DEF Entry
<1> HIDE DEF n
<1>5. s + W <= u /\ u < s + W + W =>
        (Admits(i, roll(i, e, u), u, cost) <=> e.current * (W - (u - (s + W))) < W * (B + 1))
  <2> SUFFICES ASSUME s + W <= u, u < s + W + W
               PROVE  Admits(i, n, u, cost) <=> e.current * (W - (u - (s + W))) < W * (B + 1)
    BY <1>2 DEF n
  <2>1. Admits(i, n, u, cost) <=> /\ 0 <= B
                                  /\ e.current * (W - (u - (s + W))) < W * (B - 0 + 1)
    BY <1>1, <1>4, Admission
  <2>2. 0 <= B /\ B - 0 + 1 = B + 1
    BY <1>1
  <2> QED
    BY <2>1, <2>2
<1>6. s <= u /\ u < s + W =>
        (Admits(i, roll(i, e, u), u, cost) <=>
           e.current <= B /\ e.previous * (W - (u - s)) < W * (B - e.current + 1))
  BY <1>1, <1>2, Admission
<1>7. CASE e.current <= B /\ e.previous > 0
  <2> DEFINE A == B - e.current + 1
  <2> DEFINE d == decayTime(W, e.previous, A)
  <2>1. readyTime(i, e, t, cost) = s + d
    BY <1>7 DEF readyTime
  <2>2. A \in Nat \ {0} /\ e.previous \in Nat \ {0} /\ u - s \in Nat
    BY <1>1, <1>7
  <2> HIDE DEF A, s, W
  <2>3. /\ d \in Nat /\ d <= W
        /\ u - s < d => W * A <= e.previous * (W - (u - s))
        /\ d < u - s => e.previous * (W - (u - s)) < W * A
    BY <1>1, <2>2, DecayInverts
  <2> HIDE DEF d
  <2>4. ASSUME s + d < u PROVE Admits(i, roll(i, e, u), u, cost)
    <3>1. CASE u < s + W
      BY <1>1, <1>6, <1>7, <2>3, <2>4, <3>1 DEF A
    <3>2. CASE s + W <= u /\ u < s + W + W
      <4>1. W - (u - (s + W)) <= W /\ W - (u - (s + W)) \in Nat
        BY <1>1, <3>2
      <4>2. e.current * (W - (u - (s + W))) <= e.current * W
        BY <1>1, <4>1, MulMono
      <4>3. W * e.current < W * (B + 1)
        <5>1. W * (e.current + 1) <= W * (B + 1)
          <6> HIDE DEF B
          <6> QED
            BY <1>1, <1>7, MulMono
        <5>2. W * (e.current + 1) = W * e.current + W
          BY <1>1
        <5> HIDE DEF B
        <5> QED
          BY <1>1, <5>1, <5>2
      <4>4. e.current * W = W * e.current /\ W * e.current \in Nat /\ W * (B + 1) \in Nat
            /\ e.current * (W - (u - (s + W))) \in Nat
        <5> HIDE DEF B
        <5> QED
          BY <1>1, <4>1
      <4> QED
        BY <1>5, <3>2, <4>2, <4>3, <4>4
    <3> QED
      BY <1>1, <1>3, <3>1, <3>2
  <2>5. ASSUME u < s + d PROVE ~Admits(i, roll(i, e, u), u, cost)
    <3>1. u < s + W /\ s <= u /\ u - s < d
      BY <1>1, <2>3, <2>5
    <3>2. W * A <= e.previous * (W - (u - s)) /\ W * A \in Int /\ e.previous * (W - (u - s)) \in Int
      BY <1>1, <2>2, <2>3, <3>1
    <3> QED
      BY <1>6, <3>1, <3>2 DEF A
  <2> QED
    BY <1>1, <2>1, <2>3, <2>4, <2>5
<1>8. CASE e.current <= B /\ e.previous = 0
  <2>1. 0 * (W - (t - s)) = 0 /\ 0 < W * (B - e.current + 1)
    BY <1>1, <1>8
  <2>2. Admits(i, e, t, cost)
    BY <1>1, <1>8, <2>1, Admission
  <2> QED
    BY <2>2
<1>9. CASE ~(e.current <= B)
  <2> DEFINE A == B + 1
  <2> DEFINE d == decayTime(W, e.current, A)
  <2>1. readyTime(i, e, t, cost) = s + W + d
    BY <1>9 DEF readyTime
  <2>2. A \in Nat \ {0} /\ e.current \in Nat \ {0}
    BY <1>1, <1>9
  <2> HIDE DEF A, s, W
  <2>3. d \in Nat /\ d <= W
    BY <1>1, <2>2, DecayInverts
  <2>4. s + W <= u => /\ u - (s + W) \in Nat
                      /\ u - (s + W) < d => W * A <= e.current * (W - (u - (s + W)))
                      /\ d < u - (s + W) => e.current * (W - (u - (s + W))) < W * A
    <3> DEFINE x == u - (s + W)
    <3>1. s + W <= u => x \in Nat
      BY <1>1
    <3> HIDE DEF x
    <3>2. x \in Nat => /\ x < d => W * A <= e.current * (W - x)
                       /\ d < x => e.current * (W - x) < W * A
      BY <1>1, <2>2, DecayInverts
    <3> QED
      BY <3>1, <3>2 DEF x
  <2> HIDE DEF d
  <2>5. ASSUME s + W + d < u PROVE Admits(i, roll(i, e, u), u, cost)
    <3>1. s + W <= u /\ d < u - (s + W)
      BY <1>1, <2>3, <2>5
    <3>2. e.current * (W - (u - (s + W))) < W * A
      BY <2>4, <3>1
    <3> QED
      BY <1>3, <1>1, <1>5, <3>1, <3>2 DEF A
  <2>6. ASSUME u < s + W + d PROVE ~Admits(i, roll(i, e, u), u, cost)
    <3>1. CASE u < s + W
      BY <1>1, <1>6, <1>9, <3>1
    <3>2. CASE s + W <= u
      <4>1. u < s + W + W /\ u - (s + W) < d
        BY <1>1, <2>3, <2>6, <3>2
      <4>2. /\ W * A <= e.current * (W - (u - (s + W)))
            /\ W * A \in Int /\ e.current * (W - (u - (s + W))) \in Int
        BY <1>1, <2>2, <2>4, <3>2, <4>1
      <4> QED
        BY <1>5, <3>2, <4>1, <4>2 DEF A
    <3> QED
      BY <1>1, <3>1, <3>2
  <2> QED
    BY <1>1, <2>1, <2>3, <2>5, <2>6
<1> QED
  BY <1>1, <1>7, <1>8, <1>9

-----------------------------------------------------------------------------
(* The state.                                                              *)

\* What a caller may be doing; a refund remembers when its units were spent.
IsCall(q) ==
    \/ q = Idle
    \/ q \in [op : {"consume", "allowed", "hit", "holding"}, id : Id, cost : Cost,
              at : 0..MaxTime]
    \/ q \in [op : {"refund"}, id : Id, cost : Cost, at : 0..MaxTime, spent : 0..MaxTime]

Typed ==
    /\ now \in 0..MaxTime
    /\ entries = [i \in Id |-> entries[i]]
    /\ \A i \in Id : entries[i] = NoEntry \/ IsEntry(i, entries[i])
    /\ DOMAIN call = Caller /\ \A c \in Caller : IsCall(call[c])

\* The table is finite and within its capacity.
Bounded == IsFiniteSet(Tracked) /\ Cardinality(Tracked) <= Capacity

\* What the table counts for key i in window w.
Counted(i, w) ==
    IF i \in Tracked /\ WindowOf(i, entries[i].windowStart) = w THEN entries[i].current ELSE 0

NetTyped ==
    /\ latest \in 0..MaxTime
    /\ DOMAIN net = Id /\ \A i \in Id : net[i] \in [Windows(i) -> Int]

\* No entry is ahead of the operations; a window that may still admit is
\* counted in full, unless it was upset.
BudgetInv ==
    /\ \A i \in Tracked : entries[i].windowStart <= latest
    /\ \A i \in Id : \A w \in Windows(i) : ~Excused(i, w) =>
         /\ net[i][w] <= Limit[i]
         /\ w >= WindowOf(i, latest) => net[i][w] <= Counted(i, w)

LimiterInv == Typed /\ Bounded /\ NetTyped /\ BudgetInv

-----------------------------------------------------------------------------
(* The advertised delay.                                                   *)

\* A delay in whole seconds is past the time it is for, and a second less
\* is not.
LEMMA DelayFacts ==
  ASSUME NEW ready \in Nat, NEW t \in Nat,
         NEW d, d = (Max({ready - t, 0}) \div Second) * Second + Second
  PROVE  /\ d \in Nat /\ ready < t + d
         /\ \A k \in 0..(d - Second - 1) : t + k < ready
<1> DEFINE x == Max({ready - t, 0})
<1> DEFINE q == x \div Second
<1>1. x = IF ready - t >= 0 THEN ready - t ELSE 0
  BY MaxOfTwo
<1> HIDE DEF x
<1>2. x \in Nat /\ Second \in Nat \ {0}
  BY <1>1, RulesArePositive
<1>3. q \in Nat /\ Second * q <= x /\ x < Second * q + Second
  BY <1>2, DivBounds
<1>4. d = q * Second + Second
  BY DEF x
<1> HIDE DEF q
<1> DEFINE m == Second * q
<1>5. m \in Nat /\ q * Second = m
  BY <1>2, <1>3
<1>6. m <= x /\ x < m + Second /\ d = m + Second
  BY <1>3, <1>4, <1>5
<1> HIDE DEF m
<1>7. d \in Nat /\ ready < t + d
  BY <1>1, <1>2, <1>5, <1>6
<1>8. ASSUME NEW k \in 0..(d - Second - 1) PROVE t + k < ready
  <2>1. k \in Nat /\ k <= m - 1
    BY <1>2, <1>5, <1>6
  <2> QED
    BY <1>1, <1>2, <1>5, <1>6, <2>1
<1> QED
  BY <1>7, <1>8

\* An operation sees an entry of the window of its stamp.
LEMMA SeenFacts ==
  ASSUME Typed, NEW i \in Id, NEW t \in Nat
  PROVE  IsEntry(i, Seen(i, t)) /\ Seen(i, t).windowStart = Truncate(i, t)
<1>1. CASE i \in Tracked
  <2>1. IsEntry(i, entries[i])
    BY <1>1 DEF Typed, Tracked
  <2> QED
    BY <1>1, <2>1, RollFacts DEF Seen
<1>2. CASE i \notin Tracked
  <2>1. Truncate(i, t) \in Nat /\ Truncate(i, Truncate(i, t)) = Truncate(i, t)
    BY TruncateFacts, TruncateAligned
  <2>2. IsEntry(i, Fresh(i, t)) /\ Fresh(i, t).windowStart = Truncate(i, t)
    BY <2>1 DEF IsEntry, Fresh, Entry
  <2> QED
    BY <1>2, <2>2 DEF Seen
<1> QED
  BY <1>1, <1>2

\* A refused caller is told a delay that is enough, and at most a second too long.
LEMMA RetryFacts ==
  ASSUME Typed, NEW i \in Id, NEW cost \in Cost, Refused(i, cost)
  PROVE  LET d == retryAfter(i, Seen(i, now), now, cost)
         IN  /\ d \in Nat /\ AdmittedAfter(i, Seen(i, now), cost, d)
             /\ \A k \in 0..(d - Second - 1) : ~AdmittedAfter(i, Seen(i, now), cost, k)
<1> DEFINE e == Seen(i, now)
<1> DEFINE ready == readyTime(i, e, now, cost)
<1> DEFINE d == retryAfter(i, e, now, cost)
<1>1. now \in Nat /\ cost \in Nat /\ Limit[i] \in Nat /\ Second \in Nat \ {0}
  BY RulesArePositive DEF Typed
<1>2. IsEntry(i, e) /\ e.windowStart = Truncate(i, now)
  BY <1>1, SeenFacts
<1>3. cost <= Limit[i] /\ ~Admits(i, e, now, cost)
  BY DEF Refused
<1> HIDE DEF e
<1>4. /\ ready \in Nat
      /\ \A u \in Nat : now <= u =>
           /\ ready < u => Admits(i, roll(i, e, u), u, cost)
           /\ u < ready => ~Admits(i, roll(i, e, u), u, cost)
  <2>1. now <= now
    BY <1>1
  <2> QED
    BY <1>1, <1>2, <1>3, <2>1, ReadyIsExact
<1>5. d = (Max({ready - now, 0}) \div Second) * Second + Second
  BY <1>1, <1>3 DEF retryAfter
<1> HIDE DEF ready, d
<1>6. /\ d \in Nat /\ ready < now + d
      /\ \A k \in 0..(d - Second - 1) : now + k < ready
  BY <1>1, <1>4, <1>5, DelayFacts
<1>7. AdmittedAfter(i, e, cost, d)
  <2>1. now + d \in Nat /\ now <= now + d
    BY <1>1, <1>6
  <2> QED
    BY <1>4, <1>6, <2>1 DEF AdmittedAfter
<1>8. ASSUME NEW k \in 0..(d - Second - 1) PROVE ~AdmittedAfter(i, e, cost, k)
  <2>1. now + k \in Nat /\ now <= now + k
    BY <1>1, <1>6
  <2> QED
    BY <1>4, <1>6, <2>1 DEF AdmittedAfter
<1> QED
  BY <1>6, <1>7, <1>8 DEF d, e

-----------------------------------------------------------------------------
(* Steps.                                                                  *)

\* The mark of a missing entry is no entry.
LEMMA NoEntryIsNone ==
  ASSUME NEW i
  PROVE  ~IsEntry(i, NoEntry)
BY DEF IsEntry, NoEntry, Entry

\* A table makeRoom may leave: every key keeps its entry, or loses one that
\* has expired.
LEMMA SweptFacts ==
  ASSUME NEW t, NEW table \in Swept(t), entries = [i \in Id |-> entries[i]]
  PROVE  /\ table = [i \in Id |-> table[i]]
         /\ \A i \in Id : \/ table[i] = entries[i]
                          \/ i \in Tracked /\ Expired(i, t) /\ table[i] = NoEntry
<1>1. CASE Cardinality(Tracked) < Capacity
  BY <1>1 DEF Swept
<1>2. CASE ~(Cardinality(Tracked) < Capacity)
  <2>1. PICK sample \in kSubset(Min({EvictionSample, Cardinality(Tracked)}), Tracked) :
          table = [i \in Id |-> IF i \in sample /\ Expired(i, t) THEN NoEntry ELSE entries[i]]
    BY <1>2 DEF Swept
  <2>2. sample \subseteq Tracked
    BY DEF kSubset
  <2> QED
    BY <2>1, <2>2
<1> QED
  BY <1>1, <1>2

\* What the critical section of an operation on i stamped t does to the
\* table: i is rolled to its window, if it is or becomes tracked, and other
\* entries may expire.
TableStep(i, t) ==
    /\ entries' = [k \in Id |-> entries'[k]]
    /\ \A k \in Id \ {i} : \/ entries'[k] = entries[k]
                           \/ k \in Tracked /\ Expired(k, t) /\ entries'[k] = NoEntry
    /\ \/ IsEntry(i, entries'[i]) /\ entries'[i].windowStart = Truncate(i, t)
       \/ i \notin Tracked /\ entries'[i] = NoEntry

\* What record does to the table and to the entry it is for.
LEMMA RecordFacts ==
  ASSUME Typed, NEW i \in Id, NEW t \in Nat, NEW cost \in Nat, record(i, t, cost)
  PROVE  /\ TableStep(i, t)
         /\ entries'[i] # NoEntry => entries'[i].current = Seen(i, t).current + cost
<1> DEFINE e == Seen(i, t)
<1> DEFINE n == [e EXCEPT !.current = @ + cost]
<1>0. /\ IsEntry(i, n) /\ n.windowStart = Truncate(i, t)
      /\ n.current = Seen(i, t).current + cost
  <2>1. IsEntry(i, e) /\ e.windowStart = Truncate(i, t)
    BY SeenFacts
  <2> HIDE DEF e
  <2>2. e \in Entry /\ e.current \in Nat
    BY <2>1 DEF IsEntry, Entry
  <2>3. n \in Entry /\ n.windowStart = e.windowStart /\ n.current = e.current + cost
    BY <2>2 DEF Entry
  <2> QED
    BY <2>1, <2>3 DEF IsEntry, e
<1> HIDE DEF n
<1>1. CASE i \in Tracked
  <2>1. entries' = [entries EXCEPT ![i] = n]
    BY <1>1 DEF record, n
  <2> QED
    BY <1>0, <2>1 DEF Typed, TableStep
<1>2. CASE i \notin Tracked
  <2>1. PICK table \in Swept(t) :
          entries' = IF HasRoom(table)
                       THEN [table EXCEPT ![i] = [Fresh(i, t) EXCEPT !.current = cost]]
                       ELSE table
    BY <1>2 DEF record
  <2>2. /\ table = [k \in Id |-> table[k]]
        /\ \A k \in Id : \/ table[k] = entries[k]
                         \/ k \in Tracked /\ Expired(k, t) /\ table[k] = NoEntry
    BY SweptFacts DEF Typed
  <2>3. [Fresh(i, t) EXCEPT !.current = cost] = n
    <3>1. e = Fresh(i, t)
      BY <1>2 DEF Seen
    <3>2. [Fresh(i, t) EXCEPT !.current = cost] = [Fresh(i, t) EXCEPT !.current = @ + cost]
      BY DEF Fresh
    <3> QED
      BY <3>1, <3>2, Zenon DEF n
  <2>4. entries[i] = NoEntry
    BY <1>2 DEF Tracked
  <2>5. CASE HasRoom(table)
    <3>1. entries' = [table EXCEPT ![i] = n]
      BY <2>1, <2>3, <2>5
    <3> QED
      BY <1>0, <2>2, <3>1 DEF TableStep
  <2>6. CASE ~HasRoom(table)
    <3>1. entries' = table
      BY <2>1, <2>6
    <3> QED
      BY <1>2, <2>2, <2>4, <3>1 DEF TableStep
  <2> QED
    BY <2>5, <2>6
<1> QED
  BY <1>1, <1>2

\* record adds one key at most, and only to a table with room for it.
LEMMA RecordBounded ==
  ASSUME Typed, Bounded, NEW i \in Id, NEW t \in Nat, NEW cost \in Nat, record(i, t, cost)
  PROVE  Bounded'
<1>1. CASE i \in Tracked
  <2>1. entries' = [entries EXCEPT ![i] = [Seen(i, t) EXCEPT !.current = @ + cost]]
    BY <1>1 DEF record
  <2>2. TableStep(i, t)
    BY RecordFacts
  <2>3. \A k \in Id \ {i} : entries'[k] = entries[k]
    BY <2>1 DEF Typed
  <2>4. entries'[i] # NoEntry
    BY <1>1, <2>2, NoEntryIsNone DEF TableStep
  <2>5. Tracked' = Tracked
    BY <1>1, <2>3, <2>4 DEF Tracked
  <2> QED
    BY <2>5 DEF Bounded
<1>2. CASE i \notin Tracked
  <2>1. PICK table \in Swept(t) :
          entries' = IF HasRoom(table)
                       THEN [table EXCEPT ![i] = [Fresh(i, t) EXCEPT !.current = cost]]
                       ELSE table
    BY <1>2 DEF record
  <2> DEFINE T == {k \in Id : table[k] # NoEntry}
  <2>2. /\ table = [k \in Id |-> table[k]]
        /\ \A k \in Id : \/ table[k] = entries[k]
                         \/ k \in Tracked /\ Expired(k, t) /\ table[k] = NoEntry
    BY SweptFacts DEF Typed
  <2>3. T \subseteq Tracked /\ i \notin T
    BY <1>2, <2>2 DEF Tracked
  <2>4. IsFiniteSet(T) /\ Cardinality(T) <= Cardinality(Tracked)
    BY <2>3, FS_Subset DEF Bounded
  <2>5. Cardinality(T) \in Nat /\ Cardinality(Tracked) \in Nat /\ Capacity \in Nat
    BY <2>4, FS_CardinalityType, RulesArePositive DEF Bounded
  <2>6. CASE HasRoom(table)
    <3>1. Cardinality(T) < Capacity
      BY <2>6 DEF HasRoom
    <3>2. Tracked' \subseteq T \cup {i}
      BY <2>1, <2>2, <2>6 DEF Tracked
    <3>3. IsFiniteSet(T \cup {i}) /\ Cardinality(T \cup {i}) = Cardinality(T) + 1
      BY <2>3, <2>4, FS_AddElement
    <3>4. IsFiniteSet(Tracked') /\ Cardinality(Tracked') <= Cardinality(T \cup {i})
      BY <3>2, <3>3, FS_Subset
    <3>5. Cardinality(Tracked') \in Nat
      BY <3>4, FS_CardinalityType
    <3> QED
      BY <2>5, <3>1, <3>3, <3>4, <3>5 DEF Bounded
  <2>7. CASE ~HasRoom(table)
    <3>1. Tracked' = T
      BY <2>1, <2>7 DEF Tracked
    <3> QED
      BY <2>4, <2>5, <3>1 DEF Bounded
  <2> QED
    BY <2>6, <2>7
<1> QED
  BY <1>1, <1>2

\* An operation that rewrites the entry it finds tracks nobody else.
LEMMA RewriteFacts ==
  ASSUME Typed, NEW i \in Id, NEW t \in Nat, NEW n, IsEntry(i, n), n.windowStart = Truncate(i, t),
         entries' = [entries EXCEPT ![i] = IF i \in Tracked THEN n ELSE NoEntry]
  PROVE  /\ TableStep(i, t) /\ Tracked' = Tracked
         /\ i \in Tracked => entries'[i] = n
<1>1. \A k \in Id \ {i} : entries'[k] = entries[k]
  BY DEF Typed
<1>2. entries'[i] = IF i \in Tracked THEN n ELSE NoEntry
  BY DEF Typed
<1>3. entries' = [k \in Id |-> entries'[k]]
  BY DEF Typed
<1>4. n # NoEntry
  BY NoEntryIsNone
<1>5. Tracked' = Tracked
  BY <1>1, <1>2, <1>4 DEF Tracked
<1> QED
  BY <1>1, <1>2, <1>3, <1>5 DEF TableStep

-----------------------------------------------------------------------------
(* The count of a window.                                                  *)

\* Later times are in later windows.
LEMMA WindowMono ==
  ASSUME NEW i \in Id, NEW a \in Nat, NEW b \in Nat, a <= b
  PROVE  /\ WindowOf(i, a) \in Nat /\ WindowOf(i, b) \in Nat
         /\ WindowOf(i, a) <= WindowOf(i, b)
<1> DEFINE W == Window[i]
<1> DEFINE p == a \div W
<1> DEFINE q == b \div W
<1>1. W \in Nat \ {0}
  BY RulesArePositive
<1>2. p \in Nat /\ q \in Nat /\ W * p <= a /\ b < W * q + W
  BY <1>1, DivBounds
<1> HIDE DEF W, p, q
<1>3. ASSUME q + 1 <= p PROVE FALSE
  <2>1. W * (q + 1) <= W * p
    BY <1>1, <1>2, <1>3, MulMono
  <2>2. W * (q + 1) = W * q + W
    BY <1>1, <1>2
  <2>3. W * p \in Nat /\ W * q \in Nat
    BY <1>1, <1>2
  <2> QED
    BY <1>1, <1>2, <2>1, <2>2, <2>3
<1>4. p <= q
  BY <1>2, <1>3
<1> QED
  BY <1>2, <1>4 DEF WindowOf, W, p, q

\* A window begins in itself, and nothing else of it is aligned.
LEMMA WindowStart ==
  ASSUME NEW i \in Id, NEW s \in Nat, s = Truncate(i, s), NEW t \in Nat
  PROVE  /\ WindowOf(i, Truncate(i, t)) = WindowOf(i, t)
         /\ WindowOf(i, s) = WindowOf(i, t) <=> s = Truncate(i, t)
         /\ t - s >= 2 * Window[i] => WindowOf(i, s) < WindowOf(i, t)
<1> DEFINE W == Window[i]
<1> DEFINE p == s \div W
<1> DEFINE q == t \div W
<1>1. W \in Nat \ {0} /\ p \in Nat /\ q \in Nat
  BY TruncateFacts
<1>2. s = W * p /\ Truncate(i, t) = W * q /\ W * q <= t /\ t < W * q + W
  BY TruncateFacts
<1>3. Truncate(i, t) \div W = q
  <2>1. Truncate(i, t) \in Nat /\ Truncate(i, Truncate(i, t)) = Truncate(i, t)
    BY TruncateFacts, TruncateAligned
  <2> HIDE DEF q
  <2> QED
    BY <1>1, <1>2, <2>1, TruncateIs
<1>4. p = q => s = Truncate(i, t)
  BY <1>2
<1>5. s = Truncate(i, t) => p = q
  BY <1>3
<1>6. ASSUME t - s >= 2 * W PROVE p < q
  <2> HIDE DEF p, q, W
  <2>1. ASSUME q <= p PROVE FALSE
    <3>1. W * q <= W * p
      BY <1>1, <2>1, MulMono
    <3>2. W * q \in Nat /\ W * p \in Nat
      BY <1>1
    <3> QED
      BY <1>1, <1>2, <1>6, <3>1, <3>2
  <2> QED
    BY <1>1, <2>1
<1> QED
  BY <1>3, <1>4, <1>5, <1>6 DEF WindowOf

\* What an operation sees is what the table counts for the window of its
\* stamp.
LEMMA SeenIsCounted ==
  ASSUME Typed, NEW i \in Id, NEW t \in Nat
  PROVE  Seen(i, t).current = Counted(i, WindowOf(i, t)) /\ Seen(i, t).current \in Nat
<1>0. Seen(i, t).current \in Nat
  BY SeenFacts DEF IsEntry, Entry
<1>1. CASE i \in Tracked
  <2> DEFINE e == entries[i]
  <2>1. IsEntry(i, e) /\ e.windowStart \in Nat /\ e.windowStart = Truncate(i, e.windowStart)
    BY <1>1 DEF Typed, Tracked, IsEntry, Entry
  <2>2. WindowOf(i, e.windowStart) = WindowOf(i, t) <=> e.windowStart = Truncate(i, t)
    BY <2>1, WindowStart
  <2>3. Seen(i, t) = roll(i, e, t)
    BY <1>1 DEF Seen
  <2>4. CASE e.windowStart = Truncate(i, t)
    <3>0. e.windowStart # e.windowStart + Window[i]
      BY <2>1, RulesArePositive
    <3>1. roll(i, e, t) = e
      BY <2>4, <3>0 DEF roll
    <3> QED
      BY <1>0, <1>1, <2>2, <2>3, <2>4, <3>1 DEF Counted
  <2>5. CASE e.windowStart # Truncate(i, t)
    <3>1. roll(i, e, t).current = 0
      BY <2>5 DEF roll, Fresh
    <3> QED
      BY <1>0, <1>1, <2>2, <2>3, <2>5, <3>1 DEF Counted
  <2> QED
    BY <2>4, <2>5
<1>2. CASE i \notin Tracked
  <2>1. Seen(i, t).current = 0
    BY <1>2 DEF Seen, Fresh
  <2> QED
    BY <1>0, <1>2, <2>1 DEF Counted
<1> QED
  BY <1>1, <1>2

\* The same after the step.
LEMMA CountedAfter ==
  ASSUME NEW i \in Id, NEW t \in Nat, TableStep(i, t)
  PROVE  /\ entries'[i] # NoEntry => Counted(i, WindowOf(i, t))' = entries'[i].current
         /\ entries'[i] = NoEntry => Counted(i, WindowOf(i, t))' = 0
         /\ \A w : Counted(i, w)' \in Nat
<1>1. entries'[i] # NoEntry <=> i \in Tracked'
  BY DEF Tracked
<1>2. entries'[i] # NoEntry =>
        entries'[i].windowStart = Truncate(i, t) /\ entries'[i].current \in Nat
  BY DEF TableStep, IsEntry, Entry
<1>3. WindowOf(i, Truncate(i, t)) = WindowOf(i, t)
  <2>1. Truncate(i, t) \in Nat /\ Truncate(i, Truncate(i, t)) = Truncate(i, t)
    BY TruncateFacts, TruncateAligned
  <2> QED
    BY <2>1, WindowStart
<1> QED
  BY <1>1, <1>2, <1>3 DEF Counted

\* What is admitted fits beside what the window has counted.
LEMMA AdmittedFits ==
  ASSUME NEW i \in Id, NEW e \in Entry, NEW t \in Nat, NEW cost \in Nat, Admits(i, e, t, cost)
  PROVE  e.current + cost <= Limit[i]
<1> DEFINE x == Window[i] - (t - e.windowStart)
<1> DEFINE m == Max({x, 0})
<1>1. Window[i] \in Nat \ {0} /\ Limit[i] \in Nat /\ e.windowStart \in Nat /\ e.current \in Nat
      /\ e.previous \in Nat
  BY RulesArePositive DEF Entry
<1>2. x \in Int
  BY <1>1
<1> HIDE DEF x
<1>3. m = IF x >= 0 THEN x ELSE 0
  BY <1>2, MaxOfTwo
<1> HIDE DEF m
<1>4. m \in Nat
  BY <1>2, <1>3
<1>5. e.previous * m \in Nat
  BY <1>1, <1>4
<1>6. (e.previous * m) \div Window[i] \in Nat
  BY <1>1, <1>5, DivBounds
<1>7. estimate(i, e, t) = e.current + (e.previous * m) \div Window[i]
  BY DEF estimate, m, x
<1> QED
  BY <1>1, <1>6, <1>7 DEF Admits

-----------------------------------------------------------------------------
(* The budget.                                                             *)

\* Causes pile up; an operation behind another over a window boundary is one
\* for its own window, for the other's and for those between.
LEMMA ObserveFacts ==
  ASSUME NetTyped, NEW i \in Id, NEW t \in 0..MaxTime, NEW causes, Observe(i, t, causes)
  PROVE  /\ latest' \in 0..MaxTime /\ latest <= latest' /\ t <= latest'
         /\ \A k, w : Excused(k, w) => Excused(k, w)'
         /\ \A cause \in causes :
              cause \in {"failedOpen", "lateRefund"} => Excused(i, WindowOf(i, t))'
         /\ t < latest /\ WindowOf(i, t) # WindowOf(i, latest) =>
              \A w \in WindowOf(i, t)..WindowOf(i, latest) : Excused(i, w)'
<1>1. latest \in Int /\ t \in Int /\ latest \in 0..MaxTime /\ MaxTime \in Nat
  BY RulesArePositive DEF NetTyped
<1>2. Max({latest, t}) = IF latest >= t THEN latest ELSE t
  BY <1>1, MaxOfTwo
<1>3. latest' \in 0..MaxTime /\ latest <= latest' /\ t <= latest'
  BY <1>1, <1>2 DEF Observe
<1>4. disturbed \subseteq disturbed'
  BY DEF Observe
<1>5. \A cause \in causes : <<i, WindowOf(i, t), cause>> \in disturbed'
  BY DEF Observe
<1>6. ASSUME t < latest, WindowOf(i, t) # WindowOf(i, latest),
             NEW w \in WindowOf(i, t)..WindowOf(i, latest)
      PROVE  <<i, w, "reordered">> \in disturbed'
  <2>1. w \in {x \in WindowOf(i, t)..WindowOf(i, latest) : t < latest
                 /\ WindowOf(i, t) # WindowOf(i, latest)}
    BY <1>6
  <2> QED
    BY <2>1, Zenon DEF Observe
<1>7. \A k, w : Excused(k, w) => Excused(k, w)'
  BY <1>4 DEF Excused
<1>8. \A cause \in causes :
        cause \in {"failedOpen", "lateRefund"} => Excused(i, WindowOf(i, t))'
  BY <1>5 DEF Excused
<1>9. t < latest /\ WindowOf(i, t) # WindowOf(i, latest) =>
        \A w \in WindowOf(i, t)..WindowOf(i, latest) : Excused(i, w)'
  BY <1>6 DEF Excused
<1> QED
  BY <1>3, <1>7, <1>8, <1>9

\* The bookkeeping of one critical section, on i and stamped t, keeps
\* BudgetInv when no other window of i gains and the window of t, if it was
\* counted in full before, is so afterwards or is excused.
LEMMA BudgetStep ==
  ASSUME Typed, NetTyped, BudgetInv, NEW i \in Id, NEW t \in 0..MaxTime, NEW causes,
         TableStep(i, t), Observe(i, t, causes), NetTyped',
         \A k \in Id \ {i} : net'[k] = net[k],
         \A w \in Windows(i) \ {WindowOf(i, t)} : net'[i][w] <= net[i][w],
         /\ net[i][WindowOf(i, t)] <= Limit[i]
         /\ net[i][WindowOf(i, t)] <= Seen(i, t).current
         => \/ Excused(i, WindowOf(i, t))'
            \/ /\ net'[i][WindowOf(i, t)] <= Limit[i]
               /\ net'[i][WindowOf(i, t)] <= Counted(i, WindowOf(i, t))'
  PROVE  BudgetInv'
<1> DEFINE w0 == WindowOf(i, t)
<1>1. /\ latest' \in 0..MaxTime /\ latest <= latest' /\ t <= latest'
      /\ \A k, w : Excused(k, w) => Excused(k, w)'
      /\ t < latest /\ w0 # WindowOf(i, latest) =>
           \A w \in w0..WindowOf(i, latest) : Excused(i, w)'
  BY ObserveFacts
<1>2. t \in Nat /\ latest \in Nat /\ latest' \in Nat /\ MaxTime \in Nat
  BY <1>1, RulesArePositive DEF NetTyped
<1>3. \A k \in Id : /\ WindowOf(k, latest) \in Nat /\ WindowOf(k, latest') \in Nat
                    /\ WindowOf(k, t) \in Nat /\ WindowOf(k, latest) <= WindowOf(k, latest')
                    /\ WindowOf(k, t) <= WindowOf(k, latest')
  BY <1>1, <1>2, WindowMono
<1>4. \A k \in Id : /\ Limit[k] \in Nat /\ Windows(k) \subseteq Nat
                    /\ net[k] \in [Windows(k) -> Int] /\ net'[k] \in [Windows(k) -> Int]
  BY RulesArePositive DEF NetTyped, Windows
<1>5. ASSUME NEW k \in Tracked' PROVE entries'[k].windowStart <= latest'
  <2>1. CASE k = i
    <3>1. entries'[i].windowStart = Truncate(i, t)
      BY <2>1 DEF Tracked, TableStep
    <3>2. Truncate(i, t) \in Nat /\ Truncate(i, t) <= t
      BY <1>2, TruncateFacts
    <3> QED
      BY <1>1, <1>2, <2>1, <3>1, <3>2
  <2>2. CASE k # i
    <3>1. k \in Id /\ entries'[k] = entries[k] /\ k \in Tracked
      BY <2>2 DEF Tracked, TableStep
    <3>2. entries[k].windowStart <= latest /\ entries[k].windowStart \in Nat
      BY <3>1 DEF BudgetInv, Typed, Tracked, IsEntry, Entry
    <3> QED
      BY <1>1, <1>2, <3>1, <3>2
  <2> QED
    BY <2>1, <2>2
<1>6. ASSUME NEW k \in Id \ {i}, NEW w \in Windows(k), ~Excused(k, w)'
      PROVE  /\ net'[k][w] <= Limit[k]
             /\ w >= WindowOf(k, latest') => net'[k][w] <= Counted(k, w)'
  <2>1. ~Excused(k, w) /\ net'[k][w] = net[k][w]
    BY <1>1, <1>6
  <2>2. net[k][w] <= Limit[k] /\ (w >= WindowOf(k, latest) => net[k][w] <= Counted(k, w))
    BY <2>1 DEF BudgetInv
  <2>3. ASSUME w >= WindowOf(k, latest') PROVE net'[k][w] <= Counted(k, w)'
    <3>1. w \in Nat /\ net[k][w] <= Counted(k, w)
      BY <1>3, <1>4, <2>2, <2>3
    <3>2. CASE entries'[k] = entries[k]
      <4>1. Counted(k, w)' = Counted(k, w)
        BY <3>2 DEF Counted, Tracked
      <4> QED
        BY <2>1, <3>1, <4>1
    <3>3. CASE k \in Tracked /\ Expired(k, t) /\ entries'[k] = NoEntry
      <4> DEFINE s == entries[k].windowStart
      <4>1. s \in Nat /\ s = Truncate(k, s)
        BY <3>3 DEF Typed, Tracked, IsEntry, Entry
      <4>2. WindowOf(k, s) < WindowOf(k, t) /\ WindowOf(k, s) \in Nat
        BY <1>2, <3>3, <4>1, WindowStart, WindowMono DEF Expired
      <4>3. WindowOf(k, s) # w
        BY <1>3, <2>3, <3>1, <4>2
      <4>4. Counted(k, w) = 0 /\ Counted(k, w)' = 0
        BY <3>3, <4>3 DEF Counted, Tracked
      <4> QED
        BY <2>1, <3>1, <4>4
    <3> QED
      BY <3>2, <3>3 DEF TableStep
  <2> QED
    BY <2>1, <2>2, <2>3
<1>7. ASSUME w0 \in Windows(i), ~Excused(i, w0)'
      PROVE  /\ net'[i][w0] <= Limit[i]
             /\ net'[i][w0] <= Counted(i, w0)'
  <2>1. w0 >= WindowOf(i, latest)
    <3>1. CASE t < latest
      <4>1. w0 <= WindowOf(i, latest)
        BY <1>2, <3>1, WindowMono
      <4>2. w0 \in w0..WindowOf(i, latest)
        BY <1>3, <4>1
      <4> QED
        BY <1>1, <1>3, <1>7, <3>1, <4>2
    <3>2. CASE latest <= t
      BY <1>2, <3>2, WindowMono
    <3> QED
      BY <1>2, <3>1, <3>2
  <2>2. ~Excused(i, w0)
    BY <1>1, <1>7
  <2>3. net[i][w0] <= Limit[i] /\ net[i][w0] <= Counted(i, w0)
    BY <1>7, <2>1, <2>2 DEF BudgetInv
  <2>4. net[i][w0] <= Seen(i, t).current
    BY <1>2, <2>3, SeenIsCounted
  <2> QED
    BY <1>7, <2>3, <2>4
<1>8. ASSUME NEW w \in Windows(i), w # w0, ~Excused(i, w)'
      PROVE  /\ net'[i][w] <= Limit[i]
             /\ w >= WindowOf(i, latest') => net'[i][w] <= Counted(i, w)'
  <2>1. ~Excused(i, w) /\ net'[i][w] <= net[i][w] /\ w \in Nat
        /\ net'[i][w] \in Int /\ net[i][w] \in Int
    BY <1>1, <1>4, <1>8
  <2>2. net[i][w] <= Limit[i] /\ (w >= WindowOf(i, latest) => net[i][w] <= Counted(i, w))
    BY <2>1 DEF BudgetInv
  <2>3. ASSUME w >= WindowOf(i, latest') PROVE net'[i][w] <= Counted(i, w)'
    <3>1. w >= WindowOf(i, latest) /\ w > w0
      BY <1>3, <1>8, <2>1, <2>3
    <3>2. ASSUME i \in Tracked, WindowOf(i, entries[i].windowStart) = w PROVE FALSE
      <4> DEFINE s == entries[i].windowStart
      <4>1. s \in Nat /\ s <= latest
        BY <3>2 DEF BudgetInv, Typed, Tracked, IsEntry, Entry
      <4>2. w <= WindowOf(i, latest)
        BY <1>2, <3>2, <4>1, WindowMono
      <4>3. ~(latest <= t)
        <5>1. ASSUME latest <= t PROVE FALSE
          <6>1. WindowOf(i, latest) <= w0
            BY <1>2, <5>1, WindowMono
          <6> QED
            BY <1>3, <2>1, <3>1, <4>2, <6>1
        <5> QED
          BY <5>1
      <4>4. t < latest
        BY <1>2, <4>3
      <4>5. w \in w0..WindowOf(i, latest) /\ w0 # WindowOf(i, latest)
        BY <1>3, <2>1, <3>1, <4>2
      <4> QED
        BY <1>1, <1>8, <4>4, <4>5
    <3>3. Counted(i, w) = 0
      BY <3>2 DEF Counted
    <3>4. Counted(i, w)' \in Nat
      BY <1>2, CountedAfter
    <3> QED
      BY <2>1, <2>2, <3>1, <3>3, <3>4
  <2> QED
    BY <1>4, <2>1, <2>2, <2>3
<1>9. ASSUME NEW k \in Id, NEW w \in Windows(k), ~Excused(k, w)'
      PROVE  /\ net'[k][w] <= Limit[k]
             /\ w >= WindowOf(k, latest') => net'[k][w] <= Counted(k, w)'
  <2>1. CASE k # i
    BY <1>6, <1>9, <2>1
  <2>2. CASE k = i /\ w = w0
    BY <1>7, <1>9, <2>2
  <2>3. CASE k = i /\ w # w0
    BY <1>8, <1>9, <2>3
  <2> QED
    BY <2>1, <2>2, <2>3
<1>10. \A k \in Id : Windows(k)' = Windows(k)
  BY DEF Windows, WindowOf
<1> QED
  BY <1>5, <1>9, <1>10 DEF BudgetInv, WindowOf

-----------------------------------------------------------------------------
(* Actions.                                                                *)

\* What a critical section on i with stamp t leaves to be shown about the
\* table and the calls.
LEMMA TypedStep ==
  ASSUME Typed, NEW i \in Id, NEW t, TableStep(i, t), now' = now,
         NEW c \in Caller, NEW q, IsCall(q), call' = [call EXCEPT ![c] = q]
  PROVE  Typed'
<1>1. \A k \in Id : entries'[k] = NoEntry \/ IsEntry(k, entries'[k])
  BY DEF Typed, TableStep
<1>2. DOMAIN call' = Caller /\ \A d \in Caller : IsCall(call'[d])
  BY DEF Typed
<1>3. now' \in 0..MaxTime
  BY DEF Typed
<1> QED
  BY <1>1, <1>2, <1>3 DEF Typed, TableStep, IsCall, Idle, IsEntry, Entry, NoEntry, Truncate

\* Operations that touch neither the table nor what is known of it.
LEMMA QuietStep ==
  ASSUME LimiterInv, now' \in 0..MaxTime, UNCHANGED <<entries, net, latest, disturbed>>,
         DOMAIN call' = Caller, \A c \in Caller : IsCall(call'[c])
  PROVE  LimiterInv'
<1>1. Typed'
  BY DEF LimiterInv, Typed, IsCall, Idle, IsEntry, Entry, NoEntry, Truncate
<1>2. Tracked' = Tracked
  BY DEF Tracked
<1>3. Bounded'
  BY <1>2 DEF LimiterInv, Bounded
<1>4. NetTyped'
  BY DEF LimiterInv, NetTyped, Windows, WindowOf
<1>5. BudgetInv'
  BY <1>2 DEF LimiterInv, BudgetInv, Counted, Excused, Windows, WindowOf
<1> QED
  BY <1>1, <1>3, <1>4, <1>5 DEF LimiterInv

\* The request of a caller inside an operation.
LEMMA CallFacts ==
  ASSUME Typed, NEW c \in Caller, call[c].op \in {"consume", "allowed", "hit", "holding", "refund"}
  PROVE  /\ call[c].id \in Id /\ call[c].cost \in Cost /\ call[c].at \in 0..MaxTime
         /\ call[c].cost \in Nat /\ call[c].at \in Nat
         /\ call[c].op = "refund" => call[c].spent \in 0..MaxTime
         /\ call[c].op # "refund" =>
              call[c] \in [op : {"consume", "allowed", "hit", "holding"}, id : Id, cost : Cost,
                           at : 0..MaxTime]
<1>1. IsCall(call[c]) /\ call[c] # Idle
  BY DEF Typed, Idle
<1>2. \/ call[c] \in [op : {"consume", "allowed", "hit", "holding"}, id : Id, cost : Cost,
                      at : 0..MaxTime]
      \/ call[c] \in [op : {"refund"}, id : Id, cost : Cost, at : 0..MaxTime,
                      spent : 0..MaxTime]
  BY <1>1 DEF IsCall
<1>3. 0..MaxTime \subseteq Nat /\ Cost \subseteq Nat
  BY RulesArePositive
<1>4. CASE call[c] \in [op : {"consume", "allowed", "hit", "holding"}, id : Id, cost : Cost,
                       at : 0..MaxTime]
  <2>1. /\ call[c].op \in {"consume", "allowed", "hit", "holding"}
        /\ call[c].id \in Id /\ call[c].cost \in Cost /\ call[c].at \in 0..MaxTime
    BY <1>4
  <2> QED
    BY <1>3, <1>4, <2>1
<1>5. CASE call[c] \in [op : {"refund"}, id : Id, cost : Cost, at : 0..MaxTime,
                       spent : 0..MaxTime]
  <2>1. /\ call[c].op = "refund" /\ call[c].id \in Id /\ call[c].cost \in Cost
        /\ call[c].at \in 0..MaxTime /\ call[c].spent \in 0..MaxTime
    BY <1>5
  <2> QED
    BY <1>3, <2>1
<1> QED
  BY <1>2, <1>4, <1>5

\* Every time of the model is in one of its windows.
LEMMA WindowInRange ==
  ASSUME NEW i \in Id, NEW t \in 0..MaxTime
  PROVE  WindowOf(i, t) \in Windows(i)
<1>1. t \in Nat /\ MaxTime \in Nat /\ t <= MaxTime
  BY RulesArePositive
<1> QED
  BY <1>1, WindowMono DEF Windows

\* Reading the clock before the lock keeps the invariant.
LEMMA StampInv ==
  ASSUME LimiterInv, NEW c \in Caller, NEW op \in {"consume", "allowed", "hit"}, NEW i \in Id,
         NEW cost \in Cost, Stamp(c, op, i, cost)
  PROVE  LimiterInv'
<1> DEFINE q == [op |-> op, id |-> i, cost |-> cost, at |-> now]
<1>1. now \in 0..MaxTime /\ now' = now
  BY DEF LimiterInv, Typed, Stamp
<1>2. IsCall(q)
  BY <1>1 DEF IsCall
<1> HIDE DEF q
<1>3. call' = [call EXCEPT ![c] = q] /\ UNCHANGED <<entries, net, latest, disturbed>>
  BY DEF Stamp, q
<1>4. DOMAIN call' = Caller /\ \A d \in Caller : IsCall(call'[d])
  BY <1>2, <1>3 DEF LimiterInv, Typed
<1> QED
  BY <1>1, <1>3, <1>4, QuietStep

\* Keeping an admission keeps the invariant.
LEMMA KeepInv ==
  ASSUME LimiterInv, NEW c \in Caller, Keep(c)
  PROVE  LimiterInv'
<1>1. now' \in 0..MaxTime
  BY DEF LimiterInv, Typed, Keep
<1>2. call' = [call EXCEPT ![c] = Idle] /\ UNCHANGED <<entries, net, latest, disturbed>>
  BY DEF Keep
<1>3. IsCall(Idle)
  BY DEF IsCall
<1>4. DOMAIN call' = Caller /\ \A d \in Caller : IsCall(call'[d])
  BY <1>2, <1>3 DEF LimiterInv, Typed
<1> QED
  BY <1>1, <1>2, <1>4, QuietStep

\* Reading the clock for a refund keeps the invariant.
LEMMA StampRefundInv ==
  ASSUME LimiterInv, NEW c \in Caller, StampRefund(c)
  PROVE  LimiterInv'
<1> DEFINE q == [op |-> "refund", id |-> call[c].id, cost |-> call[c].cost, at |-> now,
                 spent |-> call[c].at]
<1>1. now \in 0..MaxTime /\ now' = now /\ Typed
  BY DEF LimiterInv, Typed, StampRefund
<1>2. call[c].id \in Id /\ call[c].cost \in Cost /\ call[c].at \in 0..MaxTime
  BY <1>1, CallFacts DEF StampRefund
<1>3. IsCall(q)
  BY <1>1, <1>2 DEF IsCall
<1> HIDE DEF q
<1>4. call' = [call EXCEPT ![c] = q] /\ UNCHANGED <<entries, net, latest, disturbed>>
  BY DEF StampRefund, q
<1>5. DOMAIN call' = Caller /\ \A d \in Caller : IsCall(call'[d])
  BY <1>1, <1>3, <1>4 DEF Typed
<1> QED
  BY <1>1, <1>4, <1>5, QuietStep

\* The passing of time keeps the invariant.
LEMMA TickInv ==
  ASSUME LimiterInv, Tick
  PROVE  LimiterInv'
<1>1. now' \in 0..MaxTime
  BY RulesArePositive DEF LimiterInv, Typed, Tick
<1>2. DOMAIN call' = Caller /\ \A d \in Caller : IsCall(call'[d])
  BY DEF LimiterInv, Typed, Tick
<1> QED
  BY <1>1, <1>2, QuietStep DEF Tick

\* An admitted call that is counted keeps the invariant.
LEMMA ConsumeAdmittedInv ==
  ASSUME LimiterInv, NEW c \in Caller, ConsumeAdmitted(c)
  PROVE  LimiterInv'
<1>0. PICK i, t, cost : i = call[c].id /\ t = call[c].at /\ cost = call[c].cost
  OBVIOUS
<1> DEFINE w0 == WindowOf(i, t)
<1> DEFINE causes == IF entries'[i] = NoEntry THEN {"failedOpen"} ELSE {}
<1>1. Typed /\ Bounded /\ NetTyped /\ BudgetInv
  BY DEF LimiterInv
<1>2. /\ call[c].op = "consume" /\ Admits(i, Seen(i, t), t, cost) /\ record(i, t, cost)
      /\ net' = [net EXCEPT ![i][w0] = @ + cost] /\ Observe(i, t, causes)
      /\ call' = [call EXCEPT ![c] = [call[c] EXCEPT !.op = "holding"]] /\ now' = now
  BY <1>0 DEF ConsumeAdmitted
<1>3. /\ i \in Id /\ t \in 0..MaxTime /\ t \in Nat /\ cost \in Nat
      /\ call[c] \in [op : {"consume", "allowed", "hit", "holding"}, id : Id, cost : Cost,
                      at : 0..MaxTime]
  BY <1>0, <1>1, <1>2, CallFacts
<1>4. IsCall([call[c] EXCEPT !.op = "holding"])
  BY <1>3 DEF IsCall
<1> DEFINE q == [call[c] EXCEPT !.op = "holding"]
<1> HIDE DEF q, causes
<1>5. TableStep(i, t) /\ (entries'[i] # NoEntry => entries'[i].current = Seen(i, t).current + cost)
  BY <1>1, <1>2, <1>3, RecordFacts
<1>6. Typed'
  <2>1. IsCall(q) /\ call' = [call EXCEPT ![c] = q]
    BY <1>2, <1>4 DEF q
  <2> QED
    BY <1>1, <1>2, <1>3, <1>5, <2>1, TypedStep
<1>7. Bounded'
  BY <1>1, <1>2, <1>3, RecordBounded
<1>8. w0 \in Windows(i) /\ net[i] \in [Windows(i) -> Int]
  BY <1>1, <1>3, WindowInRange DEF NetTyped
<1>9. /\ \A k \in Id \ {i} : net'[k] = net[k]
      /\ net'[i] = [net[i] EXCEPT ![w0] = @ + cost]
      /\ net'[i][w0] = net[i][w0] + cost
      /\ \A w \in Windows(i) \ {w0} : net'[i][w] = net[i][w]
  BY <1>1, <1>2, <1>3, <1>8 DEF NetTyped
<1>10. latest' \in 0..MaxTime
  BY <1>1, <1>2, <1>3, ObserveFacts
<1>11. NetTyped'
  <2>1. DOMAIN net' = Id
    BY <1>1, <1>2 DEF NetTyped
  <2>2. net'[i] \in [Windows(i) -> Int]
    BY <1>3, <1>8, <1>9
  <2>3. \A k \in Id : net'[k] \in [Windows(k) -> Int]
    BY <1>1, <1>9, <2>2 DEF NetTyped
  <2> QED
    BY <1>10, <2>1, <2>3 DEF NetTyped, Windows, WindowOf
<1>12. ASSUME net[i][w0] <= Seen(i, t).current
       PROVE  \/ Excused(i, w0)'
              \/ net'[i][w0] <= Limit[i] /\ net'[i][w0] <= Counted(i, w0)'
  <2>1. CASE entries'[i] = NoEntry
    <3>1. "failedOpen" \in causes
      BY <2>1 DEF causes
    <3>2. Excused(i, w0)'
      BY <1>1, <1>2, <1>3, <3>1, ObserveFacts
    <3> QED
      BY <3>2
  <2>2. CASE entries'[i] # NoEntry
    <3>1. Counted(i, w0)' = Seen(i, t).current + cost
      BY <1>3, <1>5, <2>2, CountedAfter
    <3>2. Seen(i, t) \in Entry /\ Seen(i, t).current \in Nat
      BY <1>1, <1>3, SeenFacts, SeenIsCounted DEF IsEntry
    <3>3. Seen(i, t).current + cost <= Limit[i]
      BY <1>2, <1>3, <3>2, AdmittedFits
    <3>4. Limit[i] \in Nat /\ net[i][w0] \in Int
      BY <1>3, <1>8, RulesArePositive
    <3> QED
      BY <1>3, <1>9, <1>12, <3>1, <3>2, <3>3, <3>4
  <2> QED
    BY <2>1, <2>2
<1>13. BudgetInv'
  <2>1. \A w \in Windows(i) \ {w0} : net'[i][w] <= net[i][w]
    BY <1>8, <1>9
  <2> QED
    BY <1>1, <1>2, <1>3, <1>5, <1>9, <1>11, <1>12, <2>1, BudgetStep
<1> QED
  BY <1>6, <1>7, <1>11, <1>13 DEF LimiterInv

\* Operations that leave what was admitted alone and lower no count.
LEMMA NothingAdmitted ==
  ASSUME LimiterInv, NEW i \in Id, NEW t \in 0..MaxTime, TableStep(i, t), Observe(i, t, {}),
         net' = net, entries'[i] # NoEntry => entries'[i].current >= Seen(i, t).current,
         entries'[i] # NoEntry \/ i \notin Tracked
  PROVE  NetTyped' /\ BudgetInv'
<1>1. Typed /\ NetTyped /\ BudgetInv
  BY DEF LimiterInv
<1> DEFINE w0 == WindowOf(i, t)
<1>2. t \in Nat /\ w0 \in Windows(i) /\ net[i] \in [Windows(i) -> Int]
  BY <1>1, WindowInRange, RulesArePositive DEF NetTyped
<1>3. NetTyped'
  BY <1>1, ObserveFacts DEF NetTyped, Windows, WindowOf
<1>4. ASSUME net[i][w0] <= Seen(i, t).current PROVE net'[i][w0] <= Counted(i, w0)'
  <2>1. Seen(i, t).current \in Nat /\ net[i][w0] \in Int
    BY <1>1, <1>2, SeenIsCounted
  <2>2. CASE entries'[i] # NoEntry
    <3>1. Counted(i, w0)' = entries'[i].current /\ Counted(i, w0)' \in Nat
      BY <1>2, <2>2, CountedAfter
    <3> HIDE DEF w0
    <3> QED
      BY <1>4, <2>1, <2>2, <3>1
  <2>3. CASE entries'[i] = NoEntry
    <3>1. Seen(i, t).current = 0
      BY <2>3 DEF Seen, Fresh
    <3>2. Counted(i, w0)' = 0
      BY <1>2, <2>3, CountedAfter
    <3> HIDE DEF w0
    <3> QED
      BY <1>4, <3>1, <3>2
  <2> QED
    BY <2>2, <2>3
<1>5. \A w \in Windows(i) \ {w0} : net'[i][w] <= net[i][w]
  BY <1>2
<1>6. \A k \in Id \ {i} : net'[k] = net[k]
  OBVIOUS
<1>7. /\ net[i][w0] <= Limit[i]
      /\ net[i][w0] <= Seen(i, t).current
      => \/ Excused(i, w0)'
         \/ net'[i][w0] <= Limit[i] /\ net'[i][w0] <= Counted(i, w0)'
  BY <1>4
<1> QED
  BY <1>1, <1>3, <1>5, <1>6, <1>7, BudgetStep

\* A decision that counts nothing keeps the invariant.
LEMMA DecideOnlyInv ==
  ASSUME LimiterInv, NEW c \in Caller, DecideOnly(c)
  PROVE  LimiterInv'
<1> DEFINE i == call[c].id
<1> DEFINE t == call[c].at
<1>1. Typed /\ Bounded
  BY DEF LimiterInv
<1>2. /\ call[c].op \in {"consume", "allowed"} /\ rollOnly(i, t) /\ Observe(i, t, {})
      /\ call' = [call EXCEPT ![c] = Idle] /\ now' = now /\ net' = net
  BY DEF DecideOnly
<1>3. i \in Id /\ t \in 0..MaxTime /\ t \in Nat
  BY <1>1, <1>2, CallFacts
<1> HIDE DEF i, t
<1>4. IsEntry(i, Seen(i, t)) /\ Seen(i, t).windowStart = Truncate(i, t)
      /\ Seen(i, t).current \in Nat
  BY <1>1, <1>3, SeenFacts, SeenIsCounted
<1>5. entries' = [entries EXCEPT ![i] = IF i \in Tracked THEN Seen(i, t) ELSE NoEntry]
  BY <1>2 DEF rollOnly
<1>6. /\ TableStep(i, t) /\ Tracked' = Tracked
      /\ i \in Tracked => entries'[i] = Seen(i, t)
  BY <1>1, <1>3, <1>4, <1>5, RewriteFacts
<1>7. IsCall(Idle)
  BY DEF IsCall
<1>8. Typed'
  BY <1>1, <1>2, <1>3, <1>6, <1>7, TypedStep
<1>9. Bounded'
  BY <1>1, <1>6 DEF Bounded
<1>10. /\ entries'[i] # NoEntry => entries'[i].current >= Seen(i, t).current
       /\ entries'[i] # NoEntry \/ i \notin Tracked
  BY <1>3, <1>4, <1>6 DEF Tracked
<1>11. NetTyped' /\ BudgetInv'
  BY <1>2, <1>3, <1>6, <1>10, NothingAdmitted
<1> QED
  BY <1>8, <1>9, <1>11 DEF LimiterInv

\* Counting a failure keeps the invariant.
LEMMA HitInv ==
  ASSUME LimiterInv, NEW c \in Caller, Hit(c)
  PROVE  LimiterInv'
<1> DEFINE i == call[c].id
<1> DEFINE t == call[c].at
<1> DEFINE cost == call[c].cost
<1>1. Typed /\ Bounded
  BY DEF LimiterInv
<1>2. /\ call[c].op = "hit" /\ record(i, t, cost) /\ Observe(i, t, {})
      /\ call' = [call EXCEPT ![c] = Idle] /\ now' = now /\ net' = net
  BY DEF Hit
<1>3. i \in Id /\ t \in 0..MaxTime /\ t \in Nat /\ cost \in Nat
  BY <1>1, <1>2, CallFacts
<1> HIDE DEF i, t, cost
<1>4. TableStep(i, t) /\ (entries'[i] # NoEntry => entries'[i].current = Seen(i, t).current + cost)
  BY <1>1, <1>2, <1>3, RecordFacts
<1>5. IsCall(Idle)
  BY DEF IsCall
<1>6. Typed'
  BY <1>1, <1>2, <1>3, <1>4, <1>5, TypedStep
<1>7. Bounded'
  BY <1>1, <1>2, <1>3, RecordBounded
<1>8. Seen(i, t).current \in Nat
  BY <1>1, <1>3, SeenIsCounted
<1>9. entries'[i] # NoEntry => entries'[i].current >= Seen(i, t).current
  BY <1>3, <1>4, <1>8
<1>10. entries'[i] # NoEntry \/ i \notin Tracked
  BY <1>4, NoEntryIsNone DEF TableStep
<1>11. NetTyped' /\ BudgetInv'
  BY <1>2, <1>3, <1>4, <1>9, <1>10, NothingAdmitted
<1> QED
  BY <1>6, <1>7, <1>11 DEF LimiterInv

\* Taking an admission back keeps the invariant.
LEMMA RefundInv ==
  ASSUME LimiterInv, NEW c \in Caller, Refund(c)
  PROVE  LimiterInv'
<1>0. PICK i, t, cost, spent : /\ i = call[c].id /\ t = call[c].at /\ cost = call[c].cost
                               /\ spent = call[c].spent
  OBVIOUS
<1> DEFINE w0 == WindowOf(i, t)
<1> DEFINE w1 == WindowOf(i, spent)
<1> DEFINE causes == IF w0 # w1 THEN {"lateRefund"} ELSE {}
<1> DEFINE e == Seen(i, t)
<1> DEFINE n == [e EXCEPT !.current = Max({@ - cost, 0})]
<1>1. Typed /\ Bounded /\ NetTyped /\ BudgetInv
  BY DEF LimiterInv
<1>2. /\ call[c].op = "refund"
      /\ entries' = [entries EXCEPT ![i] = IF i \in Tracked THEN n ELSE NoEntry]
      /\ net' = [net EXCEPT ![i][w1] = @ - cost] /\ Observe(i, t, causes)
      /\ call' = [call EXCEPT ![c] = Idle] /\ now' = now
  BY <1>0 DEF Refund
<1>3. i \in Id /\ t \in 0..MaxTime /\ t \in Nat /\ cost \in Nat /\ spent \in 0..MaxTime
  BY <1>0, <1>1, <1>2, CallFacts
<1>4. /\ IsEntry(i, n) /\ n.windowStart = Truncate(i, t)
      /\ n.current \in Nat /\ n.current >= e.current - cost
  <2>1. IsEntry(i, e) /\ e.windowStart = Truncate(i, t)
    BY <1>1, <1>3, SeenFacts
  <2> HIDE DEF e
  <2>2. e \in Entry /\ e.current \in Nat
    BY <2>1 DEF IsEntry, Entry
  <2> DEFINE m == Max({e.current - cost, 0})
  <2>3. m = IF e.current - cost >= 0 THEN e.current - cost ELSE 0
    BY <1>3, <2>2, MaxOfTwo
  <2> HIDE DEF m
  <2>4. m \in Nat /\ m >= e.current - cost
    BY <1>3, <2>2, <2>3
  <2>5. n = [e EXCEPT !.current = m]
    BY DEF m
  <2>6. n \in Entry /\ n.windowStart = e.windowStart /\ n.current = m
    BY <2>2, <2>4, <2>5 DEF Entry
  <2> QED
    BY <2>1, <2>4, <2>6 DEF IsEntry
<1> HIDE DEF n, causes
<1>5. TableStep(i, t) /\ Tracked' = Tracked /\ (i \in Tracked => entries'[i] = n)
  BY <1>1, <1>2, <1>3, <1>4, RewriteFacts
<1>6. Typed'
  <2>1. IsCall(Idle)
    BY DEF IsCall
  <2> QED
    BY <1>1, <1>2, <1>3, <1>5, <2>1, TypedStep
<1>7. Bounded'
  BY <1>1, <1>5 DEF Bounded
<1>8. /\ w0 \in Windows(i) /\ w1 \in Windows(i) /\ net[i] \in [Windows(i) -> Int]
  BY <1>1, <1>3, WindowInRange DEF NetTyped
<1>9. /\ \A k \in Id \ {i} : net'[k] = net[k]
      /\ net'[i] = [net[i] EXCEPT ![w1] = @ - cost]
  BY <1>1, <1>2, <1>3, <1>8 DEF NetTyped
<1>10. NetTyped'
  <2>1. DOMAIN net' = Id
    BY <1>1, <1>2 DEF NetTyped
  <2>2. net'[i] \in [Windows(i) -> Int]
    BY <1>3, <1>8, <1>9
  <2>3. \A k \in Id : net'[k] \in [Windows(k) -> Int]
    BY <1>1, <1>9, <2>2 DEF NetTyped
  <2>4. latest' \in 0..MaxTime
    BY <1>1, <1>2, <1>3, ObserveFacts
  <2> QED
    BY <2>1, <2>3, <2>4 DEF NetTyped, Windows, WindowOf
<1>11. \A w \in Windows(i) \ {w0} : net'[i][w] <= net[i][w]
  BY <1>3, <1>8, <1>9
<1>12. ASSUME net[i][w0] <= Limit[i], net[i][w0] <= e.current
       PROVE  \/ Excused(i, w0)'
              \/ net'[i][w0] <= Limit[i] /\ net'[i][w0] <= Counted(i, w0)'
  <2>1. CASE w0 # w1
    <3>1. "lateRefund" \in causes
      BY <2>1 DEF causes
    <3>2. Excused(i, w0)'
      BY <1>1, <1>2, <1>3, <3>1, ObserveFacts
    <3> QED
      BY <3>2
  <2>2. CASE w0 = w1
    <3>1. net'[i][w0] = net[i][w0] - cost /\ net[i][w0] \in Int /\ Limit[i] \in Nat
      BY <1>3, <1>8, <1>9, <2>2, RulesArePositive
    <3>2. e.current \in Nat
      BY <1>1, <1>3, SeenIsCounted
    <3>3. CASE i \in Tracked
      <4>1. Counted(i, w0)' = n.current
        BY <1>3, <1>4, <1>5, <3>3, CountedAfter, NoEntryIsNone
      <4> HIDE DEF e, w0
      <4> QED
        BY <1>3, <1>4, <1>12, <3>1, <3>2, <4>1
    <3>4. CASE i \notin Tracked
      <4>1. e.current = 0
        BY <3>4 DEF Seen, Fresh
      <4>2. Counted(i, w0)' \in Nat
        BY <1>3, <1>5, CountedAfter
      <4> HIDE DEF e, w0
      <4> QED
        BY <1>3, <1>12, <3>1, <3>2, <4>1, <4>2
    <3> QED
      BY <3>3, <3>4
  <2> QED
    BY <2>1, <2>2
<1>13. BudgetInv'
  BY <1>1, <1>2, <1>3, <1>5, <1>9, <1>10, <1>11, <1>12, BudgetStep
<1> QED
  BY <1>6, <1>7, <1>10, <1>13 DEF LimiterInv

-----------------------------------------------------------------------------
(* Theorems.                                                               *)

\* The empty table satisfies the invariant.
LEMMA LimiterInit ==
  ASSUME Init
  PROVE  LimiterInv
<1>1. Tracked = {}
  BY DEF Init, Tracked
<1>2. Typed
  BY RulesArePositive DEF Init, Typed, IsCall
<1>3. Bounded
  BY <1>1, FS_EmptySet, RulesArePositive DEF Bounded
<1>4. NetTyped
  BY RulesArePositive DEF Init, NetTyped
<1>5. ASSUME NEW i \in Id, NEW w \in Windows(i) PROVE net[i][w] = 0 /\ Counted(i, w) = 0
  BY <1>1 DEF Init, Counted
<1>6. BudgetInv
  BY <1>1, <1>5, RulesArePositive DEF BudgetInv
<1> QED
  BY <1>2, <1>3, <1>4, <1>6 DEF LimiterInv

\* Every step keeps the invariant.
LEMMA LimiterStep ==
  ASSUME LimiterInv, [Next]_vars
  PROVE  LimiterInv'
<1>1. CASE UNCHANGED vars
  <2>1. /\ now' \in 0..MaxTime /\ UNCHANGED <<entries, net, latest, disturbed>>
        /\ DOMAIN call' = Caller /\ \A c \in Caller : IsCall(call'[c])
    BY <1>1 DEF LimiterInv, Typed, vars
  <2> QED
    BY <2>1, QuietStep
<1>2. CASE Next
  BY <1>2, TickInv, StampInv, ConsumeAdmittedInv, DecideOnlyInv, HitInv, KeepInv,
     StampRefundInv, RefundInv DEF Next
<1> QED
  BY <1>1, <1>2

\* Entries are aligned and counted, the table is bounded, and a window that
\* may still admit is counted in full.
THEOREM LimiterInvAlways == Spec => []LimiterInv
<1>1. Init => LimiterInv
  BY LimiterInit
<1>2. LimiterInv /\ [Next]_vars => LimiterInv'
  BY LimiterStep
<1> QED
  BY <1>1, <1>2, PTL DEF Spec

\* Entries stay aligned to their window and no count falls below zero, with
\* refunds and rolls in any order.
THEOREM LimiterTyped == Spec => []LimiterTypeOK
<1>1. LimiterInv => LimiterTypeOK
  BY DEF LimiterInv, Typed, LimiterTypeOK, Tracked, IsEntry, Entry
<1> QED
  BY <1>1, LimiterInvAlways, PTL

\* However many keys are seen, the table never holds more than its capacity.
THEOREM TableStaysBounded == Spec => []TableBounded
<1>1. LimiterInv => TableBounded
  BY DEF LimiterInv, Bounded, TableBounded
<1> QED
  BY <1>1, LimiterInvAlways, PTL

\* Consume keeps every window within its limit, whatever is refunded, evicted
\* or decided at the same time, unless the key found no room, operations
\* entered out of order over a window boundary, or units of another window
\* came back.
THEOREM BudgetAlwaysHolds == Spec => []BudgetHolds
<1>1. LimiterInv => BudgetHolds
  <2> SUFFICES ASSUME LimiterInv, NEW i \in Id, NEW w \in Windows(i), ~Excused(i, w)
               PROVE  ~(net[i][w] > Limit[i])
    BY DEF BudgetHolds
  <2>1. net[i][w] <= Limit[i] /\ net[i][w] \in Int /\ Limit[i] \in Nat
    BY RulesArePositive DEF LimiterInv, BudgetInv, NetTyped
  <2> QED
    BY <2>1
<1> QED
  BY <1>1, LimiterInvAlways, PTL

\* Whoever waits as long as the refusal says, and meets nobody else, is let in.
THEOREM RetryIsAlwaysEnough == Spec => []RetryIsEnough
<1>1. LimiterInv => RetryIsEnough
  BY RetryFacts DEF LimiterInv, RetryIsEnough
<1> QED
  BY <1>1, LimiterInvAlways, PTL

\* No refusal makes anyone wait a second more than needed.
THEOREM RetryIsAlwaysTight == Spec => []RetryIsTight
<1>1. LimiterInv => RetryIsTight
  BY RetryFacts DEF LimiterInv, RetryIsTight
<1> QED
  BY <1>1, LimiterInvAlways, PTL
=============================================================================
