-------------------------- MODULE CopaSenderProofs --------------------------
(***************************************************************************)
(* Proofs about CopaSender, for every segment size, window, word size, set *)
(* of RTTs and number of packets.                                          *)
(***************************************************************************)
EXTENDS CopaSender, WindowedFilterProofs, TLAPS

\* A filter as the updates leave it at time t.
InOrder(e, t) == e \in Filter /\ Ordered(e) /\ e[2].time <= t

VelocityState ==
    [velocity : Nat, direction : {"None", "Up", "Down"}, numTimesDirectionSame : Nat,
     lastRecordedCwndBytes : Nat, lastCwndRecordTime : Nat]

\* The inductive invariant: the window is above its minimum, so the unsigned
\* difference to it does not wrap; both filters are in order, so the best of
\* each is a sample and no later one is below it.
IInv ==
    /\ WindowAboveMinimum /\ congestion_window_ \in Nat
    /\ ChecksHold
    /\ velocityState_ \in VelocityState /\ VelocityIsEarned
    /\ InOrder(minRTTFilter_, now) /\ InOrder(standingRTTFilter_, now)
    /\ now \in Nat /\ smoothed_rtt \in Nat

-----------------------------------------------------------------------------
\* A window of n packets is at least the minimum when n is at least four.
LEMMA FourPackets ==
    ASSUME NEW n \in Nat, n >= 4
    PROVE  n * MSS \in Nat /\ n * MSS >= MinWindow
  <1>1. PICK k \in Nat : n = 4 + k
    <2>1. n - 4 \in Nat /\ n = 4 + (n - 4)
      OBVIOUS
    <2> QED
      BY <2>1
  <1>2. n * MSS = 4 * MSS + k * MSS /\ k * MSS \in Nat
    BY <1>1, CopaAssumption
  <1> QED
    BY <1>2, CopaAssumption DEF MinWindow

\* The remainder of a natural number is a natural number no larger than it.
LEMMA RemainderIsNat ==
    ASSUME NEW m \in Nat, NEW n \in Nat \ {0}
    PROVE  m % n \in Nat /\ m % n <= m /\ m % n < n
  <1>1. m % n \in 0 .. n - 1
    OBVIOUS
  <1>2. CASE m < n
    BY <1>2
  <1>3. CASE m >= n
    BY <1>1, <1>3
  <1> QED
    BY <1>1, <1>2, <1>3

\* What acknowledged packets are worth is never negative.
LEMMA ChangeIsNat ==
    ASSUME IInv, NEW n \in Nat, NEW v, v.velocity \in Nat
    PROVE  Change(n, v) \in Nat
  <1>1. /\ MSS \in Nat /\ Limit \in Nat \ {0} /\ congestion_window_ \in Nat
        /\ congestion_window_ > 0
    BY CopaAssumption DEF IInv, WindowAboveMinimum, MinWindow
  <1>2. n * MSS * MSS * v.velocity \in Nat
    <2>1. n * MSS \in Nat
      BY <1>1
    <2>2. n * MSS * MSS \in Nat
      BY <1>1, <2>1
    <2> QED
      BY <1>1, <2>2
  <1> DEFINE product == n * MSS * MSS * v.velocity
  <1>3. product % Limit \in Nat
    BY <1>1, <1>2, RemainderIsNat
  <1> DEFINE twice == 2 * (product % Limit)
  <1>4. twice \in Nat
    BY <1>3
  <1>5. twice \div congestion_window_ \in Nat
    <2> HIDE DEF twice
    <2> QED
      BY <1>1, <1>4, QuotientIsNat
  <1> QED
    BY <1>5 DEF Change

\* The function Doublings exists: so far as any number n, and there is only one.
IsDoubling(g, n) == g = [k \in 0 .. n |-> IF k = 0 THEN 1 ELSE 2 * g[k - 1]]

\* Two such functions agree wherever both are defined.
LEMMA DoublingIsUnique ==
    ASSUME NEW g, NEW m \in Nat, IsDoubling(g, m), NEW h, NEW n \in Nat, IsDoubling(h, n),
           NEW k \in Nat, k <= m, k <= n
    PROVE  g[k] = h[k]
  <1> DEFINE bad == {i \in 0 .. k : g[i] # h[i]}
  <1> SUFFICES ASSUME bad # {} PROVE FALSE
    OBVIOUS
  <1>1. PICK i \in bad : \A u \in bad : i <= u
    <2>1. bad \in SUBSET Nat
      OBVIOUS
    <2> HIDE DEF bad
    <2> QED
      BY <2>1, LeastExists
  <1>2. i \in 0 .. k /\ g[i] # h[i]
    OBVIOUS
  <1>3. i # 0
    BY <1>2 DEF IsDoubling
  <1>4. i - 1 \in 0 .. k /\ ~(i <= i - 1)
    BY <1>2, <1>3
  <1>5. i - 1 \notin bad
    <2> HIDE DEF bad
    <2> QED
      BY <1>1, <1>4
  <1>6. g[i - 1] = h[i - 1]
    BY <1>4, <1>5
  <1> QED
    BY <1>2, <1>3, <1>6 DEF IsDoubling

\* There is one for every n, and its values are natural numbers.
LEMMA DoublingExists ==
    ASSUME NEW n \in Nat
    PROVE  \E g : IsDoubling(g, n) /\ \A k \in 0 .. n : g[k] \in Nat
  <1> DEFINE Good(k) == \E g : IsDoubling(g, k) /\ \A i \in 0 .. k : g[i] \in Nat
             bad == {k \in Nat : ~Good(k)}
  <1> SUFFICES ASSUME bad # {} PROVE FALSE
    BY Zenon
  <1>1. PICK k \in bad : \A u \in bad : k <= u
    <2>1. bad \in SUBSET Nat
      OBVIOUS
    <2> HIDE DEF bad
    <2> QED
      BY <2>1, LeastExists
  <1>2. k \in Nat /\ ~Good(k)
    OBVIOUS
  <1>3. k # 0
    <2>1. IsDoubling([i \in 0 .. 0 |-> 1], 0)
      BY DEF IsDoubling
    <2> QED
      BY <1>2, <2>1
  <1>4. k - 1 \in Nat /\ ~(k <= k - 1)
    BY <1>2, <1>3
  <1>5. k - 1 \notin bad
    <2> HIDE DEF bad
    <2> QED
      BY <1>1, <1>4
  <1>6. PICK g : IsDoubling(g, k - 1) /\ \A i \in 0 .. k - 1 : g[i] \in Nat
    BY <1>4, <1>5
  <1> DEFINE h == [i \in 0 .. k |-> IF i = k THEN 2 * g[k - 1] ELSE g[i]]
  <1>7. ASSUME NEW i \in 0 .. k
        PROVE  h[i] = (IF i = 0 THEN 1 ELSE 2 * h[i - 1]) /\ h[i] \in Nat
    <2>1. CASE i = k
      <3>1. h[i] = 2 * g[k - 1]
        BY <2>1
      <3>2. k - 1 \in 0 .. k /\ k - 1 # k /\ k - 1 \in 0 .. k - 1
        BY <1>2, <1>4
      <3>3. h[k - 1] = g[k - 1] /\ g[k - 1] \in Nat
        BY <1>6, <3>2
      <3> QED
        BY <1>3, <2>1, <3>1, <3>3
    <2>2. CASE i # k
      <3>1. i \in 0 .. k - 1
        BY <1>2, <2>2
      <3>2. h[i] = g[i] /\ g[i] \in Nat
        BY <1>6, <2>2, <3>1
      <3>3. g[i] = IF i = 0 THEN 1 ELSE 2 * g[i - 1]
        BY <1>6, <3>1 DEF IsDoubling
      <3>4. i # 0 => h[i - 1] = g[i - 1]
        BY <1>2, <3>1
      <3> QED
        BY <3>2, <3>3, <3>4
    <2> QED
      BY <2>1, <2>2
  <1>8. IsDoubling(h, k)
    BY <1>7 DEF IsDoubling
  <1> QED
    BY <1>2, <1>7, <1>8

\* What Doublings computes.
LEMMA DoublingsStep ==
    /\ Doublings[0] = 1
    /\ \A n \in Nat : Doublings[n] \in Nat /\ Doublings[n + 1] = 2 * Doublings[n]
  <1> DEFINE Of(n) == CHOOSE g : IsDoubling(g, n) /\ \A k \in 0 .. n : g[k] \in Nat
             all == [n \in Nat |-> Of(n)[n]]
  <1>1. \A n \in Nat : IsDoubling(Of(n), n) /\ \A k \in 0 .. n : Of(n)[k] \in Nat
    BY DoublingExists, Zenon
  <1> HIDE DEF Of
  <1>2. ASSUME NEW n \in Nat
        PROVE  all[n] = (IF n = 0 THEN 1 ELSE 2 * all[n - 1]) /\ all[n] \in Nat
    <2>1. all[n] = Of(n)[n] /\ n \in 0 .. n
      OBVIOUS
    <2>2. Of(n)[n] = IF n = 0 THEN 1 ELSE 2 * Of(n)[n - 1]
      BY <1>1, <2>1 DEF IsDoubling
    <2>3. n # 0 => Of(n)[n - 1] = all[n - 1]
      <3> SUFFICES ASSUME n # 0 PROVE Of(n)[n - 1] = all[n - 1]
        OBVIOUS
      <3>1. n - 1 \in Nat /\ n - 1 <= n /\ n - 1 <= n - 1
        OBVIOUS
      <3>2. Of(n)[n - 1] = Of(n - 1)[n - 1]
        BY <1>1, <3>1, DoublingIsUnique
      <3> QED
        BY <3>1, <3>2
    <2> QED
      BY <1>1, <2>1, <2>2, <2>3
  <1>3. all = [n \in Nat |-> IF n = 0 THEN 1 ELSE 2 * all[n - 1]]
    BY <1>2
  <1>4. \E f : f = [n \in Nat |-> IF n = 0 THEN 1 ELSE 2 * f[n - 1]]
    BY <1>3, Zenon
  <1> HIDE DEF all
  <1>5. Doublings = [n \in Nat |-> IF n = 0 THEN 1 ELSE 2 * Doublings[n - 1]]
    BY <1>4, Zenon DEF Doublings
  <1>6. \A n \in Nat : Doublings[n] = IF n = 0 THEN 1 ELSE 2 * Doublings[n - 1]
    BY <1>5
  <1> HIDE DEF Doublings
  <1>7. \A n \in Nat : Doublings[n + 1] = 2 * Doublings[n]
    BY <1>6
  <1> DEFINE bad == {n \in Nat : Doublings[n] \notin Nat}
  <1>8. bad = {}
    <2> SUFFICES ASSUME bad # {} PROVE FALSE
      OBVIOUS
    <2>1. PICK k \in bad : \A u \in bad : k <= u
      <3>1. bad \in SUBSET Nat
        OBVIOUS
      <3> HIDE DEF bad
      <3> QED
        BY <3>1, LeastExists
    <2>2. k \in Nat /\ Doublings[k] \notin Nat
      OBVIOUS
    <2>3. k # 0
      BY <1>6, <2>2
    <2>4. k - 1 \in Nat /\ ~(k <= k - 1)
      BY <2>2, <2>3
    <2>5. k - 1 \notin bad
      <3> HIDE DEF bad
      <3> QED
        BY <2>1, <2>4
    <2>6. Doublings[k - 1] \in Nat
      BY <2>4, <2>5
    <2> QED
      BY <1>6, <2>2, <2>3, <2>6
  <1> QED
    BY <1>6, <1>7, <1>8

\* A number is known by its quotient and its remainder.
LEMMA RemainderOf ==
    ASSUME NEW q \in Nat, NEW r \in Nat, NEW n \in Nat \ {0}, r < n
    PROVE  (n * q + r) % n = r
  <1> DEFINE x == n * q + r
             d == x \div n
             e == x % n
  <1>1. n * q \in Nat /\ x \in Nat
    OBVIOUS
  <1>2. d \in Nat /\ e \in Nat /\ e < n /\ x = n * d + e
    <2> HIDE DEF x
    <2>1. d \in Nat
      BY <1>1, QuotientIsNat
    <2>2. e \in 0 .. n - 1
      BY <1>1
    <2>3. x = n * d + e
      BY <1>1
    <2> QED
      BY <2>1, <2>2, <2>3
  <1>3. n * q + r = n * d + e
    BY <1>2
  <1> HIDE DEF d, e
  <1>4. \A a, b \in Nat : a < b => n * a + n <= n * b
    <2> SUFFICES ASSUME NEW a \in Nat, NEW b \in Nat, a < b PROVE n * a + n <= n * b
      OBVIOUS
    <2>1. PICK c \in Nat : b = a + 1 + c
      <3>1. b - a - 1 \in Nat /\ b = a + 1 + (b - a - 1)
        OBVIOUS
      <3> QED
        BY <3>1
    <2>2. n * b = n * a + n + n * c /\ n * c \in Nat /\ n * a \in Nat
      BY <2>1
    <2> QED
      BY <2>2
  <1>5. n * q \in Nat /\ n * d \in Nat
    BY <1>2
  <1>6. ~(q < d)
    <2> SUFFICES ASSUME n * q + n <= n * d PROVE FALSE
      BY <1>2, <1>4
    <2> QED
      BY <1>2, <1>3, <1>5
  <1>7. ~(d < q)
    <2> SUFFICES ASSUME n * d + n <= n * q PROVE FALSE
      BY <1>2, <1>4
    <2> QED
      BY <1>2, <1>3, <1>5
  <1>8. q = d
    BY <1>2, <1>6, <1>7
  <1>9. e = r
    BY <1>2, <1>3, <1>5, <1>8
  <1> QED
    BY <1>9 DEF e

\* Doubling a remainder loses nothing of the remainder.
LEMMA TwiceRemainder ==
    ASSUME NEW a \in Nat, NEW n \in Nat \ {0}
    PROVE  (2 * (a % n)) % n = (2 * a) % n
  <1> DEFINE q == a \div n
             r == a % n
             p == (2 * r) \div n
             t == (2 * r) % n
  <1>1. q \in Nat /\ r \in Nat /\ a = n * q + r
    <2>1. q \in Nat
      BY QuotientIsNat
    <2>2. r \in 0 .. n - 1
      OBVIOUS
    <2>3. a = n * q + r
      OBVIOUS
    <2> QED
      BY <2>1, <2>2, <2>3
  <1> HIDE DEF q, r
  <1>2. p \in Nat /\ t \in Nat /\ t < n /\ 2 * r = n * p + t
    <2>0. 2 * r \in Nat
      BY <1>1
    <2>1. p \in Nat
      BY <2>0, QuotientIsNat
    <2>2. t \in 0 .. n - 1
      BY <2>0
    <2>3. 2 * r = n * p + t
      BY <2>0
    <2> QED
      BY <2>1, <2>2, <2>3
  <1> HIDE DEF p, t
  <1>3. 2 * a = n * (2 * q + p) + t /\ 2 * q + p \in Nat
    <2>1. n * (2 * q + p) = 2 * (n * q) + n * p
      BY <1>1, <1>2
    <2>2. n * q \in Nat /\ n * p \in Nat
      BY <1>1, <1>2
    <2> QED
      BY <1>1, <1>2, <2>1, <2>2
  <1>4. (2 * a) % n = t
    BY <1>2, <1>3, RemainderOf, Zenon
  <1> QED
    BY <1>4 DEF t, r

-----------------------------------------------------------------------------
\* The velocity after so many RTTs in one direction.
VelocityOf(same) == IF same < 3 THEN 1 ELSE Doublings[same - 2] % Limit

Earned(v) ==
    /\ v \in VelocityState
    /\ v.velocity = VelocityOf(v.numTimesDirectionSame)
    /\ v.numTimesDirectionSame > 0 => v.direction # "None"

\* One more RTT in the same direction earns the next velocity.
LEMMA NextVelocity ==
    ASSUME NEW same \in Nat
    PROVE  /\ VelocityAfterRtt(VelocityOf(same), same + 1) = VelocityOf(same + 1)
           /\ VelocityOf(same + 1) \in Nat
  <1>0. Limit \in Nat \ {0}
    BY CopaAssumption
  <1>1. CASE same < 2
    <2>1. same < 3 /\ same + 1 < 3 /\ ~(same + 1 >= 3)
      BY <1>1
    <2> QED
      BY <2>1 DEF VelocityAfterRtt, VelocityOf
  <1>2. CASE same = 2
    <2>1. Doublings[1] = 2
      <3>1. Doublings[0 + 1] = 2 * Doublings[0] /\ Doublings[0] = 1
        BY DoublingsStep
      <3> QED
        BY <3>1
    <2>2. VelocityOf(2) = 1 /\ VelocityOf(3) = 2 % Limit
      BY <2>1 DEF VelocityOf
    <2>3. VelocityAfterRtt(1, 3) = 2 % Limit
      BY DEF VelocityAfterRtt
    <2>4. 2 % Limit \in Nat
      BY <1>0, RemainderIsNat
    <2> QED
      BY <1>2, <2>2, <2>3, <2>4
  <1>3. CASE same > 2
    <2> DEFINE k == same - 2
    <2>1. k \in Nat /\ (same + 1) - 2 = k + 1 /\ ~(same < 3) /\ ~(same + 1 < 3) /\ same + 1 >= 3
      BY <1>3
    <2>2. Doublings[k] \in Nat /\ Doublings[k + 1] = 2 * Doublings[k]
      BY <2>1, DoublingsStep
    <2>3. VelocityOf(same) = Doublings[k] % Limit
      BY <2>1 DEF VelocityOf
    <2>4. VelocityOf(same + 1) = (2 * Doublings[k]) % Limit
      BY <2>1, <2>2 DEF VelocityOf
    <2>5. (2 * (Doublings[k] % Limit)) % Limit = (2 * Doublings[k]) % Limit
      BY <1>0, <2>2, TwiceRemainder
    <2>6. (2 * Doublings[k]) % Limit \in Nat
      BY <1>0, <2>2, RemainderIsNat
    <2> HIDE DEF k
    <2> QED
      BY <2>1, <2>3, <2>4, <2>5, <2>6 DEF VelocityAfterRtt
  <1> QED
    BY <1>1, <1>2, <1>3

\* CheckAndUpdateDirection leaves an earned velocity.
LEMMA CheckIsEarned ==
    ASSUME NEW v, Earned(v), now \in Nat, congestion_window_ \in Nat, NEW srtt
    PROVE  Earned(CheckAndUpdateDirection(v, srtt))
  <1> DEFINE c == CheckAndUpdateDirection(v, srtt)
             same == v.numTimesDirectionSame
             up == congestion_window_ > v.lastRecordedCwndBytes
  <1>1. /\ v \in VelocityState /\ same \in Nat /\ v.velocity = VelocityOf(same)
        /\ same > 0 => v.direction # "None"
    BY DEF Earned, VelocityState
  <1>2. /\ VelocityAfterRtt(v.velocity, same + 1) = VelocityOf(same + 1)
        /\ VelocityOf(same + 1) \in Nat
    BY <1>1, NextVelocity
  <1>3. \/ c = v
        \/ /\ c \in VelocityState
           /\ c.velocity = v.velocity /\ c.numTimesDirectionSame = same
           /\ c.direction = v.direction
        \/ /\ c \in VelocityState
           /\ c.velocity = 1 /\ c.numTimesDirectionSame = 0
        \/ /\ c \in VelocityState /\ v.direction \in {"Up", "Down"}
           /\ c.velocity = VelocityOf(same + 1) /\ c.numTimesDirectionSame = same + 1
           /\ c.direction = v.direction
    <2> HIDE DEF same
    <2>1. CASE v.lastCwndRecordTime = None
      BY <1>1, <2>1, Zenon DEF CheckAndUpdateDirection, VelocityState, same
    <2>2. CASE v.lastCwndRecordTime # None /\ now - v.lastCwndRecordTime < srtt
      BY <2>2 DEF CheckAndUpdateDirection
    <2>3. CASE v.lastCwndRecordTime # None /\ ~(now - v.lastCwndRecordTime < srtt)
      <3> DEFINE direction == IF up THEN "Up" ELSE "Down"
      <3>1. direction \in {"Up", "Down"}
        OBVIOUS
      <3>2. c = IF direction # v.direction
                 THEN [v EXCEPT !.lastCwndRecordTime = now,
                                !.lastRecordedCwndBytes = congestion_window_,
                                !.direction = direction, !.velocity = 1,
                                !.numTimesDirectionSame = 0]
                 ELSE [v EXCEPT !.lastCwndRecordTime = now,
                                !.lastRecordedCwndBytes = congestion_window_,
                                !.velocity = VelocityOf(same + 1),
                                !.numTimesDirectionSame = same + 1]
        BY <1>1, <1>2, <2>3, Zenon DEF CheckAndUpdateDirection, VelocityState, same
      <3>3. same + 1 \in Nat
        BY <1>1
      <3> HIDE DEF direction, c
      <3>4. CASE direction # v.direction
        <4>1. c \in VelocityState /\ c.velocity = 1 /\ c.numTimesDirectionSame = 0
          BY <1>1, <3>1, <3>2, <3>4, Zenon DEF VelocityState
        <4> QED
          BY <4>1
      <3>5. CASE direction = v.direction
        <4>1. /\ c \in VelocityState /\ v.direction \in {"Up", "Down"}
              /\ c.velocity = VelocityOf(same + 1) /\ c.numTimesDirectionSame = same + 1
              /\ c.direction = v.direction
          BY <1>1, <1>2, <3>1, <3>2, <3>3, <3>5, Zenon DEF VelocityState
        <4> QED
          BY <4>1
      <3> QED
        BY <3>4, <3>5
    <2> QED
      BY <2>1, <2>2, <2>3
  <1>4. VelocityOf(0) = 1
    BY DEF VelocityOf
  <1>5. Earned(c)
    <2> HIDE DEF c
    <2> QED
      BY <1>1, <1>3, <1>4 DEF Earned
  <1> QED
    BY <1>5

\* Turn leaves an earned velocity, and one above 1 only in its own direction.
LEMMA TurnIsEarned ==
    ASSUME NEW v, Earned(v), now \in Nat, congestion_window_ \in Nat,
           NEW direction \in {"Up", "Down"}
    PROVE  /\ Earned(Turn(v, direction))
           /\ Turn(v, direction).velocity > 1 => Turn(v, direction).direction = direction
  <1> DEFINE t == Turn(v, direction)
  <1>1. CASE v.direction # direction /\ v.velocity > 1
    <2>1. t = [velocity |-> 1, direction |-> direction, numTimesDirectionSame |-> 0,
               lastRecordedCwndBytes |-> congestion_window_, lastCwndRecordTime |-> now]
      BY <1>1 DEF Turn, ChangeDirection
    <2>2. t \in VelocityState /\ t.velocity = 1 /\ t.numTimesDirectionSame = 0
      BY <2>1 DEF VelocityState
    <2> HIDE DEF t
    <2>3. Earned(t) /\ ~(t.velocity > 1)
      BY <2>2 DEF Earned, VelocityOf
    <2> QED
      BY <2>3 DEF t
  <1>2. CASE ~(v.direction # direction /\ v.velocity > 1)
    <2>1. t = v
      BY <1>2 DEF Turn
    <2> QED
      BY <1>2, <2>1
  <1> QED
    BY <1>1, <1>2

-----------------------------------------------------------------------------
\* A sample that enters a filter leaves it in order, with a best estimate
\* that is a sample and not above the new one.
LEMMA FilterIsSound ==
    ASSUME NEW e, NEW t \in Nat, InOrder(e, t), NEW w \in Nat, NEW s \in Nat \ {0}
    PROVE  LET f == UpdateFilter(e, w, s, t)
           IN  /\ InOrder(f, t)
               /\ GetBest(f) \in Nat /\ GetBest(f) > 0 /\ GetBest(f) <= s
  <1> DEFINE f == UpdateFilter(e, w, s, t)
  <1>1. /\ f \in Filter /\ Ordered(f) /\ f[2].time <= t
        /\ \/ f[0] = Sample(s, t)
           \/ e[0].sample # ZeroValue /\ \E j \in 0 .. 2 : f[0] = e[j] /\ s > e[j].sample
        /\ f[0].sample <= s
    BY UpdateKeepsOrTakes DEF InOrder, ZeroValue
  <1> HIDE DEF f
  <1>2. \A j \in 0 .. 2 : e[j].sample \in Nat /\ e[0].sample <= e[j].sample
    BY DEF InOrder, Filter, Ordered
  <1>3. f[0].sample \in Nat /\ f[0].sample > 0
    <2>1. CASE f[0] = Sample(s, t)
      BY <2>1 DEF Sample
    <2>2. CASE e[0].sample # ZeroValue /\ \E j \in 0 .. 2 : f[0] = e[j] /\ s > e[j].sample
      <3>1. PICK j \in 0 .. 2 : f[0] = e[j]
        BY <2>2
      <3>2. e[0].sample \in Nat /\ e[0].sample # 0
        BY <1>2, <2>2 DEF ZeroValue
      <3> QED
        BY <1>2, <3>1, <3>2
    <2> QED
      BY <1>1, <2>1, <2>2
  <1>4. InOrder(f, t) /\ GetBest(f) \in Nat /\ GetBest(f) > 0 /\ GetBest(f) <= s
    BY <1>1, <1>3 DEF InOrder, GetBest
  <1> QED
    BY <1>4 DEF f

\* What IInv says of the velocity.
LEMMA VelocityParts ==
    IInv <=> /\ WindowAboveMinimum /\ congestion_window_ \in Nat
             /\ ChecksHold
             /\ Earned(velocityState_)
             /\ isSlowStart_ => velocityState_ = NewVelocity
             /\ velocityState_.velocity > 1 =>
                  /\ move = "up" => velocityState_.direction = "Up"
                  /\ move = "down" => velocityState_.direction = "Down"
             /\ InOrder(minRTTFilter_, now) /\ InOrder(standingRTTFilter_, now)
             /\ now \in Nat /\ smoothed_rtt \in Nat
  BY Zenon DEF IInv, Earned, VelocityOf, VelocityIsEarned

\* The initial state.
LEMMA InitSound == Init => IInv
  <1> SUFFICES ASSUME Init PROVE IInv
    OBVIOUS
  <1>1. WindowAboveMinimum /\ congestion_window_ \in Nat
    BY FourPackets, CopaAssumption DEF Init, WindowAboveMinimum
  <1>2. ChecksHold /\ now \in Nat /\ smoothed_rtt \in Nat
    BY DEF Init, ChecksHold
  <1>3. velocityState_ = NewVelocity /\ Earned(NewVelocity) /\ ~(NewVelocity.velocity > 1)
    BY DEF Init, NewVelocity, Earned, VelocityOf, VelocityState, None
  <1>4. InOrder(NewFilter, now)
    <2>1. NewFilter \in Filter /\ \A k \in 0 .. 2 : NewFilter[k] = Sample(0, 0)
      BY DEF NewFilter, Filter, Sample, ZeroValue
    <2>2. Sample(0, 0).sample = 0 /\ Sample(0, 0).time = 0
      BY DEF Sample
    <2> QED
      BY <2>1, <2>2 DEF Init, InOrder, Ordered
  <1>5. minRTTFilter_ = NewFilter /\ standingRTTFilter_ = NewFilter
    BY DEF Init
  <1> QED
    BY <1>1, <1>2, <1>3, <1>4, <1>5, VelocityParts, Zenon

\* SetInitialCongestionWindowInPackets asks for four packets at least.
LEMMA SetInitialSound ==
    ASSUME IInv, NEW n \in InitialWindows, SetInitialCongestionWindowInPackets(n)
    PROVE  IInv'
  <1>1. n \in Nat /\ n >= 4
    BY CopaAssumption
  <1>2. congestion_window_' \in Nat /\ congestion_window_' >= MinWindow
    BY <1>1, FourPackets DEF SetInitialCongestionWindowInPackets
  <1>3. /\ UNCHANGED <<velocityState_, isSlowStart_, move, minRTTFilter_, standingRTTFilter_,
                       now, smoothed_rtt, fault>>
    BY DEF SetInitialCongestionWindowInPackets, filters, rtt_stats_
  <1> QED
    BY <1>2, <1>3, Zenon DEF IInv, WindowAboveMinimum, MinWindow, ChecksHold, VelocityIsEarned, InOrder

\* Sending a packet and the passing of time touch nothing the invariant reads
\* but the clock.
LEMMA SentSound ==
    ASSUME IInv, OnPacketSent
    PROVE  IInv'
  <1>1. /\ UNCHANGED <<congestion_window_, velocityState_, isSlowStart_, move, minRTTFilter_,
                       standingRTTFilter_, now, smoothed_rtt, fault>>
    BY DEF OnPacketSent, filters, rtt_stats_, window
  <1> QED
    BY <1>1, Zenon DEF IInv, WindowAboveMinimum, ChecksHold, VelocityIsEarned, InOrder

\* A filter in order stays in order when time passes.
LEMMA AdvanceSound ==
    ASSUME IInv, Advance
    PROVE  IInv'
  <1>1. /\ UNCHANGED <<congestion_window_, velocityState_, isSlowStart_, move, minRTTFilter_,
                       standingRTTFilter_, smoothed_rtt, fault>>
    BY DEF Advance, filters, rtt_stats_, window
  <1>2. now \in Nat /\ now' = now + 1 /\ now' \in Nat
    BY DEF IInv, Advance
  <1>3. InOrder(minRTTFilter_', now') /\ InOrder(standingRTTFilter_', now')
    <2>1. ASSUME NEW e, InOrder(e, now)
          PROVE  InOrder(e, now')
      <3>1. e[2].time \in Nat
        BY <2>1 DEF InOrder, Filter
      <3> QED
        BY <1>2, <2>1, <3>1 DEF InOrder
    <2> QED
      BY <1>1, <2>1 DEF IInv
  <1> QED
    BY <1>1, <1>2, <1>3, Zenon DEF IInv, WindowAboveMinimum, ChecksHold, VelocityIsEarned, InOrder

\* Bytes added to the window, or an overflow found, keep it above the minimum.
LEMMA AddSound ==
    ASSUME IInv, NEW bytes \in Nat, AddToWindow(bytes)
    PROVE  /\ congestion_window_' \in Nat /\ congestion_window_' >= MinWindow
           /\ ChecksHold'
  <1>1. congestion_window_ \in Nat /\ congestion_window_ >= MinWindow /\ MinWindow \in Nat
    BY CopaAssumption DEF IInv, WindowAboveMinimum, MinWindow
  <1>2. congestion_window_' = congestion_window_ \/ congestion_window_' = congestion_window_ + bytes
    BY DEF AddToWindow
  <1>3. ChecksHold'
    BY Zenon DEF IInv, ChecksHold, AddToWindow
  <1> QED
    BY <1>1, <1>2, <1>3

\* What the velocity state is once the direction was checked and turned.
LEMMA AppliedVelocity ==
    ASSUME IInv, NEW srtt, NEW direction \in {"Up", "Down"}
    PROVE  LET v == Turn(CheckAndUpdateDirection(velocityState_, srtt), direction)
           IN  /\ Earned(v) /\ v.velocity \in Nat
               /\ v.velocity > 1 => v.direction = direction
  <1>1. Earned(velocityState_) /\ now \in Nat /\ congestion_window_ \in Nat
    BY VelocityParts
  <1> DEFINE c == CheckAndUpdateDirection(velocityState_, srtt)
             t == Turn(c, direction)
  <1>2. Earned(c)
    BY <1>1, CheckIsEarned
  <1> HIDE DEF c
  <1>3. Earned(t) /\ (t.velocity > 1 => t.direction = direction)
    BY <1>1, <1>2, TurnIsEarned
  <1> HIDE DEF t
  <1>4. t.velocity \in Nat
    BY <1>3 DEF Earned, VelocityState
  <1> QED
    BY <1>3, <1>4 DEF t, c

\* What a move of the window keeps: every conjunct of the invariant but the
\* filters and the clock.
MoveSound ==
    /\ congestion_window_' \in Nat /\ congestion_window_' >= MinWindow
    /\ ChecksHold'
    /\ Earned(velocityState_')
    /\ isSlowStart_' => velocityState_' = NewVelocity
    /\ velocityState_'.velocity > 1 =>
         /\ move' = "up" => velocityState_'.direction = "Up"
         /\ move' = "down" => velocityState_'.direction = "Down"

\* Slow start leaves the velocity alone.
LEMMA DoubleSound ==
    ASSUME IInv, NEW srtt, DoubleWindow(srtt)
    PROVE  MoveSound
  <1>1. /\ Earned(velocityState_)
        /\ isSlowStart_ => velocityState_ = NewVelocity
        /\ congestion_window_ \in Nat /\ congestion_window_ >= MinWindow /\ ChecksHold
    BY VelocityParts DEF WindowAboveMinimum
  <1>2. velocityState_' = velocityState_ /\ isSlowStart_' = isSlowStart_ /\ move' = "double"
    BY DEF DoubleWindow
  <1>3. congestion_window_' \in Nat /\ congestion_window_' >= MinWindow /\ ChecksHold'
    <2>1. CASE AddToWindow(congestion_window_)
      BY <1>1, <2>1, AddSound
    <2>2. CASE UNCHANGED <<congestion_window_, fault>>
      BY <1>1, <2>2, Zenon DEF ChecksHold
    <2> QED
      BY <2>1, <2>2 DEF DoubleWindow
  <1> QED
    BY <1>1, <1>2, <1>3 DEF MoveSound

\* An increase applies a velocity that was earned going up.
LEMMA IncreaseSound ==
    ASSUME IInv, ~isSlowStart_, NEW n \in Nat, NEW srtt, Increase(n, srtt)
    PROVE  MoveSound
  <1> DEFINE v == Turn(CheckAndUpdateDirection(velocityState_, srtt), "Up")
  <1>1. Earned(v) /\ v.velocity \in Nat /\ (v.velocity > 1 => v.direction = "Up")
    BY AppliedVelocity
  <1>2. /\ velocityState_' = v /\ move' = "up" /\ isSlowStart_' = isSlowStart_
        /\ AddToWindow(Change(n, v))
    BY DEF Increase
  <1> HIDE DEF v
  <1>3. Change(n, v) \in Nat
    BY <1>1, ChangeIsNat
  <1>4. congestion_window_' \in Nat /\ congestion_window_' >= MinWindow /\ ChecksHold'
    BY <1>2, <1>3, AddSound
  <1> QED
    BY <1>1, <1>2, <1>4, Zenon DEF MoveSound

\* A decrease takes no more than what is above the minimum: the window is not
\* below it, so the unsigned difference is the true one or smaller.
LEMMA DecreaseSound ==
    ASSUME IInv, NEW n \in Nat, NEW srtt, Decrease(n, srtt)
    PROVE  MoveSound
  <1> DEFINE v == Turn(CheckAndUpdateDirection(velocityState_, srtt), "Down")
             r == Reduction(n, v)
  <1>1. Earned(v) /\ v.velocity \in Nat /\ (v.velocity > 1 => v.direction = "Down")
    BY AppliedVelocity
  <1>2. /\ velocityState_' = v /\ move' = "down" /\ isSlowStart_' = FALSE
        /\ IF congestion_window_ < r
             THEN fault' = "underflow" /\ UNCHANGED congestion_window_
             ELSE congestion_window_' = congestion_window_ - r /\ UNCHANGED fault
    BY Zenon DEF Decrease
  <1> HIDE DEF v
  <1>3. Change(n, v) \in Nat
    BY <1>1, ChangeIsNat
  <1>4. congestion_window_ \in Nat /\ congestion_window_ >= MinWindow /\ MinWindow \in Nat
    BY CopaAssumption DEF IInv, WindowAboveMinimum, MinWindow
  <1>5. r \in Nat /\ r <= congestion_window_ - MinWindow
    <2> DEFINE room == congestion_window_ - MinWindow
    <2>1. room \in Nat
      BY <1>4
    <2>2. Limit \in Nat \ {0}
      BY CopaAssumption
    <2> HIDE DEF room
    <2>3. room % Limit \in Nat /\ room % Limit <= room
      BY <2>1, <2>2, RemainderIsNat
    <2>4. r = Smaller(Change(n, v), room % Limit)
      BY DEF Reduction, room
    <2> HIDE DEF r
    <2>5. r \in Nat /\ r <= room
      BY <1>3, <2>1, <2>3, <2>4 DEF Smaller
    <2> QED
      BY <2>5 DEF room
  <1> HIDE DEF r
  <1>6. congestion_window_' = congestion_window_ - r /\ UNCHANGED fault
    BY <1>2, <1>4, <1>5
  <1>7. congestion_window_' \in Nat /\ congestion_window_' >= MinWindow
    BY <1>4, <1>5, <1>6
  <1>8. ChecksHold'
    BY <1>6, Zenon DEF IInv, ChecksHold
  <1> QED
    BY <1>1, <1>2, <1>7, <1>8, Zenon DEF MoveSound

\* An event: both filters take the sample, so the delay is not negative and
\* the standing RTT not zero, and the window makes one of the three moves.
LEMMA EventSound ==
    ASSUME IInv, NEW acked, NEW n \in Nat, NEW lost, NEW rtt \in Rtts,
           NEW srtt \in Rtts \cup {smoothed_rtt}, OnCongestionEvent(acked, n, lost, rtt, srtt)
    PROVE  IInv'
  <1>1. rtt \in Nat \ {0} /\ srtt \in Nat /\ now \in Nat /\ MinRttWindow \in Nat
    BY CopaAssumption, Zenon DEF IInv
  <1>2. srtt \div 2 \in Nat
    BY <1>1, QuotientIsNat
  <1>3. /\ InOrder(minRTTFilter_', now) /\ GetBest(minRTTFilter_') \in Nat
        /\ GetBest(minRTTFilter_') <= rtt
    <2>1. minRTTFilter_' = UpdateFilter(minRTTFilter_, MinRttWindow, rtt, now)
      BY DEF OnCongestionEvent, OnPacketAcked
    <2>2. InOrder(minRTTFilter_, now)
      BY DEF IInv
    <2> QED
      BY <1>1, <2>1, <2>2, FilterIsSound
  <1>4. InOrder(standingRTTFilter_', now) /\ GetBest(standingRTTFilter_') # 0
    <2>1. standingRTTFilter_' = UpdateFilter(standingRTTFilter_, srtt \div 2, rtt, now)
      BY DEF OnCongestionEvent, OnPacketAcked
    <2>2. InOrder(standingRTTFilter_, now)
      BY DEF IInv
    <2>3. GetBest(standingRTTFilter_') \in Nat /\ GetBest(standingRTTFilter_') > 0
      BY <1>1, <1>2, <2>1, <2>2, FilterIsSound
    <2>4. InOrder(standingRTTFilter_', now)
      BY <1>1, <1>2, <2>1, <2>2, FilterIsSound
    <2> QED
      BY <2>3, <2>4
  <1>5. MoveSound
    <2> DEFINE delay == rtt - MinRtt
               standing == GetBest(standingRTTFilter_')
    <2>1. ~(delay < 0 \/ standing = 0)
      BY <1>1, <1>3, <1>4 DEF MinRtt
    <2>2. \/ DoubleWindow(srtt)
          \/ ~isSlowStart_ /\ Increase(n, srtt)
          \/ Decrease(n, srtt)
      <3>1. IF delay < 0 \/ standing = 0
              THEN fault' = "check" /\ UNCHANGED window
              ELSE IF IncreaseCwnd(delay, standing)
                THEN IF isSlowStart_ THEN DoubleWindow(srtt) ELSE Increase(n, srtt)
                ELSE Decrease(n, srtt)
        BY Zenon DEF OnCongestionEvent, OnPacketAcked
      <3> HIDE DEF delay, standing
      <3> QED
        BY <2>1, <3>1, Zenon
    <2> QED
      BY <2>2, DoubleSound, IncreaseSound, DecreaseSound
  <1>6. now' = now /\ smoothed_rtt' = srtt
    BY DEF OnCongestionEvent
  <1>7. InOrder(minRTTFilter_', now') /\ InOrder(standingRTTFilter_', now')
    BY <1>3, <1>4, <1>6
  <1> QED
    BY <1>1, <1>5, <1>6, <1>7, Zenon
    DEF MoveSound, IInv, WindowAboveMinimum, MinWindow, Earned, VelocityOf, VelocityIsEarned, InOrder

\* Each step keeps the invariant.
LEMMA NextSound == IInv /\ [Next]_vars => IInv'
  <1> SUFFICES ASSUME IInv, [Next]_vars PROVE IInv'
    OBVIOUS
  <1>1. ASSUME NEW n \in InitialWindows, SetInitialCongestionWindowInPackets(n) PROVE IInv'
    BY <1>1, SetInitialSound
  <1>2. CASE OnPacketSent
    BY <1>2, SentSound
  <1>3. ASSUME NEW acked \in 0 .. largest_sent_packet_number_,
               NEW lost \in 0 .. largest_sent_packet_number_, NEW n \in 0 .. MaxAcked,
               NEW rtt \in Rtts, NEW srtt \in Rtts \cup {smoothed_rtt},
               OnCongestionEvent(acked, n, lost, rtt, srtt)
        PROVE  IInv'
    <2>1. n \in Nat
      BY CopaAssumption
    <2> QED
      BY <1>3, <2>1, EventSound
  <1>4. CASE Advance
    BY <1>4, AdvanceSound
  <1>5. CASE UNCHANGED vars
    BY <1>5, Zenon DEF vars, window, filters, rtt_stats_, IInv, WindowAboveMinimum, ChecksHold,
                       VelocityIsEarned, InOrder
  <1> QED
    BY <1>1, <1>2, <1>3, <1>4, <1>5, Zenon DEF Next

-----------------------------------------------------------------------------
\* The inductive invariant holds in every state.
THEOREM CopaSound == Spec => []IInv
BY InitSound, NextSound, PTL DEF Spec

\* The congestion window never falls below four segments, for any velocity,
\* any word size and any sequence of events.
THEOREM CopaMinimum == Spec => []WindowAboveMinimum
  <1>1. IInv => WindowAboveMinimum
    BY DEF IInv
  <1> QED
    BY <1>1, CopaSound, PTL

\* The two QUICHE_CHECKs of OnPacketAcked and subtractAndCheckUnderflow never
\* fail, for any round trip times.
THEOREM CopaChecks == Spec => []ChecksHold
  <1>1. IInv => ChecksHold
    BY DEF IInv
  <1> QED
    BY <1>1, CopaSound, PTL

\* The velocity is always what the RTTs in one direction earned, modulo the
\* word size, and is applied to a move in that direction only.
THEOREM CopaVelocity == Spec => []VelocityIsEarned
  <1>1. IInv => VelocityIsEarned
    BY DEF IInv
  <1> QED
    BY <1>1, CopaSound, PTL
=============================================================================
