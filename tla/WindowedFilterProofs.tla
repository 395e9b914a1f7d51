------------------------ MODULE WindowedFilterProofs ------------------------
(***************************************************************************)
(* What one Update of a WindowedFilter returns, for any estimates in       *)
(* order, any window and any sample: the facts on which the proofs about   *)
(* the filter and about the senders that use it rest, and the facts about  *)
(* natural numbers that those proofs share.                                *)
(***************************************************************************)
EXTENDS WindowedFilter, WellFoundedInduction, TLAPS

\* A set of natural numbers that is not empty has a least element.
LEMMA LeastExists ==
    ASSUME NEW T \in SUBSET Nat, T # {}
    PROVE  \E t \in T : \A u \in T : t <= u
  <1>1. PICK t \in T : \A u \in T : ~(<<u, t>> \in OpToRel(<, Nat))
    BY NatLessThanWellFounded, WFMin, Zenon
  <1>2. OpToRel(<, Nat) = {p \in Nat \X Nat : p[1] < p[2]}
    BY Zenon DEF OpToRel
  <1>3. \A u \in T : ~(<<u, t>> \in {p \in Nat \X Nat : p[1] < p[2]})
    BY <1>1, <1>2, Zenon
  <1>4. ASSUME NEW u \in T PROVE t <= u
    <2>1. u \in Nat /\ t \in Nat
      BY <1>1, Zenon
    <2>2. ~(u < t)
      BY <1>3, <2>1, Zenon
    <2> QED
      BY <2>1, <2>2
  <1> QED
    BY <1>4

\* The quotient of a natural number by a positive one is a natural number no
\* larger than it.
LEMMA QuotientIsNat ==
    ASSUME NEW m \in Nat, NEW n \in Nat, n > 0
    PROVE  m \div n \in Nat /\ m \div n <= m
  <1>1. m \div n \in Int /\ m \div n >= 0
    OBVIOUS
  <1>2. m \div n <= m
    OBVIOUS
  <1> QED
    BY <1>1, <1>2

-----------------------------------------------------------------------------
Filter == [0 .. 2 -> [sample : Nat, time : Nat]]

Ordered(e) ==
    \A j, k \in 0 .. 2 : j <= k => /\ e[j].sample <= e[k].sample
                                   /\ e[j].time <= e[k].time

\* Every estimate after an update is the new sample or an older estimate that
\* the new sample did not beat, of the same place or a later one.
LEMMA UpdateKeepsOrTakes ==
    ASSUME NEW e \in Filter, NEW w \in Nat, NEW s \in Nat \ {ZeroValue},
           NEW t \in Nat, Ordered(e), e[2].time <= t
    PROVE  LET f == UpdateFilter(e, w, s, t)
           IN  /\ f \in Filter
               /\ Ordered(f)
               /\ f[2].time <= t
               /\ \A k \in 0 .. 2 :
                    \/ f[k] = Sample(s, t)
                    \/ e[0].sample # ZeroValue /\ \E j \in 0 .. 2 : f[k] = e[j] /\ s > e[j].sample
               /\ f[0].sample <= s
               /\ t - f[0].time <= w
  <1> DEFINE new == Sample(s, t)
             b == Better(e, s, t)
             f == UpdateFilter(e, w, s, t)
  <1>1. /\ new \in [sample : Nat, time : Nat] /\ new.sample = s /\ new.time = t
    BY DEF Sample
  <1>2. /\ e[0] \in [sample : Nat, time : Nat]
        /\ e[1] \in [sample : Nat, time : Nat]
        /\ e[2] \in [sample : Nat, time : Nat]
    BY DEF Filter
  <1>3. /\ e[0].sample <= e[1].sample /\ e[1].sample <= e[2].sample
        /\ e[0].time <= e[1].time /\ e[1].time <= e[2].time
    BY DEF Ordered
  <1>4. CASE MustReset(e, w, s, t)
    <2>1. f = [k \in 0 .. 2 |-> new]
      BY <1>4 DEF UpdateFilter, ResetTo
    <2>2. f[0] = new /\ f[1] = new /\ f[2] = new /\ f \in Filter
      BY <1>1, <2>1 DEF Filter
    <2> QED
      BY <1>1, <2>2 DEF Ordered
  <1>5. CASE ~MustReset(e, w, s, t)
    <2>1. /\ e[0].sample # ZeroValue /\ s > e[0].sample
          /\ t - e[2].time <= w
      BY <1>2, <1>5 DEF MustReset
    <2>2. /\ b \in Filter
          /\ b[0] = e[0]
          /\ \/ b[1] = new /\ b[2] = new /\ s <= e[1].sample
             \/ b[1] = e[1] /\ b[2] = new /\ s > e[1].sample /\ s <= e[2].sample
             \/ b[1] = e[1] /\ b[2] = e[2] /\ s > e[1].sample /\ s > e[2].sample
      BY <1>1, <1>2 DEF Better, Filter
    <2> HIDE DEF b, new
    <2>3. CASE t - b[0].time > w
      <3>1. f = Promote(b, w, s, t)
        BY <1>5, <2>3 DEF UpdateFilter, b
      <3>2. /\ f \in Filter
            /\ f[2] = new
            /\ \/ t - b[1].time > w /\ f[0] = b[2] /\ f[1] = new
               \/ ~(t - b[1].time > w) /\ f[0] = b[1] /\ f[1] = b[2]
        BY <1>1, <2>2, <3>1 DEF Promote, Filter, new
      <3> HIDE DEF f
      <3>3. Ordered(f)
        BY <1>1, <1>2, <1>3, <2>1, <2>2, <3>2 DEF Ordered
      <3> QED
        BY <1>1, <1>2, <1>3, <2>1, <2>2, <3>2, <3>3 DEF f, new
    <2>4. CASE ~(t - b[0].time > w)
      <3>1. f = Refresh(b, w, s, t)
        BY <1>5, <2>4 DEF UpdateFilter, b
      <3>2. /\ f \in Filter
            /\ f[0] = b[0]
            /\ \/ f[1] = new /\ f[2] = new
               \/ f[1] = b[1] /\ f[2] = new /\ b[2].sample = b[1].sample
               \/ f[1] = b[1] /\ f[2] = b[2]
        BY <1>1, <2>2, <3>1 DEF Refresh, Filter, new
      <3> HIDE DEF f
      <3>3. Ordered(f)
        BY <1>1, <1>2, <1>3, <2>1, <2>2, <3>2 DEF Ordered
      <3> QED
        BY <1>1, <1>2, <1>3, <2>1, <2>2, <2>4, <3>2, <3>3 DEF f, new
    <2> QED
      BY <2>3, <2>4
  <1> QED
    BY <1>4, <1>5
=============================================================================
