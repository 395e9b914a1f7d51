-------------------------- MODULE RttFilterProofs --------------------------
(***************************************************************************)
(* Proofs about RttFilter, for any samples and window lengths.             *)
(***************************************************************************)
EXTENDS RttFilter, WindowedFilterProofs, TLAPS

-----------------------------------------------------------------------------
(***************************************************************************)
(* The inductive invariant: the properties of the run, and that no sample  *)
(* lies ahead of the clock.                                                *)
(***************************************************************************)

IInv ==
    /\ TypeOK
    /\ EstimatesOrdered
    /\ LeastSinceTaken
    /\ \A h \in taken : h.time <= now
    /\ estimates_[2].time <= now
    /\ estimates_[0].sample # ZeroValue => taken # {}

\* A new filter satisfies the invariant.
LEMMA InitIInv == Init => IInv
  <1> SUFFICES ASSUME Init PROVE IInv
    OBVIOUS
  <1>1. Sample(ZeroValue, 0) \in [sample : Nat, time : Nat]
    BY DEF Sample, ZeroValue
  <1>2. /\ estimates_ = [k \in 0 .. 2 |-> Sample(ZeroValue, 0)]
        /\ Sample(ZeroValue, 0).sample = ZeroValue
        /\ Sample(ZeroValue, 0).time = 0
    BY DEF Init, NewFilter, Sample
  <1> QED
    BY <1>1, <1>2
    DEF Init, IInv, TypeOK, EstimatesOrdered, LeastSinceTaken, ZeroValue

\* One Update keeps the invariant, and its best estimate is current.
LEMMA UpdatePreserves ==
    ASSUME IInv, NEW s \in Samples, Update(s)
    PROVE  /\ IInv'
           /\ GetBest(estimates_') <= s
           /\ now - estimates_'[0].time <= window_length_
  <1> DEFINE new == Sample(s, now)
  <1>1. /\ s \in Nat \ {ZeroValue} /\ window_length_ \in Nat /\ now \in Nat
        /\ estimates_ \in Filter
      BY FilterAssumption DEF IInv, TypeOK, Filter
  <1>2. /\ estimates_' = UpdateFilter(estimates_, window_length_, s, now)
        /\ taken' = taken \cup {new}
        /\ UNCHANGED <<now, window_length_>>
    BY DEF Update
  <1>3. Ordered(estimates_) /\ estimates_[2].time <= now
    BY DEF IInv, EstimatesOrdered, Ordered
  <1>4. /\ estimates_' \in Filter
        /\ Ordered(estimates_')
        /\ estimates_'[2].time <= now
        /\ \A k \in 0 .. 2 :
             \/ estimates_'[k] = new
             \/ /\ estimates_[0].sample # ZeroValue
                /\ \E j \in 0 .. 2 : estimates_'[k] = estimates_[j]
                                     /\ s > estimates_[j].sample
        /\ estimates_'[0].sample <= s
        /\ now - estimates_'[0].time <= window_length_
    <2>1. LET f == UpdateFilter(estimates_, window_length_, s, now)
          IN  /\ f \in Filter
              /\ Ordered(f)
              /\ f[2].time <= now
              /\ \A k \in 0 .. 2 :
                   \/ f[k] = Sample(s, now)
                   \/ /\ estimates_[0].sample # ZeroValue
                      /\ \E j \in 0 .. 2 : f[k] = estimates_[j] /\ s > estimates_[j].sample
              /\ f[0].sample <= s
              /\ now - f[0].time <= window_length_
      BY <1>1, <1>3, UpdateKeepsOrTakes, Zenon
    <2> QED
      BY <1>2, <2>1
  <1>5. new.sample = s /\ new.time = now /\ new \in [sample : Samples, time : Nat]
    BY <1>1 DEF Sample
  <1> HIDE DEF new
  <1>6. LeastSinceTaken'
    <2> SUFFICES ASSUME NEW k \in 0 .. 2
                 PROVE  /\ estimates_'[k] \in taken'
                        /\ \A h \in taken' : h.time > estimates_'[k].time =>
                                              h.sample > estimates_'[k].sample
      BY DEF LeastSinceTaken
    <2>1. CASE estimates_'[k] = new
      <3>1. \A h \in taken' : h.time \in Nat /\ h.time <= now
        BY <1>1, <1>2, <1>5 DEF IInv, TypeOK
      <3> QED
        BY <1>1, <1>2, <1>5, <2>1, <3>1
    <2>2. CASE estimates_'[k] # new
      <3>1. PICK j \in 0 .. 2 : estimates_'[k] = estimates_[j]
                               /\ s > estimates_[j].sample
        BY <1>4, <2>2
      <3>2. taken # {}
        BY <1>4, <2>2 DEF IInv
      <3> QED
        BY <1>2, <1>5, <3>1, <3>2 DEF IInv, LeastSinceTaken
    <2> QED
      BY <2>1, <2>2
  <1>7. TypeOK' /\ EstimatesOrdered'
    BY <1>2, <1>4, <1>5 DEF IInv, TypeOK, EstimatesOrdered, Ordered, Filter
  <1> QED
    BY <1>1, <1>2, <1>4, <1>5, <1>6, <1>7 DEF IInv, GetBest

\* The invariant is inductive.
LEMMA NextPreserves == IInv /\ [Next]_vars => IInv'
  <1> SUFFICES ASSUME IInv, [Next]_vars PROVE IInv'
    OBVIOUS
  <1>1. ASSUME NEW w \in Windows, SetWindowLength(w) PROVE IInv'
    BY <1>1 DEF SetWindowLength, IInv, TypeOK, EstimatesOrdered, LeastSinceTaken
  <1>2. CASE Advance
    <2>1. now \in Nat /\ now' = now + 1 /\ UNCHANGED <<window_length_, estimates_, taken>>
      BY <1>2 DEF Advance, IInv, TypeOK
    <2>2. (\A h \in taken : h.time \in Nat) /\ estimates_[2].time \in Nat
      BY DEF IInv, TypeOK
    <2>3. (\A h \in taken : h.time <= now + 1) /\ estimates_[2].time <= now + 1
      BY <2>1, <2>2 DEF IInv
    <2> QED
      BY <2>1, <2>3 DEF IInv, TypeOK, EstimatesOrdered, LeastSinceTaken
  <1>3. CASE UNCHANGED vars
    BY <1>3 DEF vars, IInv, TypeOK, EstimatesOrdered, LeastSinceTaken
  <1> QED
    BY <1>1, <1>2, <1>3, UpdatePreserves DEF Next

\* The three estimates stay ordered by value and by time, as the comment at
\* the head of windowed_filter.h says.
THEOREM OrderHolds == Spec => []EstimatesOrdered
  <1>1. IInv => EstimatesOrdered
    BY DEF IInv
  <1> QED
    BY <1>1, InitIInv, NextPreserves, PTL DEF Spec

\* Every estimate is the minimum of the stream since it was taken.
THEOREM EstimatesAreMinima == Spec => []LeastSinceTaken
  <1>1. IInv => LeastSinceTaken
    BY DEF IInv
  <1> QED
    BY <1>1, InitIInv, NextPreserves, PTL DEF Spec

\* After every update the best estimate is within the window and not above
\* the sample.
THEOREM BestStaysCurrent == Spec => BestIsCurrent
  <1>1. IInv /\ [Next]_vars =>
          [\A s \in Samples : Update(s) =>
             /\ GetBest(estimates_') <= s
             /\ now - estimates_'[0].time <= window_length_]_vars
    BY UpdatePreserves
  <1> QED
    BY <1>1, InitIInv, NextPreserves, PTL DEF Spec, BestIsCurrent
=============================================================================
