--------------------------- MODULE WindowedFilter ---------------------------
(***************************************************************************)
(* WindowedFilter<T, MinFilter<T>, ...>: Kathleen Nichols' estimate of the *)
(* minimum of a stream of samples over a sliding window, which VegasSender *)
(* and CopaSender use for their base and standing RTT.  Operators only:    *)
(* the senders keep the three estimates in a variable of their own.        *)
(***************************************************************************)
EXTENDS Integers

Sample(s, t) == [sample |-> s, time |-> t]

\* zero_value_: no sample yet.
ZeroValue == 0

NewFilter == [k \in 0 .. 2 |-> Sample(ZeroValue, 0)]

\* estimates_[0]
GetBest(estimates_) == estimates_[0].sample

ResetTo(s, t) == [k \in 0 .. 2 |-> Sample(s, t)]

\* Mutant of MustReset: MinFilter with < for <=.
MustReset_Strict(estimates_, window, s, t) ==
    \/ estimates_[0].sample = ZeroValue
    \/ s < estimates_[0].sample
    \/ t - estimates_[2].time > window

\* No sample yet, a new best, or even the newest estimate is too old.
MustReset(estimates_, window, s, t) ==
    \/ estimates_[0].sample = ZeroValue
    \/ s <= estimates_[0].sample
    \/ t - estimates_[2].time > window

\* Mutant of Better: a sample better than the second estimate leaves the third.
Better_KeepThird(estimates_, s, t) ==
    IF s <= estimates_[1].sample
      THEN [estimates_ EXCEPT ![1] = Sample(s, t)]
      ELSE IF s <= estimates_[2].sample
        THEN [estimates_ EXCEPT ![2] = Sample(s, t)]
        ELSE estimates_

\* A sample that beats the second or the third estimate takes its place and
\* the places after it.
Better(estimates_, s, t) ==
    IF s <= estimates_[1].sample
      THEN [estimates_ EXCEPT ![1] = Sample(s, t), ![2] = Sample(s, t)]
      ELSE IF s <= estimates_[2].sample
        THEN [estimates_ EXCEPT ![2] = Sample(s, t)]
        ELSE estimates_

\* Mutant of Promote: the second look at the new best is missing.
Promote_Once(estimates_, window, s, t) ==
    [k \in 0 .. 2 |-> IF k = 2 THEN Sample(s, t) ELSE estimates_[k + 1]]

\* The best estimate expired: the others move up, and once more if the new
\* best is outside the window as well.
Promote(estimates_, window, s, t) ==
    IF t - estimates_[1].time > window
      THEN [k \in 0 .. 2 |-> IF k = 0 THEN estimates_[2] ELSE Sample(s, t)]
      ELSE [k \in 0 .. 2 |-> IF k = 2 THEN Sample(s, t) ELSE estimates_[k + 1]]

\* The second estimate comes from the second quarter of the window, the third
\* from its second half.
Refresh(estimates_, window, s, t) ==
    IF /\ estimates_[1].sample = estimates_[0].sample
       /\ t - estimates_[1].time > window \div 4
      THEN [estimates_ EXCEPT ![1] = Sample(s, t), ![2] = Sample(s, t)]
      ELSE IF /\ estimates_[2].sample = estimates_[1].sample
              /\ t - estimates_[2].time > window \div 2
        THEN [estimates_ EXCEPT ![2] = Sample(s, t)]
        ELSE estimates_

\* WindowedFilter::Update
UpdateFilter(estimates_, window, s, t) ==
    LET better == Better(estimates_, s, t)
    IN  IF MustReset(estimates_, window, s, t)
          THEN ResetTo(s, t)
          ELSE IF t - better[0].time > window
            THEN Promote(better, window, s, t)
            ELSE Refresh(better, window, s, t)
=============================================================================
