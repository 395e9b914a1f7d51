----------------------------- MODULE RttFilter -----------------------------
(***************************************************************************)
(* One WindowedFilter fed with RTT samples at the times of acknowledgments *)
(* and, as CopaSender does with its standing RTT, with a window length     *)
(* that changes between samples.  taken records every sample, so that the  *)
(* three estimates can be compared with the stream they summarise.         *)
(***************************************************************************)
EXTENDS WindowedFilter, FiniteSets

CONSTANTS
    Samples,    \* the values a sample can have
    Windows,    \* the window lengths in use
    MaxTime,    \* bound: the last time a sample is taken
    MaxSamples  \* bound: how many samples are taken

ASSUME FilterAssumption ==
    /\ Samples \subseteq Nat \ {ZeroValue}
    /\ Windows \subseteq Nat
    /\ MaxTime \in Nat
    /\ MaxSamples \in Nat

VARIABLES
    now,
    window_length_,
    estimates_,
    taken       \* history: the samples so far, each with its time

vars == <<now, window_length_, estimates_, taken>>

Init ==
    /\ now = 1
    /\ window_length_ \in Windows
    /\ estimates_ = NewFilter
    /\ taken = {}

Update(s) ==
    /\ Cardinality(taken) < MaxSamples
    /\ estimates_' = UpdateFilter(estimates_, window_length_, s, now)
    /\ taken' = taken \cup {Sample(s, now)}
    /\ UNCHANGED <<now, window_length_>>

\* Changes the window and no estimate.
SetWindowLength(w) ==
    /\ window_length_' = w
    /\ UNCHANGED <<now, estimates_, taken>>

Advance ==
    /\ now < MaxTime
    /\ now' = now + 1
    /\ UNCHANGED <<window_length_, estimates_, taken>>

Next ==
    \/ \E s \in Samples : Update(s)
    \/ \E w \in Windows : SetWindowLength(w)
    \/ Advance

Spec == Init /\ [][Next]_vars

-----------------------------------------------------------------------------
\* Every variable has its type.
TypeOK ==
    /\ now \in Nat
    /\ window_length_ \in Windows
    /\ estimates_ \in [0 .. 2 -> [sample : Nat, time : Nat]]
    /\ taken \subseteq [sample : Samples, time : Nat]

\* The comment at the head of windowed_filter.h: the measurement time of the
\* n'th best is at least that of the n-1'th best.  The values are ordered too.
EstimatesOrdered ==
    \A j, k \in 0 .. 2 : j <= k =>
        /\ estimates_[j].sample <= estimates_[k].sample
        /\ estimates_[j].time <= estimates_[k].time

\* Each estimate is a sample that was really taken, and every sample taken
\* after it was larger: the best is the exact minimum of the stream since its
\* own time, whatever was promoted, refreshed or forgotten on the way.
LeastSinceTaken ==
    taken # {} =>
        \A k \in 0 .. 2 :
            /\ estimates_[k] \in taken
            /\ \A h \in taken :
                 h.time > estimates_[k].time => h.sample > estimates_[k].sample

\* After a sample is taken the best estimate lies inside the window and is no
\* larger than the sample: what Vegas and Copa subtract is never negative and
\* never older than the window.
BestIsCurrent ==
    [][\A s \in Samples : Update(s) =>
        /\ GetBest(estimates_') <= s
        /\ now - estimates_'[0].time <= window_length_]_vars
=============================================================================
