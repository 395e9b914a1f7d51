----------------------------- MODULE CopaSender -----------------------------
(***************************************************************************)
(* CopaSender, the second delay based congestion controller of the         *)
(* repository, under the calls of the sent packet manager.  An event is    *)
(* one step: unlike Vegas nothing it decides depends on how far its loops  *)
(* have come.                                                              *)
(*                                                                         *)
(* Packets are numbers.  Of an event the sender uses only the number of    *)
(* acknowledged packets, the largest of them, and whether a packet sent    *)
(* after the last cutback was lost, so the event carries the largest lost  *)
(* packet, and the manager the number of packets it has not settled yet.   *)
(* Unsigned arithmetic is modulo Limit, which is 2^64 in the code.         *)
(***************************************************************************)
EXTENDS WindowedFilter

CONSTANTS
    MSS,                \* kDefaultTCPMSS
    InitialWindow,      \* initial_tcp_congestion_window, in packets
    InitialWindows,     \* the windows SetInitialCongestionWindow... may ask for
    MinRttWindow,       \* kMinRTTWindowLength
    Second,             \* 1000000, the clock ticks of a second
    Rtts,               \* the values of latest_rtt
    Limit,              \* 2^64: uint64_t holds the values below it
    MaxAcked,           \* bound: the packets one event acknowledges
    MaxFlight,          \* bound: the packets outstanding
    MaxPacket,          \* bound: the packets sent
    MaxTime             \* bound: the time of the last event

ASSUME CopaAssumption ==
    /\ MSS \in Nat \ {0}
    /\ InitialWindow \in Nat /\ InitialWindow >= 4
    /\ InitialWindows \subseteq Nat /\ \A n \in InitialWindows : n >= 4
    /\ {MinRttWindow, MaxAcked, MaxFlight, MaxPacket, MaxTime} \subseteq Nat
    /\ {Second, Limit} \subseteq Nat \ {0}
    /\ Rtts \subseteq Nat \ {0}

VARIABLES
    congestion_window_, isSlowStart_, lastCwndDoubleTime_,
    velocityState_,                 \* the struct VelocityState
    minRTTFilter_, standingRTTFilter_,
    largest_sent_packet_number_, largest_acked_packet_number_,
    largest_sent_at_last_cutback_,
    latest_rtt, smoothed_rtt,       \* rtt_stats_, 0 before the first sample
    outstanding,                    \* how many packets are neither acknowledged nor lost
    now,
    move,       \* what the last event did: none, double, up or down
    fault       \* the check that failed or the exception that was thrown

window == <<congestion_window_, isSlowStart_, lastCwndDoubleTime_, velocityState_, move>>
filters == <<minRTTFilter_, standingRTTFilter_>>
recovery == <<largest_acked_packet_number_, largest_sent_at_last_cutback_>>
rtt_stats_ == <<latest_rtt, smoothed_rtt>>
vars == <<window, filters, recovery, rtt_stats_, largest_sent_packet_number_,
          outstanding, now, fault>>

None == 0                       \* a time or packet number that is not set
MinWindow == 4 * MSS            \* kDefaultMinimumCongestionWindow
Smaller(m, n) == IF m < n THEN m ELSE n
Larger(m, n) == IF m < n THEN n ELSE m

NewVelocity ==
    [velocity |-> 1, direction |-> "None", numTimesDirectionSame |-> 0,
     lastRecordedCwndBytes |-> 0, lastCwndRecordTime |-> None]

Init ==
    /\ congestion_window_ = InitialWindow * MSS
    /\ isSlowStart_ = TRUE
    /\ lastCwndDoubleTime_ = None
    /\ velocityState_ = NewVelocity
    /\ minRTTFilter_ = NewFilter
    /\ standingRTTFilter_ = NewFilter
    /\ largest_sent_packet_number_ = None
    /\ largest_acked_packet_number_ = None
    /\ largest_sent_at_last_cutback_ = None
    /\ latest_rtt = 0 /\ smoothed_rtt = 0
    /\ outstanding = 0
    /\ now = 1
    /\ move = "none"
    /\ fault = "none"

SetInitialCongestionWindowInPackets(n) ==
    /\ fault = "none" /\ isSlowStart_
    /\ congestion_window_' = n * MSS
    /\ UNCHANGED <<isSlowStart_, lastCwndDoubleTime_, velocityState_, move, filters,
                   recovery, rtt_stats_, largest_sent_packet_number_, outstanding,
                   now, fault>>

OnPacketSent ==
    /\ fault = "none"
    /\ largest_sent_packet_number_ < MaxPacket /\ outstanding < MaxFlight
    /\ largest_sent_packet_number_' = largest_sent_packet_number_ + 1
    /\ outstanding' = outstanding + 1
    /\ UNCHANGED <<window, filters, recovery, rtt_stats_, now, fault>>

-----------------------------------------------------------------------------
\* The velocity once the direction was the same for that many RTTs.
VelocityAfterRtt(v, same) == IF same >= 3 THEN (2 * v) % Limit ELSE v

\* The state v after CheckAndUpdateDirection.
CheckAndUpdateDirection(v, srtt) ==
    LET recorded == [v EXCEPT !.lastCwndRecordTime = now,
                              !.lastRecordedCwndBytes = congestion_window_]
        direction == IF congestion_window_ > v.lastRecordedCwndBytes
                       THEN "Up" ELSE "Down"
        same == v.numTimesDirectionSame + 1
    IN  IF v.lastCwndRecordTime = None THEN recorded
        ELSE IF now - v.lastCwndRecordTime < srtt THEN v
        ELSE IF direction # v.direction
          THEN [recorded EXCEPT !.direction = direction, !.velocity = 1,
                                !.numTimesDirectionSame = 0]
          ELSE [recorded EXCEPT !.velocity = VelocityAfterRtt(v.velocity, same),
                                !.numTimesDirectionSame = same]

ChangeDirection(v, direction) ==
    IF v.direction = direction THEN v
    ELSE [velocity |-> 1, direction |-> direction, numTimesDirectionSame |-> 0,
          lastRecordedCwndBytes |-> congestion_window_, lastCwndRecordTime |-> now]

\* Mutant of Turn: a reversal keeps the velocity of the other direction.
Turn_Keep(v, direction) == v

\* A velocity meant for the other direction is dropped.
Turn(v, direction) ==
    IF v.direction # direction /\ v.velocity > 1
      THEN ChangeDirection(v, direction) ELSE v

\* Whether the rate is below the target: latencyFactor_ is one half, both
\* rates are truncated to int64_t.
IncreaseCwnd(delay, standing) ==
    \/ delay = 0
    \/ (2 * MSS * Second) \div delay >= (congestion_window_ * Second) \div standing

\* What n acknowledged packets are worth; the product is taken in uint64_t.
Change(n, v) == (2 * ((n * MSS * MSS * v.velocity) % Limit)) \div congestion_window_

\* addAndCheckOverflow on the congestion window.
AddToWindow(bytes) ==
    IF Limit - 1 - bytes < congestion_window_
      THEN fault' = "overflow" /\ UNCHANGED congestion_window_
      ELSE congestion_window_' = congestion_window_ + bytes /\ UNCHANGED fault

\* Slow start: the window doubles once per RTT.
DoubleWindow(srtt) ==
    /\ IF lastCwndDoubleTime_ = None
         THEN lastCwndDoubleTime_' = now /\ UNCHANGED <<congestion_window_, fault>>
         ELSE IF now - lastCwndDoubleTime_ > srtt
           THEN lastCwndDoubleTime_' = now /\ AddToWindow(congestion_window_)
           ELSE UNCHANGED <<lastCwndDoubleTime_, congestion_window_, fault>>
    /\ move' = "double"
    /\ UNCHANGED <<velocityState_, isSlowStart_>>

\* Additive increase after slow start.
Increase(n, srtt) ==
    LET v == Turn(CheckAndUpdateDirection(velocityState_, srtt), "Up")
    IN  /\ velocityState_' = v
        /\ AddToWindow(Change(n, v))
        /\ move' = "up"
        /\ UNCHANGED <<isSlowStart_, lastCwndDoubleTime_>>

\* Mutant of Reduction: the reduction is not held above the minimum window.
Reduction_NoFloor(n, v) == Change(n, v)

\* The difference to the minimum is unsigned: below the minimum it wraps.
Reduction(n, v) == Smaller(Change(n, v), (congestion_window_ - MinWindow) % Limit)

\* Additive decrease, with subtractAndCheckUnderflow.
Decrease(n, srtt) ==
    LET v == Turn(CheckAndUpdateDirection(velocityState_, srtt), "Down")
        r == Reduction(n, v)
    IN  /\ velocityState_' = v
        /\ isSlowStart_' = FALSE
        /\ IF congestion_window_ < r
             THEN fault' = "underflow" /\ UNCHANGED congestion_window_
             ELSE congestion_window_' = congestion_window_ - r /\ UNCHANGED fault
        /\ move' = "down"
        /\ UNCHANGED lastCwndDoubleTime_

\* Mutant of MinRtt: the minimum is read before the new sample enters.
MinRtt_Stale == GetBest(minRTTFilter_)

MinRtt == GetBest(minRTTFilter_')

\* OnPacketAcked, once the largest acknowledged packet is recorded.
OnPacketAcked(n, rtt, srtt) ==
    /\ minRTTFilter_' = UpdateFilter(minRTTFilter_, MinRttWindow, rtt, now)
    /\ standingRTTFilter_' = UpdateFilter(standingRTTFilter_, srtt \div 2, rtt, now)
    /\ LET delay == rtt - MinRtt
           standing == GetBest(standingRTTFilter_')
       IN  IF delay < 0 \/ standing = 0      \* the two QUICHE_CHECK(0)
             THEN fault' = "check" /\ UNCHANGED window
             ELSE IF IncreaseCwnd(delay, standing)
               THEN IF isSlowStart_ THEN DoubleWindow(srtt) ELSE Increase(n, srtt)
               ELSE Decrease(n, srtt)

\* OnPacketLost for the lost packets of an event: the largest decides.
Cutback(lost) ==
    IF lost > largest_sent_at_last_cutback_
      THEN largest_sent_packet_number_ ELSE largest_sent_at_last_cutback_

\* The packets an event takes off the manager's list.  Of the lost packets
\* only the largest matters to the sender; the others stay for later events.
Settled(n, lost) == IF lost = None THEN n ELSE n + 1

\* What the manager may report: n packets up to acked, and a lost one below
\* the largest acknowledged.
Reportable(acked, n, lost) ==
    /\ acked \in largest_acked_packet_number_ .. largest_sent_packet_number_
    /\ acked > largest_acked_packet_number_ => n > 0
    /\ lost # None => lost < acked
    /\ Settled(n, lost) > 0
    /\ Settled(n, lost) + (largest_sent_packet_number_ - acked) <= outstanding

\* RttStats::UpdateRtt: the first sample is taken over, a later one draws the
\* average towards it.  An event without a sample repeats the last ones.
UpdateRtt(rtt, srtt) ==
    \/ rtt = latest_rtt /\ srtt = smoothed_rtt /\ latest_rtt # 0
    \/ smoothed_rtt = 0 /\ srtt = rtt
    \/ /\ smoothed_rtt # 0
       /\ srtt \in Smaller(smoothed_rtt, rtt) .. Larger(smoothed_rtt, rtt)

OnCongestionEvent(acked, n, lost, rtt, srtt) ==
    /\ fault = "none"
    /\ Reportable(acked, n, lost)
    /\ UpdateRtt(rtt, srtt)
    /\ latest_rtt' = rtt /\ smoothed_rtt' = srtt
    /\ outstanding' = outstanding - Settled(n, lost)
    /\ largest_sent_at_last_cutback_' = Cutback(lost)
    /\ largest_acked_packet_number_' = acked
    /\ OnPacketAcked(n, rtt, srtt)
    /\ UNCHANGED <<largest_sent_packet_number_, now>>

Advance ==
    /\ fault = "none"
    /\ now < MaxTime
    /\ now' = now + 1
    /\ UNCHANGED <<window, filters, recovery, rtt_stats_, largest_sent_packet_number_,
                   outstanding, fault>>

Next ==
    \/ \E n \in InitialWindows : SetInitialCongestionWindowInPackets(n)
    \/ OnPacketSent
    \/ \E acked, lost \in 0 .. largest_sent_packet_number_, n \in 0 .. MaxAcked,
          rtt \in Rtts, srtt \in Rtts \cup {smoothed_rtt} :
         OnCongestionEvent(acked, n, lost, rtt, srtt)
    \/ Advance

Spec == Init /\ [][Next]_vars

-----------------------------------------------------------------------------
\* copa_sender.h: min_congestion_window_ is "the smallest value the
\* |congestion_window_| can achieve".  The code holds a reduction above it
\* with an unsigned difference that is only safe while this is true.
WindowAboveMinimum == congestion_window_ >= MinWindow

\* The checks of OnPacketAcked never fail and no subtraction underflows: the
\* new sample is never below the windowed minimum and the standing RTT is
\* never zero, though one filter's window changes with every event.
ChecksHold == fault \notin {"check", "underflow"}

\* 2 to the power k.
Doublings[k \in Nat] == IF k = 0 THEN 1 ELSE 2 * Doublings[k - 1]

\* The velocity is what the RTTs in one direction earned: 1 until the third,
\* then doubled at each, whatever resets came between.  Slow start earns
\* nothing: it records no direction, so the first decrease starts from 1.  A
\* velocity above 1 is only ever applied to a move in its own direction.
VelocityIsEarned ==
    LET v == velocityState_
        same == v.numTimesDirectionSame
    IN  /\ v.velocity = IF same < 3 THEN 1 ELSE Doublings[same - 2] % Limit
        /\ same > 0 => v.direction # "None"
        /\ isSlowStart_ => v = NewVelocity
        /\ v.velocity > 1 => /\ move = "up" => v.direction = "Up"
                             /\ move = "down" => v.direction = "Down"

\* copa_sender.cc: on "a sudden direction change here, while v is still very
\* high but meant for opposite direction, we should reset it to 1".
ReversalResetsVelocity ==
    /\ move = "up" => velocityState_.direction = "Up" \/ velocityState_.velocity = 1
    /\ move = "down" => velocityState_.direction = "Down" \/ velocityState_.velocity = 1
=============================================================================
