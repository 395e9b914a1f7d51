---------------------------- MODULE VegasSender ----------------------------
(***************************************************************************)
(* VegasSender, the delay based congestion controller, under the calls the *)
(* sent packet manager makes: packets are sent with increasing numbers,    *)
(* acknowledged and declared lost in any grouping, a packet declared lost  *)
(* may still be acknowledged, and time passes between events.              *)
(*                                                                         *)
(* OnCongestionEvent walks the lost packets and then the acknowledged      *)
(* ones; each call it makes is an action, in that order, so that the state *)
(* it tests half way (InRecovery, InSlowStart, beg_send_next_) is the one  *)
(* the code sees.                                                          *)
(***************************************************************************)
EXTENDS WindowedFilter

CONSTANTS
    MSS,                \* kDefaultTCPMSS
    InitialWindow,      \* initial_tcp_congestion_window, in packets
    InitialWindows,     \* the windows SetInitialCongestionWindow... may ask for
    MaxWindow,          \* max_tcp_congestion_window, in packets
    RttWindow,          \* kMinRTTWindowLength
    Rtts,               \* the values of latest_rtt
    Infinite,           \* QuicTime::Delta::Infinite()
    MaxPacket,          \* bound: the packets sent
    MaxTime             \* bound: the time of the last event

ASSUME VegasAssumption ==
    /\ MSS \in Nat \ {0}
    /\ InitialWindow \in Nat /\ InitialWindow >= 4
    /\ InitialWindows \subseteq Nat /\ \A n \in InitialWindows : n >= 4
    /\ MaxWindow \in Nat
    /\ RttWindow \in Nat
    /\ Rtts \subseteq Nat
    /\ Infinite \in Nat /\ \A r \in Rtts : r + 1 < Infinite
    /\ MaxPacket \in Nat
    /\ MaxTime \in Nat

VARIABLES
    congestion_window_, slowstart_threshold_,
    largest_sent_packet_number_,    \* a packet number, None when not set
    largest_acked_packet_number_,
    largest_sent_at_last_cutback_,
    baseRTTFilter_, min_rtt_, rtt_count_,
    beg_send_next_, num_acked_packets_, vegas_mode_,
    acked_packets, lost_packets,    \* what the running event has left to do
    before,                         \* InRecovery() when the event began
    inEvent,                        \* OnCongestionEvent is on the stack
    unacked, declaredLost,          \* the manager's packets
    now, fault

window == <<congestion_window_, slowstart_threshold_>>
round == <<min_rtt_, rtt_count_, beg_send_next_>>
event == <<acked_packets, lost_packets, before, inEvent>>
recovery == <<largest_acked_packet_number_, largest_sent_at_last_cutback_>>
manager == <<largest_sent_packet_number_, unacked, declaredLost, now>>
mode == <<baseRTTFilter_, vegas_mode_, fault>>

vars == <<window, round, event, recovery, manager, mode, num_acked_packets_>>

None == 0
MinWindow == 4 * MSS            \* kDefaultMinimumCongestionWindow
Alpha == 2 * MSS
Beta == 4 * MSS
Gamma == MSS

Larger(m, n) == IF m < n THEN n ELSE m
Smaller(m, n) == IF m < n THEN m ELSE n
First(packets) == CHOOSE p \in packets : \A q \in packets : p <= q

InSlowStart == congestion_window_ < slowstart_threshold_

InRecovery ==
    /\ largest_acked_packet_number_ # None
    /\ largest_sent_at_last_cutback_ # None
    /\ largest_acked_packet_number_ <= largest_sent_at_last_cutback_

Init ==
    /\ congestion_window_ = InitialWindow * MSS
    /\ slowstart_threshold_ = MaxWindow * MSS
    /\ largest_sent_packet_number_ = None
    /\ largest_acked_packet_number_ = None
    /\ largest_sent_at_last_cutback_ = None
    /\ baseRTTFilter_ = NewFilter
    /\ min_rtt_ = Infinite
    /\ rtt_count_ = 0
    /\ beg_send_next_ = None
    /\ num_acked_packets_ = 0
    /\ vegas_mode_ = TRUE
    /\ acked_packets = {} /\ lost_packets = {}
    /\ before = FALSE
    /\ inEvent = FALSE
    /\ unacked = {} /\ declaredLost = {}
    /\ now = 1
    /\ fault = "none"

SetInitialCongestionWindowInPackets(n) ==
    /\ fault = "none" /\ ~inEvent
    /\ InSlowStart
    /\ congestion_window_' = n * MSS
    /\ UNCHANGED <<slowstart_threshold_, round, event, recovery, manager, mode,
                   num_acked_packets_>>

OnPacketSent ==
    /\ fault = "none" /\ ~inEvent
    /\ largest_sent_packet_number_ < MaxPacket
    /\ largest_sent_packet_number_' = largest_sent_packet_number_ + 1
    /\ beg_send_next_' = IF beg_send_next_ = None
                           THEN largest_sent_packet_number_' ELSE beg_send_next_
    /\ unacked' = unacked \cup {largest_sent_packet_number_'}
    /\ UNCHANGED <<window, min_rtt_, rtt_count_, event, recovery, mode,
                   declaredLost, now, num_acked_packets_>>

\* The packets the manager may report: any not acknowledged yet, and as lost
\* those below one that is acknowledged.
Reportable(acked, lost) ==
    /\ acked \cup lost # {}
    /\ acked \subseteq unacked
    /\ lost \subseteq unacked \ (acked \cup declaredLost)
    /\ \A p \in lost :
         \/ p < largest_acked_packet_number_
         \/ \E q \in acked : p < q

\* OnCongestionEvent up to its loops, with rtt the latest_rtt of rtt_stats_.
OnCongestionEvent(acked, lost, rtt) ==
    /\ fault = "none" /\ ~inEvent
    /\ Reportable(acked, lost)
    /\ IF acked # {}
         THEN LET vrtt == rtt + 1
              IN  /\ baseRTTFilter_' =
                       UpdateFilter(baseRTTFilter_, RttWindow, vrtt, now)
                  /\ min_rtt_' = Smaller(min_rtt_, vrtt)
                  /\ rtt_count_' = rtt_count_ + 1
         ELSE UNCHANGED <<baseRTTFilter_, min_rtt_, rtt_count_>>
    /\ before' = InRecovery
    /\ acked_packets' = acked
    /\ lost_packets' = lost
    /\ inEvent' = TRUE
    /\ unacked' = unacked \ acked
    /\ declaredLost' = (declaredLost \cup lost) \ acked
    /\ UNCHANGED <<window, beg_send_next_, recovery, now, num_acked_packets_,
                   largest_sent_packet_number_, vegas_mode_, fault>>

\* Mutant of AlreadyCut: every lost packet cuts the window.
AlreadyCut_Never(p) == FALSE

\* The packet was sent before the last cutback.
AlreadyCut(p) ==
    /\ largest_sent_at_last_cutback_ # None
    /\ p <= largest_sent_at_last_cutback_

\* Mutant of HalvedWindow: no floor under the window.
HalvedWindow_NoFloor == congestion_window_ \div 2

HalvedWindow == Larger(congestion_window_ \div 2, MinWindow)

\* The next lost packet.
OnPacketLost ==
    LET p == First(lost_packets)
    IN  /\ fault = "none" /\ inEvent /\ lost_packets # {}
        /\ lost_packets' = lost_packets \ {p}
        /\ IF AlreadyCut(p)
             THEN UNCHANGED <<window, largest_sent_at_last_cutback_, num_acked_packets_>>
             ELSE /\ congestion_window_' = HalvedWindow
                  /\ slowstart_threshold_' = HalvedWindow
                  /\ largest_sent_at_last_cutback_' = largest_sent_packet_number_
                  /\ num_acked_packets_' = 0
        /\ UNCHANGED <<round, acked_packets, before, inEvent, manager, mode,
                       largest_acked_packet_number_>>

\* IncreaseCongestionWindowAsReno, with the window it leaves raised to floor.
RenoIsFull == (num_acked_packets_ + 1) * MSS >= congestion_window_

IncreaseCongestionWindowAsReno(floor) ==
    /\ congestion_window_' =
         Larger(IF InSlowStart \/ RenoIsFull THEN congestion_window_ + MSS
                                             ELSE congestion_window_, floor)
    /\ num_acked_packets_' =
         IF InSlowStart THEN num_acked_packets_
         ELSE IF RenoIsFull THEN 0 ELSE num_acked_packets_ + 1
    /\ UNCHANGED slowstart_threshold_

\* The bytes Vegas believes are queued, and the window without a queue,
\* rounded up to a packet.
Diff(base) == (congestion_window_ * (min_rtt_ - base)) \div base
Target(base) ==
    (((congestion_window_ * base) \div min_rtt_ + MSS - 1) \div MSS) * MSS

LeaveSlowStart(base) ==
    LET w == Smaller(congestion_window_, Target(base))
    IN  /\ congestion_window_' = Larger(w, MinWindow)
        /\ slowstart_threshold_' = w

\* Mutant of SlowDown: slowstart_threshold_ is left alone.
SlowDown_KeepThreshold ==
    /\ congestion_window_' = Larger(congestion_window_ - MSS, MinWindow)
    /\ UNCHANGED slowstart_threshold_

\* One packet less, and the threshold follows the window down.
SlowDown ==
    LET w == IF congestion_window_ > MinWindow THEN congestion_window_ - MSS
                                               ELSE congestion_window_
    IN  /\ congestion_window_' = Larger(w, MinWindow)
        /\ slowstart_threshold_' = IF congestion_window_ > MinWindow
                                     THEN w ELSE slowstart_threshold_

\* Also the window update inside a round, while in slow start.
SpeedUp ==
    /\ congestion_window_' = Larger(congestion_window_ + MSS, MinWindow)
    /\ UNCHANGED slowstart_threshold_

Hold ==
    /\ congestion_window_' = Larger(congestion_window_, MinWindow)
    /\ UNCHANGED slowstart_threshold_

\* The decision of a round with enough RTT samples.
AdjustWindow(base) ==
    /\ IF InSlowStart
         THEN IF Diff(base) > Gamma THEN LeaveSlowStart(base) ELSE SpeedUp
         ELSE IF Diff(base) > Beta THEN SlowDown
              ELSE IF Diff(base) < Alpha THEN SpeedUp ELSE Hold
    /\ UNCHANGED num_acked_packets_

\* The next round ends with the last packet sent so far.
BeginRound ==
    /\ beg_send_next_' = largest_sent_packet_number_
    /\ min_rtt_' = Infinite
    /\ rtt_count_' = 0

\* An acknowledgment that ends the round.
EndRound ==
    LET base == GetBest(baseRTTFilter_)
    IN  /\ BeginRound
        /\ IF rtt_count_ <= 2
             THEN IncreaseCongestionWindowAsReno(MinWindow) /\ UNCHANGED fault
             ELSE IF min_rtt_ < base     \* QUICHE_CHECK(min_rtt_ >= base_rtt)
               THEN fault' = "rtt_check" /\ UNCHANGED <<window, num_acked_packets_>>
               ELSE AdjustWindow(base) /\ UNCHANGED fault

\* The next acknowledged packet, once the lost ones are done.
OnPacketAcked ==
    LET p == First(acked_packets)
    IN  /\ fault = "none" /\ inEvent /\ lost_packets = {} /\ acked_packets # {}
        /\ acked_packets' = acked_packets \ {p}
        /\ largest_acked_packet_number_' = Larger(largest_acked_packet_number_, p)
        /\ IF ~vegas_mode_
             THEN IncreaseCongestionWindowAsReno(0) /\ UNCHANGED <<round, fault>>
             ELSE IF beg_send_next_ = None
               THEN fault' = "beg_check" /\ UNCHANGED <<window, num_acked_packets_, round>>
               ELSE IF p >= beg_send_next_
                 THEN EndRound
                 ELSE /\ IF InSlowStart THEN SpeedUp ELSE Hold
                      /\ UNCHANGED <<num_acked_packets_, round, fault>>
        /\ UNCHANGED <<lost_packets, before, inEvent, manager, baseRTTFilter_,
                       vegas_mode_, largest_sent_at_last_cutback_>>

\* Mutant of ModeAfterEvent: Vegas is not switched on again.
ModeAfterEvent_StayOff == IF InRecovery # before THEN FALSE ELSE vegas_mode_

\* Vegas is off while in recovery.
ModeAfterEvent == IF InRecovery # before THEN ~InRecovery ELSE vegas_mode_

\* The end of OnCongestionEvent.
EndCongestionEvent ==
    /\ fault = "none" /\ inEvent /\ lost_packets = {} /\ acked_packets = {}
    /\ inEvent' = FALSE
    /\ before' = FALSE
    /\ vegas_mode_' = ModeAfterEvent
    /\ IF before /\ ~InRecovery THEN BeginRound ELSE UNCHANGED round
    /\ UNCHANGED <<window, acked_packets, lost_packets, recovery, manager,
                   baseRTTFilter_, num_acked_packets_, fault>>

Advance ==
    /\ fault = "none" /\ ~inEvent
    /\ now < MaxTime
    /\ now' = now + 1
    /\ UNCHANGED <<window, round, event, recovery, mode, num_acked_packets_,
                   largest_sent_packet_number_, unacked, declaredLost>>

Next ==
    \/ \E n \in InitialWindows : SetInitialCongestionWindowInPackets(n)
    \/ OnPacketSent
    \/ \E acked, lost \in SUBSET unacked, rtt \in Rtts :
         OnCongestionEvent(acked, lost, rtt)
    \/ OnPacketLost
    \/ OnPacketAcked
    \/ EndCongestionEvent
    \/ Advance

Spec == Init /\ [][Next]_vars

-----------------------------------------------------------------------------
\* Every variable has its type; windows are byte counts, never negative.
TypeOK ==
    /\ congestion_window_ \in Nat
    /\ slowstart_threshold_ \in Nat
    /\ largest_sent_packet_number_ \in 0 .. MaxPacket
    /\ largest_acked_packet_number_ \in 0 .. largest_sent_packet_number_
    /\ largest_sent_at_last_cutback_ \in 0 .. largest_sent_packet_number_
    /\ baseRTTFilter_ \in [0 .. 2 -> [sample : Nat, time : Nat]]
    /\ min_rtt_ \in Nat
    /\ rtt_count_ \in Nat
    /\ beg_send_next_ \in 0 .. largest_sent_packet_number_
    /\ num_acked_packets_ \in Nat
    /\ vegas_mode_ \in BOOLEAN
    /\ acked_packets \subseteq 1 .. largest_sent_packet_number_
    /\ lost_packets \subseteq 1 .. largest_sent_packet_number_
    /\ before \in BOOLEAN
    /\ inEvent \in BOOLEAN
    /\ unacked \subseteq 1 .. largest_sent_packet_number_
    /\ declaredLost \subseteq unacked
    /\ now \in Nat
    /\ fault \in {"none", "rtt_check", "beg_check"}

\* vegas_sender.h: min_congestion_window_ is "the smallest value the
\* |congestion_window_| can achieve", through losses, round ends and the
\* corrections of slow start, whatever the RTTs.
WindowAboveMinimum == congestion_window_ >= MinWindow

\* Between two events Vegas is switched on exactly when the sender is not in
\* recovery, though recovery is decided by three packet numbers that the loops
\* of one event change one at a time.
ModeFollowsRecovery == (fault = "none" /\ ~inEvent) => (vegas_mode_ <=> ~InRecovery)

\* The minimum RTT of the round is used only when it was measured: it is
\* infinite exactly while no sample was counted, and a round is open whenever
\* a packet has been sent.
RoundIsMeasured ==
    /\ min_rtt_ = Infinite <=> rtt_count_ = 0
    /\ beg_send_next_ = None <=> largest_sent_packet_number_ = None
    /\ fault # "beg_check"

\* Slow start is left once: no loss, slow down or round end ever puts the
\* window back below slowstart_threshold_.
SlowStartIsFinal == [][~InSlowStart => ~InSlowStart']_vars

\* One acknowledged packet adds at most one packet to the window.  A lost one
\* takes at most half of it, and only if something was sent since the last
\* cutback: however many packets of a flight are lost, it is cut once.
WindowMovesGradually ==
    [][/\ inEvent => congestion_window_' <= congestion_window_ + MSS
       /\ (inEvent /\ lost_packets # {}) =>
            /\ congestion_window_' >= congestion_window_ \div 2
            /\ congestion_window_' # congestion_window_ =>
                 largest_sent_at_last_cutback_ < largest_sent_packet_number_]_vars

\* VegasSender::OnPacketAcked asserts QUICHE_CHECK(min_rtt_ >= base_rtt).
RoundMinimumAtLeastBase == fault # "rtt_check"
=============================================================================
