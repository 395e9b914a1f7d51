------------------------- MODULE VegasSenderProofs -------------------------
(***************************************************************************)
(* Proofs about VegasSender, for every segment size, window, set of RTTs   *)
(* and number of packets.                                                  *)
(***************************************************************************)
EXTENDS VegasSender, WindowedFilterProofs, TLAPS

\* First is what the loops take next: the least packet number of a set.
LEMMA FirstIsLeast ==
    ASSUME NEW n \in Nat, NEW packets \in SUBSET (1 .. n), packets # {}
    PROVE  First(packets) \in packets /\ First(packets) \in 1 .. n
  <1>1. packets \in SUBSET Nat
    OBVIOUS
  <1>2. \E p \in packets : \A q \in packets : p <= q
    BY <1>1, LeastExists, Zenon
  <1> QED
    BY <1>2, Zenon DEF First

\* A window of n packets is at least the minimum when n is at least four.
LEMMA FourPackets ==
    ASSUME NEW n \in Nat, n >= 4
    PROVE  n * MSS \in Nat /\ n * MSS >= MinWindow
  <1>1. PICK k \in Nat : n = 4 + k
    <2>1. n - 4 \in Nat /\ n = 4 + (n - 4)
      OBVIOUS
    <2> QED
      BY <2>1
  <1>2. n * MSS = 4 * MSS + k * MSS /\ k * MSS \in Nat
    BY <1>1, VegasAssumption
  <1> QED
    BY <1>2, VegasAssumption DEF MinWindow

-----------------------------------------------------------------------------
(***************************************************************************)
(* The inductive invariant.  During an event the mode still answers the    *)
(* recovery state of its beginning, and a counted RTT sample means that    *)
(* the filter holds a positive one.                                        *)
(***************************************************************************)

FilterInOrder ==
    /\ Ordered(baseRTTFilter_)
    /\ baseRTTFilter_[2].time <= now
    /\ rtt_count_ > 0 => GetBest(baseRTTFilter_) > 0

IInv ==
    /\ TypeOK
    /\ WindowAboveMinimum
    /\ ModeFollowsRecovery
    /\ RoundIsMeasured
    /\ inEvent => (vegas_mode_ <=> ~before)
    /\ FilterInOrder

\* A new sender satisfies the invariant.
LEMMA InitIInv == Init => IInv
  <1> SUFFICES ASSUME Init PROVE IInv
    OBVIOUS
  <1>1. Sample(ZeroValue, 0) \in [sample : Nat, time : Nat]
        /\ Sample(ZeroValue, 0).sample = 0 /\ Sample(ZeroValue, 0).time = 0
    BY DEF Sample, ZeroValue
  <1>2. NewFilter \in [0 .. 2 -> [sample : Nat, time : Nat]]
        /\ Ordered(NewFilter) /\ NewFilter[2].time = 0
    BY <1>1 DEF NewFilter, Ordered
  <1>3. congestion_window_ \in Nat /\ congestion_window_ >= MinWindow
    BY FourPackets, VegasAssumption, Zenon DEF Init
  <1>5. slowstart_threshold_ \in Nat
    BY VegasAssumption DEF Init
  <1>4. TypeOK
    <2>1. /\ largest_sent_packet_number_ \in 0 .. MaxPacket
          /\ largest_acked_packet_number_ \in 0 .. largest_sent_packet_number_
          /\ largest_sent_at_last_cutback_ \in 0 .. largest_sent_packet_number_
          /\ beg_send_next_ \in 0 .. largest_sent_packet_number_
          /\ min_rtt_ \in Nat /\ rtt_count_ \in Nat /\ num_acked_packets_ \in Nat
          /\ now \in Nat
      BY VegasAssumption DEF Init, None
    <2>2. /\ baseRTTFilter_ \in [0 .. 2 -> [sample : Nat, time : Nat]]
          /\ vegas_mode_ \in BOOLEAN /\ before \in BOOLEAN /\ inEvent \in BOOLEAN
      BY <1>2, Zenon DEF Init
    <2> QED
      BY <1>3, <1>5, <2>1, <2>2 DEF Init, TypeOK
  <1> QED
    BY <1>2, <1>3, <1>4
    DEF Init, IInv, WindowAboveMinimum, ModeFollowsRecovery, RoundIsMeasured,
        InRecovery, FilterInOrder, None

\* Sending a packet, and choosing another initial window, keep the invariant.
LEMMA SendPreserves ==
    ASSUME IInv,
           \/ OnPacketSent
           \/ \E n \in InitialWindows : SetInitialCongestionWindowInPackets(n)
           \/ Advance
    PROVE  IInv'
  <1>1. CASE OnPacketSent
    BY <1>1, VegasAssumption
    DEF OnPacketSent, IInv, TypeOK, WindowAboveMinimum, ModeFollowsRecovery,
        RoundIsMeasured, InRecovery, FilterInOrder, None, window, event, recovery,
        mode
  <1>2. ASSUME NEW n \in InitialWindows, SetInitialCongestionWindowInPackets(n)
        PROVE  IInv'
    <2>1. congestion_window_' \in Nat /\ congestion_window_' >= MinWindow
      BY <1>2, FourPackets, VegasAssumption DEF SetInitialCongestionWindowInPackets
    <2> QED
      BY <1>2, <2>1
      DEF SetInitialCongestionWindowInPackets, IInv, TypeOK, WindowAboveMinimum,
          ModeFollowsRecovery, RoundIsMeasured, InRecovery, FilterInOrder,
          MinWindow, round, event, recovery, manager, mode
  <1>3. CASE Advance
    BY <1>3
    DEF Advance, IInv, TypeOK, WindowAboveMinimum, ModeFollowsRecovery,
        RoundIsMeasured, InRecovery, FilterInOrder, window, round, event,
        recovery, mode
  <1> QED
    BY <1>1, <1>2, <1>3

-----------------------------------------------------------------------------
(***************************************************************************)
(* What the window updates of OnPacketAcked may do.                        *)
(***************************************************************************)

GoodMove ==
    /\ congestion_window_' \in Nat
    /\ congestion_window_' >= MinWindow
    /\ congestion_window_' <= congestion_window_ + MSS
    /\ slowstart_threshold_' \in Nat
    /\ num_acked_packets_' \in Nat
    /\ ~InSlowStart => ~InSlowStart'

\* The increase in Reno fashion is a good move, with and without the floor.
LEMMA RenoIsGood ==
    ASSUME TypeOK, WindowAboveMinimum, NEW floor \in {0, MinWindow},
           IncreaseCongestionWindowAsReno(floor)
    PROVE  GoodMove
  <1>1. /\ MSS \in Nat /\ MSS > 0 /\ MinWindow \in Nat
        /\ congestion_window_ \in Nat /\ slowstart_threshold_ \in Nat
        /\ num_acked_packets_ \in Nat /\ congestion_window_ >= MinWindow
    BY VegasAssumption DEF TypeOK, WindowAboveMinimum, MinWindow
  <1>2. congestion_window_' \in {congestion_window_, congestion_window_ + MSS}
    BY <1>1 DEF IncreaseCongestionWindowAsReno, Larger
  <1>3. slowstart_threshold_' = slowstart_threshold_
        /\ num_acked_packets_' \in {0, num_acked_packets_, num_acked_packets_ + 1}
    BY DEF IncreaseCongestionWindowAsReno
  <1> QED
    BY <1>1, <1>2, <1>3 DEF GoodMove, InSlowStart

\* So is the decision at the end of a round, whatever the two RTTs say.
LEMMA AdjustIsGood ==
    ASSUME TypeOK, WindowAboveMinimum, NEW base \in Nat, base > 0,
           min_rtt_ >= base, AdjustWindow(base)
    PROVE  GoodMove
  <1>1. /\ MSS \in Nat /\ MSS > 0 /\ MinWindow \in Nat
        /\ congestion_window_ \in Nat /\ slowstart_threshold_ \in Nat
        /\ num_acked_packets_ \in Nat /\ congestion_window_ >= MinWindow
        /\ num_acked_packets_' = num_acked_packets_ /\ MSS <= MinWindow
    BY VegasAssumption DEF TypeOK, WindowAboveMinimum, MinWindow, AdjustWindow
  <1>2. CASE SpeedUp \/ Hold
    BY <1>1, <1>2 DEF SpeedUp, Hold, GoodMove, Larger, InSlowStart
  <1>3. CASE SlowDown
    BY <1>1, <1>3 DEF SlowDown, GoodMove, Larger, InSlowStart
  <1>4. CASE LeaveSlowStart(base) /\ InSlowStart
    <2>1. Target(base) \in Nat
      <3>1. congestion_window_ * base \in Nat /\ min_rtt_ \in Nat /\ min_rtt_ > 0
        BY <1>1 DEF TypeOK
      <3>2. (congestion_window_ * base) \div min_rtt_ \in Nat
        BY <3>1, QuotientIsNat, Zenon
      <3>3. (congestion_window_ * base) \div min_rtt_ + MSS - 1 \in Nat
        BY <1>1, <3>2
      <3>4. ((congestion_window_ * base) \div min_rtt_ + MSS - 1) \div MSS \in Nat
        BY <1>1, <3>3, QuotientIsNat, Zenon
      <3> QED
        BY <1>1, <3>4 DEF Target
    <2> HIDE DEF Target
    <2> QED
      BY <1>1, <1>4, <2>1 DEF LeaveSlowStart, GoodMove, Larger, Smaller, InSlowStart
  <1> QED
    BY <1>2, <1>3, <1>4 DEF AdjustWindow

\* One acknowledged packet: the window moves well, the round stays measured.
LEMMA AckedStep ==
    ASSUME IInv, OnPacketAcked
    PROVE  IInv' /\ GoodMove
  <1> DEFINE p == First(acked_packets)
  <1>1. /\ TypeOK /\ WindowAboveMinimum /\ RoundIsMeasured /\ FilterInOrder
        /\ fault = "none" /\ inEvent /\ acked_packets # {}
        /\ acked_packets' = acked_packets \ {p}
        /\ largest_acked_packet_number_' = Larger(largest_acked_packet_number_, p)
        /\ UNCHANGED <<lost_packets, before, inEvent, manager, baseRTTFilter_,
                       vegas_mode_, largest_sent_at_last_cutback_>>
    BY DEF IInv, OnPacketAcked
  <1>2. p \in 1 .. largest_sent_packet_number_
        /\ largest_sent_packet_number_ \in Nat
    <2>1. /\ acked_packets \in SUBSET (1 .. largest_sent_packet_number_)
          /\ largest_sent_packet_number_ \in Nat
      BY <1>1, VegasAssumption DEF TypeOK
    <2> QED
      BY <1>1, <2>1, FirstIsLeast, Zenon
  <1>3. beg_send_next_ # None
    BY <1>1, <1>2 DEF RoundIsMeasured, None
  <1> HIDE DEF p
  <1>4. /\ GoodMove
        /\ fault' \in {"none", "rtt_check"}
        /\ UNCHANGED round \/ BeginRound
    <2>1. CASE ~vegas_mode_
      BY <1>1, <2>1, RenoIsGood DEF OnPacketAcked
    <2>2. CASE vegas_mode_ /\ p >= beg_send_next_
      <3>1. EndRound
        BY <1>3, <2>2 DEF OnPacketAcked, p
      <3>2. CASE rtt_count_ <= 2
        BY <1>1, <3>1, <3>2, RenoIsGood DEF EndRound
      <3>3. CASE ~(rtt_count_ <= 2) /\ min_rtt_ < GetBest(baseRTTFilter_)
        <4>1. UNCHANGED <<window, num_acked_packets_>> /\ fault' = "rtt_check" /\ BeginRound
          BY <3>1, <3>3 DEF EndRound
        <4> QED
          BY <1>1, <4>1, VegasAssumption DEF window, GoodMove, TypeOK, WindowAboveMinimum, InSlowStart
      <3>4. CASE ~(rtt_count_ <= 2) /\ ~(min_rtt_ < GetBest(baseRTTFilter_))
        <4>1. GetBest(baseRTTFilter_) \in Nat /\ GetBest(baseRTTFilter_) > 0
              /\ min_rtt_ >= GetBest(baseRTTFilter_)
          BY <1>1, <3>4 DEF TypeOK, FilterInOrder, GetBest
        <4>2. AdjustWindow(GetBest(baseRTTFilter_)) /\ fault' = fault /\ BeginRound
          BY <3>1, <3>4 DEF EndRound
        <4> QED
          BY <1>1, <4>1, <4>2, AdjustIsGood
      <3> QED
        BY <3>2, <3>3, <3>4
    <2>3. CASE vegas_mode_ /\ ~(p >= beg_send_next_)
      <3>1. (IF InSlowStart THEN SpeedUp ELSE Hold)
            /\ UNCHANGED <<num_acked_packets_, round, fault>>
        BY <1>3, <2>3 DEF OnPacketAcked, p
      <3> QED
        BY <1>1, <3>1, VegasAssumption
        DEF SpeedUp, Hold, GoodMove, Larger, InSlowStart, TypeOK,
            WindowAboveMinimum, MinWindow
    <2> QED
      BY <2>1, <2>2, <2>3
  <1>5. /\ beg_send_next_' \in 0 .. largest_sent_packet_number_
        /\ beg_send_next_' = None <=> largest_sent_packet_number_ = None
        /\ min_rtt_' \in Nat /\ rtt_count_' \in Nat
        /\ min_rtt_' = Infinite <=> rtt_count_' = 0
        /\ rtt_count_' > 0 => rtt_count_ > 0
    BY <1>1, <1>2, <1>4, VegasAssumption
    DEF round, BeginRound, TypeOK, RoundIsMeasured, None
  <1>6. TypeOK'
    <2>1. largest_acked_packet_number_' \in 0 .. largest_sent_packet_number_
      BY <1>1, <1>2 DEF Larger, TypeOK
    <2> QED
      BY <1>1, <1>4, <1>5, <2>1, Zenon DEF TypeOK, GoodMove, manager
  <1> QED
    BY <1>1, <1>4, <1>5, <1>6
    DEF IInv, WindowAboveMinimum, GoodMove, ModeFollowsRecovery, RoundIsMeasured,
        FilterInOrder, manager, MinWindow

\* One lost packet cuts the window at most once and by at most half.
LEMMA LostStep ==
    ASSUME IInv, OnPacketLost
    PROVE  /\ IInv'
           /\ ~InSlowStart => ~InSlowStart'
           /\ congestion_window_' <= congestion_window_
           /\ congestion_window_' >= congestion_window_ \div 2
           /\ congestion_window_' # congestion_window_ =>
                largest_sent_at_last_cutback_ < largest_sent_packet_number_
  <1> DEFINE p == First(lost_packets)
  <1>1. /\ TypeOK /\ WindowAboveMinimum /\ RoundIsMeasured /\ FilterInOrder
        /\ fault = "none" /\ inEvent /\ lost_packets # {}
        /\ lost_packets' = lost_packets \ {p}
        /\ UNCHANGED <<round, acked_packets, before, inEvent, manager, mode,
                       largest_acked_packet_number_>>
    BY DEF IInv, OnPacketLost
  <1>2. p \in 1 .. largest_sent_packet_number_
        /\ largest_sent_packet_number_ \in Nat
    <2>1. /\ lost_packets \in SUBSET (1 .. largest_sent_packet_number_)
          /\ largest_sent_packet_number_ \in Nat
      BY <1>1, VegasAssumption DEF TypeOK
    <2> QED
      BY <1>1, <2>1, FirstIsLeast, Zenon
  <1>3. /\ congestion_window_ \in Nat /\ congestion_window_ >= MinWindow
        /\ MinWindow \in Nat
    BY <1>1, VegasAssumption DEF TypeOK, WindowAboveMinimum, MinWindow
  <1>7. /\ congestion_window_ \div 2 \in Nat
        /\ congestion_window_ \div 2 <= congestion_window_
    BY <1>3, QuotientIsNat
  <1>4. /\ HalvedWindow \in Nat /\ HalvedWindow >= MinWindow
        /\ HalvedWindow >= congestion_window_ \div 2
        /\ HalvedWindow <= congestion_window_
    BY <1>3, <1>7 DEF HalvedWindow, Larger
  <1> HIDE DEF p
  <1>5. CASE AlreadyCut(p)
    <2>1. UNCHANGED <<window, largest_sent_at_last_cutback_, num_acked_packets_>>
      BY <1>5 DEF OnPacketLost, p
    <2>2. TypeOK'
      BY <1>1, <2>1, Zenon DEF TypeOK, window, round, manager, mode
    <2> QED
      BY <1>1, <1>3, <1>7, <2>1, <2>2
      DEF IInv, WindowAboveMinimum, ModeFollowsRecovery, RoundIsMeasured,
          FilterInOrder, MinWindow, InSlowStart, window, round, manager, mode
  <1>6. CASE ~AlreadyCut(p)
    <2>1. /\ congestion_window_' = HalvedWindow /\ slowstart_threshold_' = HalvedWindow
          /\ largest_sent_at_last_cutback_' = largest_sent_packet_number_
          /\ num_acked_packets_' = 0
      BY <1>6 DEF OnPacketLost, p
    <2>2. TypeOK'
      BY <1>1, <1>2, <1>4, <2>1 DEF TypeOK, round, manager, mode
    <2>3. largest_sent_at_last_cutback_ < largest_sent_packet_number_
      BY <1>1, <1>2, <1>6 DEF AlreadyCut, TypeOK, None
    <2> QED
      BY <1>1, <1>3, <1>4, <2>1, <2>2, <2>3
      DEF IInv, WindowAboveMinimum, ModeFollowsRecovery, RoundIsMeasured,
          FilterInOrder, MinWindow, InSlowStart, round, manager, mode
  <1> QED
    BY <1>5, <1>6

\* The beginning of an event records a sample in the filter and the round.
LEMMA EventPreserves ==
    ASSUME IInv, NEW acked \in SUBSET unacked, NEW lost \in SUBSET unacked,
           NEW rtt \in Rtts, OnCongestionEvent(acked, lost, rtt)
    PROVE  IInv'
  <1>1. /\ TypeOK /\ FilterInOrder /\ RoundIsMeasured
        /\ fault = "none" /\ ~inEvent /\ inEvent'
        /\ before' = InRecovery
        /\ acked_packets' = acked /\ lost_packets' = lost
        /\ unacked' = unacked \ acked
        /\ declaredLost' = (declaredLost \cup lost) \ acked
        /\ UNCHANGED <<window, beg_send_next_, recovery, now, num_acked_packets_,
                       largest_sent_packet_number_, vegas_mode_, fault>>
    BY DEF IInv, OnCongestionEvent
  <1>2. rtt + 1 \in Nat \ {ZeroValue} /\ rtt + 1 < Infinite /\ RttWindow \in Nat
        /\ now \in Nat /\ baseRTTFilter_ \in Filter /\ min_rtt_ \in Nat
        /\ rtt_count_ \in Nat /\ Infinite \in Nat
    BY <1>1, VegasAssumption DEF TypeOK, Filter, ZeroValue
  <1>3. /\ baseRTTFilter_' \in Filter
        /\ FilterInOrder'
        /\ min_rtt_' \in Nat /\ rtt_count_' \in Nat
        /\ min_rtt_' = Infinite <=> rtt_count_' = 0
    <2>1. CASE acked # {}
      <3> DEFINE f == UpdateFilter(baseRTTFilter_, RttWindow, rtt + 1, now)
      <3>1. /\ baseRTTFilter_' = f
            /\ min_rtt_' = Smaller(min_rtt_, rtt + 1)
            /\ rtt_count_' = rtt_count_ + 1
        BY <2>1 DEF OnCongestionEvent
      <3>2. Ordered(baseRTTFilter_) /\ baseRTTFilter_[2].time <= now
        BY <1>1 DEF FilterInOrder
      <3>3. /\ f \in Filter /\ Ordered(f) /\ f[2].time <= now
            /\ \/ f[0] = Sample(rtt + 1, now)
               \/ /\ baseRTTFilter_[0].sample # ZeroValue
                  /\ \E j \in 0 .. 2 : f[0] = baseRTTFilter_[j]
        <4>1. LET g == UpdateFilter(baseRTTFilter_, RttWindow, rtt + 1, now)
              IN  /\ g \in Filter
                  /\ Ordered(g)
                  /\ g[2].time <= now
                  /\ \A k \in 0 .. 2 :
                       \/ g[k] = Sample(rtt + 1, now)
                       \/ baseRTTFilter_[0].sample # ZeroValue
                          /\ \E j \in 0 .. 2 : g[k] = baseRTTFilter_[j]
                                                /\ rtt + 1 > baseRTTFilter_[j].sample
                  /\ g[0].sample <= rtt + 1
                  /\ now - g[0].time <= RttWindow
          BY <1>2, <3>2, UpdateKeepsOrTakes, Zenon
        <4> QED
          BY <4>1
      <3>4. \A j \in 0 .. 2 : /\ baseRTTFilter_[j].sample \in Nat
                              /\ baseRTTFilter_[0].sample <= baseRTTFilter_[j].sample
        BY <1>2, <3>2 DEF Filter, Ordered
      <3>5. f[0].sample > 0
        BY <1>2, <3>3, <3>4 DEF Sample, ZeroValue
      <3> HIDE DEF f
      <3> QED
        BY <1>1, <1>2, <3>1, <3>3, <3>5 DEF FilterInOrder, GetBest, Smaller
    <2>2. CASE acked = {}
      <3>1. UNCHANGED <<baseRTTFilter_, min_rtt_, rtt_count_>>
        BY <2>2 DEF OnCongestionEvent
      <3> QED
        BY <1>1, <1>2, <3>1 DEF FilterInOrder, RoundIsMeasured
    <2> QED
      BY <2>1, <2>2
  <1>4. InRecovery \in BOOLEAN
    BY DEF InRecovery
  <1>5. TypeOK'
    <2>1. declaredLost' \subseteq unacked' /\ unacked' \subseteq 1 .. largest_sent_packet_number_
      BY <1>1 DEF TypeOK
    <2>2. before' \in BOOLEAN /\ inEvent' \in BOOLEAN /\ vegas_mode_' \in BOOLEAN
      BY <1>1, <1>4, Zenon DEF TypeOK, OnCongestionEvent
    <2> QED
      BY <1>1, <1>3, <2>1, <2>2 DEF TypeOK, window, recovery, Filter
  <1>6. vegas_mode_ <=> ~InRecovery
    BY <1>1 DEF IInv, ModeFollowsRecovery
  <1> QED
    BY <1>1, <1>3, <1>5, <1>6
    DEF IInv, WindowAboveMinimum, ModeFollowsRecovery, RoundIsMeasured, window

\* The end of an event brings the mode in line with the recovery state.
LEMMA EndPreserves ==
    ASSUME IInv, EndCongestionEvent
    PROVE  IInv'
  <1>1. /\ TypeOK /\ RoundIsMeasured /\ FilterInOrder /\ inEvent
        /\ ~inEvent' /\ inEvent' \in BOOLEAN /\ before' = FALSE
        /\ vegas_mode_' = ModeAfterEvent
        /\ UNCHANGED round \/ BeginRound
        /\ UNCHANGED <<window, acked_packets, lost_packets, recovery, manager,
                       baseRTTFilter_, num_acked_packets_, fault>>
    BY Zenon DEF IInv, EndCongestionEvent
  <1>2. InRecovery \in BOOLEAN /\ before \in BOOLEAN /\ vegas_mode_ \in BOOLEAN
    BY <1>1 DEF InRecovery, TypeOK
  <1>3. vegas_mode_ <=> ~before
    BY <1>1 DEF IInv
  <1>4. vegas_mode_' \in BOOLEAN /\ (vegas_mode_' <=> ~InRecovery)
    BY <1>1, <1>2, <1>3, Zenon DEF ModeAfterEvent
  <1>5. InRecovery' = InRecovery
    BY <1>1 DEF InRecovery, recovery
  <1>6. /\ beg_send_next_' \in 0 .. largest_sent_packet_number_
        /\ beg_send_next_' = None <=> largest_sent_packet_number_ = None
        /\ min_rtt_' \in Nat /\ rtt_count_' \in Nat
        /\ min_rtt_' = Infinite <=> rtt_count_' = 0
        /\ rtt_count_' > 0 => rtt_count_ > 0
    BY <1>1, VegasAssumption DEF round, BeginRound, TypeOK, RoundIsMeasured
  <1>7. TypeOK'
    <2>1. before' \in BOOLEAN
      BY <1>1, Zenon
    <2> QED
      BY <1>1, <1>4, <1>6, <2>1 DEF TypeOK, window, recovery, manager
  <1>8. RoundIsMeasured' /\ FilterInOrder'
    BY <1>1, <1>6 DEF RoundIsMeasured, FilterInOrder, manager
  <1>9. WindowAboveMinimum'
    BY <1>1 DEF IInv, WindowAboveMinimum, window
  <1> QED
    BY <1>1, <1>4, <1>5, <1>7, <1>8, <1>9 DEF IInv, ModeFollowsRecovery

\* The invariant is inductive.
LEMMA NextPreserves == IInv /\ [Next]_vars => IInv'
  <1> SUFFICES ASSUME IInv, [Next]_vars PROVE IInv'
    OBVIOUS
  <1>1. CASE UNCHANGED vars
    BY <1>1
    DEF vars, IInv, TypeOK, WindowAboveMinimum, ModeFollowsRecovery,
        RoundIsMeasured, FilterInOrder, InRecovery, window, round, event,
        recovery, manager, mode
  <1>2. ASSUME NEW acked \in SUBSET unacked, NEW lost \in SUBSET unacked,
               NEW rtt \in Rtts, OnCongestionEvent(acked, lost, rtt)
        PROVE  IInv'
    BY <1>2, EventPreserves
  <1> QED
    BY <1>1, <1>2, SendPreserves, LostStep, AckedStep, EndPreserves DEF Next

-----------------------------------------------------------------------------
\* Every variable of the sender keeps its type: windows and counters stay
\* natural numbers through every division and subtraction.
THEOREM TypeCorrect == Spec => []TypeOK
  <1>1. IInv => TypeOK
    BY DEF IInv
  <1> QED
    BY <1>1, InitIInv, NextPreserves, PTL DEF Spec

\* The window never falls below four packets.
THEOREM MinimumHolds == Spec => []WindowAboveMinimum
  <1>1. IInv => WindowAboveMinimum
    BY DEF IInv
  <1> QED
    BY <1>1, InitIInv, NextPreserves, PTL DEF Spec

\* Between events vegas_mode_ is the negation of InRecovery.
THEOREM ModeIsRecovery == Spec => []ModeFollowsRecovery
  <1>1. IInv => ModeFollowsRecovery
    BY DEF IInv
  <1> QED
    BY <1>1, InitIInv, NextPreserves, PTL DEF Spec

\* The minimum RTT of a round is never used without a sample.
THEOREM MeasuredRounds == Spec => []RoundIsMeasured
  <1>1. IInv => RoundIsMeasured
    BY DEF IInv
  <1> QED
    BY <1>1, InitIInv, NextPreserves, PTL DEF Spec

\* What one step of the sender may do to slow start and to the window.
LEMMA StepMoves ==
    ASSUME IInv, Next
    PROVE  /\ ~InSlowStart => ~InSlowStart'
           /\ inEvent => congestion_window_' <= congestion_window_ + MSS
           /\ (inEvent /\ lost_packets # {}) =>
                /\ congestion_window_' >= congestion_window_ \div 2
                /\ congestion_window_' # congestion_window_ =>
                     largest_sent_at_last_cutback_ < largest_sent_packet_number_
  <1>1. congestion_window_ \in Nat /\ congestion_window_' \in Nat
        /\ MSS \in Nat
    BY NextPreserves, VegasAssumption DEF IInv, TypeOK
  <1>2. CASE OnPacketLost
    BY <1>1, <1>2, LostStep
  <1>3. CASE OnPacketAcked
    BY <1>3, AckedStep DEF GoodMove, OnPacketAcked
  <1>4. CASE EndCongestionEvent
    BY <1>1, <1>4 DEF EndCongestionEvent, InSlowStart, window
  <1>5. CASE \E n \in InitialWindows : SetInitialCongestionWindowInPackets(n)
    BY <1>5 DEF SetInitialCongestionWindowInPackets
  <1>6. CASE OnPacketSent \/ Advance
    BY <1>6 DEF OnPacketSent, Advance, InSlowStart, window
  <1>7. CASE \E acked, lost \in SUBSET unacked, rtt \in Rtts :
               OnCongestionEvent(acked, lost, rtt)
    BY <1>7 DEF OnCongestionEvent, InSlowStart, window
  <1> QED
    BY <1>2, <1>3, <1>4, <1>5, <1>6, <1>7 DEF Next

\* Slow start, once left, is never entered again.
THEOREM SlowStartEndsOnce == Spec => SlowStartIsFinal
  <1>1. IInv /\ [Next]_vars => [~InSlowStart => ~InSlowStart']_vars
    BY StepMoves
  <1> QED
    BY <1>1, InitIInv, NextPreserves, PTL DEF Spec, SlowStartIsFinal

\* The window grows by at most a packet per acknowledged packet, and a flight
\* is cut at most once and by at most half.
THEOREM GradualWindow == Spec => WindowMovesGradually
  <1>1. IInv /\ [Next]_vars =>
          [/\ inEvent => congestion_window_' <= congestion_window_ + MSS
           /\ (inEvent /\ lost_packets # {}) =>
                /\ congestion_window_' >= congestion_window_ \div 2
                /\ congestion_window_' # congestion_window_ =>
                     largest_sent_at_last_cutback_ < largest_sent_packet_number_]_vars
    BY StepMoves
  <1> QED
    BY <1>1, InitIInv, NextPreserves, PTL DEF Spec, WindowMovesGradually
=============================================================================
