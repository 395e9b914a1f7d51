------------------------------ MODULE SentPackets ------------------------------
(***************************************************************************)
(* The packets a connection has sent: QuicUnackedPacketMap, the            *)
(* QuicSentPacketManager that reads acknowledgements into it, and the      *)
(* GeneralLossAlgorithm that decides which of them are lost.               *)
(*                                                                         *)
(* Operators on the record of the sending endpoint (NewSender); packet     *)
(* numbers are those of the application data space, 0 is a number not set, *)
(* and every packet carries one frame. Time is left out: of the packets    *)
(* the time threshold applies to, those up to a number "cut" were sent     *)
(* long enough ago, since packets are sent in the order of their numbers.  *)
(* A timer is set or not.                                                  *)
(***************************************************************************)
EXTENDS StreamSender, SequencesExt

CONSTANTS ReorderingThreshold  \* kDefaultPacketReorderingThreshold

ASSUME ThresholdAssumption == ReorderingThreshold \in Nat \ {0}

NewSender ==
    NewStream @@
    [next            |-> 1,      \* of the packet creator
     info            |-> <<>>,   \* unacked_packets_: number -> Info
     least           |-> 1,      \* least_unacked_
     largest_acked   |-> 0,      \* in an ack frame
     largest_space   |-> 0,      \* of the packets acked so far
     last_acked      |-> {},     \* last_ack_frame_.packets
     aggregated      |-> {},     \* aggregated_stream_frame_, if any
     bytes_in_flight |-> 0,
     credit          |-> 0,      \* pending_timer_transmission_count_
     loss_timeout    |-> FALSE,  \* loss_detection_timeout_ is set
     least_in_flight |-> 0,      \* of the loss algorithm
     threshold       |-> ReorderingThreshold,
     alarm           |-> FALSE,  \* retransmission_alarm_ is set
     send_alarm      |-> FALSE,  \* send_alarm_ is set
     ack_seen        |-> 0,      \* largest_seen_packet_with_ack_
     pace            |-> 0,      \* packets the pacer allows in this step
     out             |-> {}]     \* packets sent in this step

Info(state, in_flight, frame, new) ==
    [state |-> state, in_flight |-> in_flight, frame |-> frame, new |-> new, after_loss |-> 0]

LargestSent(s) == s.least + Cardinality(DOMAIN s.info) - 1
PacketBytes(f) == f.length + 1

IsAckable(i) == i.state \notin {"never", "acked"}

\* Numbers the creator skipped become packets that were never sent.
AddSentPacket(s, f, new) ==
    [s EXCEPT !.info = [p \in s.least .. s.next |->
                          IF p \in DOMAIN s.info THEN s.info[p]
                          ELSE IF p = s.next THEN Info("outstanding", TRUE, f, new)
                          ELSE Info("never", FALSE, Ping, TRUE)],
              !.bytes_in_flight = @ + PacketBytes(f)]

\* Serialize a frame, send it, and count it against the credit of a fired timer.
OnPacketSent(s, f, new) ==
    LET t == AddSentPacket(SetBuffer(s, WriteStreamData(s.buf, f.offset, f.length)), f, new)
    IN  [t EXCEPT !.next = @ + 1,
                  !.credit = IF @ > 0 THEN @ - 1 ELSE @,
                  !.pace = IF @ > 0 THEN @ - 1 ELSE @,
                  !.out = @ \cup {[num |-> s.next, frame |-> f]}]

\* Mutant of RemoveFromInFlight: the bytes are taken off twice.
RemoveFromInFlight_Always(s, p) ==
    [s EXCEPT !.bytes_in_flight = @ - PacketBytes(s.info[p].frame), !.info[p].in_flight = FALSE]

RemoveFromInFlight(s, p) ==
    IF ~s.info[p].in_flight THEN s
    ELSE [s EXCEPT !.ok = @ /\ s.bytes_in_flight >= PacketBytes(s.info[p].frame),
                   !.bytes_in_flight = @ - PacketBytes(s.info[p].frame),
                   !.info[p].in_flight = FALSE]

\* A packet stays as long as it may be acked as the largest, is in flight, or
\* was lost less than one round ago.
IsPacketUseless(s, p) ==
    LET i == s.info[p]
    IN  /\ ~(IsAckable(i) /\ p > s.largest_acked)
        /\ ~i.in_flight
        /\ ~(i.after_loss # 0 /\ i.after_loss > s.largest_acked)

\* Also PostProcessNewlyAckedPackets: acks below least_unacked_ are forgotten.
RemoveObsoletePackets(s) ==
    LET keep  == {p \in DOMAIN s.info : ~IsPacketUseless(s, p)}
        least == IF keep = {} THEN LargestSent(s) + 1 ELSE Least(keep)
    IN  [s EXCEPT !.least = least, !.info = [p \in least .. LargestSent(s) |-> s.info[p]],
                  !.last_acked = {p \in @ : p >= least}]

-----------------------------------------------------------------------------
\* Acknowledged packets.

NotifyAggregatedStreamFrameAcked(s) ==
    IF s.aggregated = {} THEN s
    ELSE [OnFrameAcked(s, CHOOSE a \in s.aggregated : TRUE) EXCEPT !.aggregated = {}]

\* Contiguous frames of packets acked together are reported as one.
MaybeAggregateAckedStreamFrame(s, f) ==
    LET before  == {a \in s.aggregated : f # Ping /\ f.offset = a.offset + a.length}
        joined  == {Frame(a.offset, a.length + f.length, f.fin) : a \in before}
        flushed == NotifyAggregatedStreamFrameAcked(s)
    IN  IF before # {}
        THEN LET t == [s EXCEPT !.aggregated = joined]
             IN  IF f.fin THEN NotifyAggregatedStreamFrameAcked(t) ELSE t
        ELSE IF f = Ping \/ f.fin THEN OnFrameAcked(flushed, f)
        ELSE [flushed EXCEPT !.aggregated = {f}]

\* The threshold is raised so that p would not have been declared lost.
SpuriousLossDetected(s, p) ==
    [s EXCEPT !.ok = @ /\ p < s.largest_space,
              !.threshold = IF s.largest_space - p + 1 > @ THEN s.largest_space - p + 1 ELSE @]

MarkPacketHandled(s, p) ==
    LET i == s.info[p]
        t == IF i.new THEN MaybeAggregateAckedStreamFrame(s, i.frame)
             ELSE OnFrameAcked(NotifyAggregatedStreamFrameAcked(s), i.frame)
        u == IF i.state = "lost" THEN SpuriousLossDetected(t, p) ELSE t
    IN  [RemoveFromInFlight(u, p) EXCEPT !.info[p].frame = Ping, !.info[p].after_loss = 0,
                                         !.info[p].state = "acked"]

\* One packet of OnAckFrameEnd, in ascending order.
OnPacketAcked(s, p) ==
    IF ~IsAckable(s.info[p]) THEN Fail(s)
    ELSE MarkPacketHandled([s EXCEPT !.last_acked = @ \cup {p},
                                     !.largest_space = IF p > @ THEN p ELSE @], p)

\* Mutant of NewlyAcked: an ack is taken for all packets up to its largest.
NewlyAcked_Cumulative(s, packets) == {p \in DOMAIN s.info : IsAckable(s.info[p]) /\ p <= Most(packets)}

\* The packets of an ack frame that are new: OnAckRange.
NewlyAcked(s, packets) == {p \in packets : p >= s.least} \ s.last_acked

-----------------------------------------------------------------------------
\* Lost packets.

\* Mutant of DetectLosses: the search always resumes after the acked packets.
DetectLosses_SkipsHole(s, acked, cut) ==
    LET largest == s.largest_space
        start   == IF acked # {} THEN Most(acked) ELSE s.least
        seen    == {p \in DOMAIN s.info : start <= p /\ p <= largest /\ s.info[p].in_flight}
        lost    == {p \in seen : largest - p >= s.threshold \/ p <= cut}
        waiting == seen \ lost
    IN  [lost |-> lost,
         s    |-> [s EXCEPT !.loss_timeout = waiting # {},
                            !.least_in_flight = IF waiting = {} THEN largest + 1 ELSE Least(waiting)]]

\* Packets in flight below the largest acked are lost when the packet or the time
\* threshold says so; the first one that is not sets the loss timer.
\* least_in_flight is where the next search begins.
DetectLosses(s, acked, cut) ==
    LET largest == s.largest_space
        follows == acked # {} /\ s.least_in_flight # 0 /\ Least(acked) = s.least_in_flight
        hole    == Least({p \in s.least_in_flight .. largest + 1 : p \notin acked})
        from    == IF follows THEN hole ELSE s.least_in_flight
        bug     == from > LargestSent(s) + 1
        start   == IF from >= s.least /\ ~bug THEN from ELSE s.least
        seen    == {p \in DOMAIN s.info : start <= p /\ p <= largest /\ s.info[p].in_flight}
        lost    == {p \in seen : largest - p >= s.threshold \/ p <= cut}
        waiting == seen \ lost
    IN  IF follows /\ Most(acked) = largest /\ s.least_in_flight + Cardinality(acked) - 1 = largest
        THEN [lost |-> {}, s |-> [s EXCEPT !.loss_timeout = FALSE, !.least_in_flight = largest + 1]]
        ELSE [lost |-> lost,
              s    |-> [s EXCEPT !.ok = @ /\ ~bug,
                                 !.loss_timeout = waiting # {},
                                 !.least_in_flight = IF waiting = {} THEN largest + 1 ELSE Least(waiting)]]

\* RemoveFromInFlight and MarkForRetransmission of one lost packet.
MarkLost(s, p) ==
    LET t == OnFrameLost(RemoveFromInFlight(s, p), s.info[p].frame)
    IN  [t EXCEPT !.info[p].after_loss = LargestSent(s) + 1, !.info[p].state = "lost"]

InvokeLossDetection(s, acked, cut) ==
    IF s.largest_space = 0 \/ s.least > s.largest_space THEN s
    ELSE LET d == DetectLosses(s, acked, cut)
         IN  FoldLeft(MarkLost, d.s, SetToSortSeq(d.lost, <))

OnAckFrameEnd(s, acked, cut) ==
    LET handled == FoldLeft(OnPacketAcked, s, SetToSortSeq(acked, <))
    IN  RemoveObsoletePackets(
          InvokeLossDetection(NotifyAggregatedStreamFrameAcked(handled), acked, cut))

\* The time thresholds that are possible: none of the packets, or up to one of them.
Cuts(s) == {0} \cup {p \in DOMAIN s.info : s.info[p].in_flight}

HasInFlightPackets(s) == s.bytes_in_flight > 0

=============================================================================
