-------------------------------- MODULE Transfer --------------------------------
(***************************************************************************)
(* One stream of a QUIC connection, from the application that writes it to *)
(* the peer that receives it, over a network that loses, reorders and      *)
(* duplicates packets: StreamSender and SentPackets on one side,           *)
(* ReceivedPackets on the other, and QuicConnection's timers and writes.   *)
(*                                                                         *)
(* A handler of the event loop runs to its end, so it is one action; the   *)
(* packets it sends are collected in the field out. The congestion window  *)
(* is a constant (the senders that compute one are modules of their own),  *)
(* the pacer lets some number of packets through per step, the socket is   *)
(* never blocked and flow control never limits the stream.                 *)
(***************************************************************************)
EXTENDS SentPackets, ReceivedPackets

CONSTANTS StreamLength,  \* bound: bytes the application writes
          MaxFrame,      \* bytes of the stream that fit into a packet
          CongestionWindow,
          Paces,         \* the numbers of packets the pacer may let through
          PacketBudget,  \* bound: no packet is sent once so many were
          MaxAcks,       \* bound: acks in the network at a time
          DuplicateUntil \* bound: packets are duplicated until so many acks were sent

ASSUME TransferAssumption == /\ {StreamLength, MaxFrame, CongestionWindow} \subseteq Nat \ {0}
                             /\ Paces \subseteq Nat /\ \E q \in Paces : q > 0
                             /\ {PacketBudget, MaxAcks, DuplicateUntil} \subseteq Nat

VARIABLES snd,   \* the sending endpoint: NewSender
          rcv,   \* the receiving one: NewReceiver
          got,   \* external: the bytes of the stream the peer received
          fin,   \* external: it received the end of the stream
          acks,  \* external: ack packets in the network
          data,  \* external: data packets in the network
          acked  \* ack packets sent so far

vars == <<snd, rcv, got, fin, acks, data, acked>>

-----------------------------------------------------------------------------
\* Writing: QuicConnection::CanWrite and what QuicSession::OnCanWrite sends.

\* A timer's credit goes past congestion control and the pacer.
CanWrite(s) == \/ s.credit > 0
               \/ ~s.send_alarm /\ s.bytes_in_flight < CongestionWindow /\ s.pace > 0

\* Mutant of AskPacer: the alarm is left alone with nothing in flight.
AskPacer_InFlight(s) ==
    [s EXCEPT !.send_alarm = @ \/ (s.credit = 0 /\ s.pace = 0 /\ s.bytes_in_flight \in 1..CongestionWindow - 1)]

\* CanWrite has the send alarm set if it is the pacer that says no.
AskPacer(s) ==
    [s EXCEPT !.send_alarm = @ \/ (s.credit = 0 /\ s.bytes_in_flight < CongestionWindow /\ s.pace = 0)]

\* One packet of WriteBufferedData.
WriteNew(s) == LET f == NewFrame(s, MaxFrame)
               IN  OnNewFrameWritten(OnPacketSent(s, f, TRUE), f)

\* One packet of WritePendingRetransmission.
WriteLost(s) == LET f == LostFrame(s, MaxFrame)
                IN  OnLostFrameWritten(OnPacketSent(s, f, FALSE), f)

\* Lost data goes before new data.
WriteOne(s, i) ==
    IF ~WillingAndAbleToWrite(s) THEN s
    ELSE IF ~CanWrite(s) THEN AskPacer(s)
    ELSE IF s.retransmits THEN WriteLost(s) ELSE WriteNew(s)

\* No more packets than these are written in a row.
Burst == [i \in 1 .. 2 * StreamLength + 2 |-> i]

OnCanWrite(s) == IF CanWrite(s) THEN FoldLeft(WriteOne, s, Burst) ELSE AskPacer(s)

\* WriteOrBufferData writes new data only, whatever else is waiting.
WriteBuffered(s, i) ==
    IF ~HasNewData(s) THEN s ELSE IF ~CanWrite(s) THEN AskPacer(s) ELSE WriteNew(s)

WriteBufferedData(s) ==
    LET t == FoldLeft(WriteBuffered, s, Burst)
    IN  [t EXCEPT !.write_blocked = HasNewData(t)]

\* Mutant of SetRetransmissionAlarm: it only runs as long as data is outstanding.
SetRetransmissionAlarm_Data(s) == [s EXCEPT !.alarm = s.loss_timeout]

\* The alarm runs while packets are in flight and no credit is left.
SetRetransmissionAlarm(s) == [s EXCEPT !.alarm = HasInFlightPackets(s) /\ s.credit = 0]

\* The alarm is set anew after a packet was sent.
AfterWrite(s) == IF s.out = {} THEN s ELSE SetRetransmissionAlarm(s)

\* The end of a step: what it sent is in the network.
Flush(s) == /\ data' = data \cup s.out
            /\ snd' = [s EXCEPT !.out = {}, !.pace = 0]

-----------------------------------------------------------------------------
\* The sender's steps.

Sends == snd.next <= PacketBudget

WriteOrBufferData(n, end, q) ==
    /\ Sends /\ ~snd.fin_buffered
    /\ n > 0 \/ end
    /\ snd.buf.offset + n <= StreamLength
    /\ end => snd.buf.offset + n = StreamLength
    /\ LET s == OnDataBuffered([snd EXCEPT !.pace = q], n, end)
       IN  Flush(IF HasBufferedData(snd) THEN s ELSE AfterWrite(WriteBufferedData(s)))
    /\ UNCHANGED <<rcv, got, fin, acks, acked>>

SendAlarm(q) ==
    /\ Sends /\ snd.send_alarm
    /\ q > 0
    /\ Flush(AfterWrite(OnCanWrite([snd EXCEPT !.send_alarm = FALSE, !.pace = q])))
    /\ UNCHANGED <<rcv, got, fin, acks, acked>>

\* RetransmitStreamData: one interval of the frame that is not acked, then the fin.
\* r.left and r.fin are what is still to be sent.
RetransmitOne(r, i) ==
    LET next == FirstInterval(r.left)
        f    == IF r.left = {} THEN Frame(r.s.buf.written, 0, TRUE)
                ELSE Frame(Least(next), Cardinality(next), r.fin /\ Most(next) + 1 = r.s.buf.written)
        t    == OnPacketSent(r.s, f, FALSE)
    IN  IF r.left = {} /\ ~r.fin THEN r
        ELSE IF ~CanWrite(r.s) THEN [r EXCEPT !.s = AskPacer(@)]
        ELSE IF r.left = {} THEN [r EXCEPT !.s = t, !.fin = FALSE]
        ELSE [s |-> OnStreamFrameRetransmitted(t, f), left |-> r.left \ next, fin |-> r.fin /\ ~f.fin]

RetransmitStreamData(s, f) ==
    FoldLeft(RetransmitOne, [s    |-> s,
                             left |-> Bytes(f.offset, f.length) \ s.buf.acked,
                             fin  |-> f.fin /\ s.fin_outstanding], Burst).s

\* The oldest outstanding packet that still matters is sent again; it stays in
\* flight.
MaybeSendProbePackets(s) ==
    LET probes == {p \in DOMAIN s.info : /\ s.info[p].state = "outstanding"
                                         /\ IsFrameOutstanding(s, s.info[p].frame)}
        p      == Least(probes)
    IN  IF s.credit = 0 \/ probes = {} THEN s
        ELSE [RetransmitStreamData(s, s.info[p].frame)
                EXCEPT !.info[p].state = "pto", !.ok = @ /\ s.info[p].in_flight]

\* A PING when the timer found nothing else to send.
SendPing(s) == IF s.out = {} /\ ~WillingAndAbleToWrite(s) THEN OnPacketSent(s, Ping, TRUE) ELSE s

AdjustPendingTimerTransmissions(s) == [s EXCEPT !.credit = IF @ < 1 THEN 0 ELSE 1]

\* Nothing was sent, and nothing will be.
TimerWasted(s) == s.out = {} /\ (~WillingAndAbleToWrite(s) \/ s.credit = 0)

\* The retransmission alarm in LOSS_MODE: the packet it was set for is lost now.
LossTimeout(cut, q) ==
    /\ Sends /\ snd.alarm /\ snd.loss_timeout
    /\ cut >= snd.least_in_flight
    /\ LET s == InvokeLossDetection([snd EXCEPT !.alarm = FALSE, !.pace = q], {}, cut)
           t == AfterWrite(OnCanWrite(s))
       IN  Flush(IF t.alarm THEN t ELSE SetRetransmissionAlarm(t))
    /\ UNCHANGED <<rcv, got, fin, acks, acked>>

\* The alarm in PTO_MODE: a packet number is skipped, then new data, a probe or a
\* PING is sent.
ProbeTimeout(q) ==
    /\ Sends /\ snd.alarm /\ ~snd.loss_timeout
    /\ LET s == [snd EXCEPT !.alarm = FALSE, !.pace = q, !.credit = 1, !.next = @ + 1,
                            !.ok = @ /\ snd.credit = 0]
           t == AdjustPendingTimerTransmissions(SendPing(MaybeSendProbePackets(OnCanWrite(s))))
       IN  Flush(SetRetransmissionAlarm(IF TimerWasted(t) THEN Fail(t) ELSE t))
    /\ UNCHANGED <<rcv, got, fin, acks, acked>>

\* An ack frame: an older one than the last is ignored.
ReceiveAck(a, cut, q) ==
    /\ Sends
    /\ acks' = acks \ {a}
    /\ LET new == NewlyAcked(snd, a.packets)
           s   == [snd EXCEPT !.ack_seen = a.num, !.send_alarm = FALSE, !.pace = q,
                              !.largest_acked = IF Max(a.packets) > @ THEN Max(a.packets) ELSE @]
           t   == OnCanWrite(OnAckFrameEnd(s, new, cut))
       IN  IF a.num > snd.ack_seen THEN Flush(SetRetransmissionAlarm(t))
           ELSE UNCHANGED <<snd, data>>
    /\ UNCHANGED <<rcv, got, fin, acked>>

-----------------------------------------------------------------------------
\* The receiver's steps.

\* An ack frame is sent, and all that was waiting for one is reset.
SendAck(r) ==
    LET u == GetUpdatedAckFrame(r)
    IN  /\ rcv' = ResetAckStates(u)
        /\ acked' = acked + 1
        /\ acks' = IF Cardinality(acks) < MaxAcks
                   THEN acks \cup {[num |-> acked + 1, packets |-> u.packets]} ELSE acks

\* A duplicate may be left in the network.
ReceivePacket(d, rest) ==
    /\ rest # {} => acked < DuplicateUntil
    /\ data' = (data \ {d}) \cup rest
    /\ IF ~IsAwaitingPacket(rcv, d.num) THEN UNCHANGED <<rcv, got, fin, acks, acked>>
       ELSE /\ got' = got \cup Bytes(d.frame.offset, d.frame.length)
            /\ fin' = (fin \/ d.frame.fin)
            /\ LET r == MaybeUpdateAckTimeout(RecordPacketReceived(rcv, d.num), d.num)
               IN  IF r.timeout = "now" THEN SendAck(r)
                   ELSE rcv' = r /\ UNCHANGED <<acks, acked>>
    /\ UNCHANGED snd

AckAlarm == /\ rcv.timeout = "later"
            /\ SendAck(rcv)
            /\ UNCHANGED <<snd, got, fin, data>>

\* The network.
LoseData(d) == data' = data \ {d} /\ UNCHANGED <<snd, rcv, got, fin, acks, acked>>
LoseAck(a)  == acks' = acks \ {a} /\ UNCHANGED <<snd, rcv, got, fin, data, acked>>

-----------------------------------------------------------------------------
Init == /\ snd = NewSender
        /\ rcv = NewReceiver
        /\ got = {} /\ fin = FALSE
        /\ acks = {} /\ data = {} /\ acked = 0

\* Something is still to happen: data to write, a timer that runs, a packet in
\* the network.
Runnable == \/ Sends /\ (~snd.fin_buffered \/ snd.send_alarm \/ snd.alarm)
            \/ data # {} \/ acks # {} \/ rcv.timeout = "later"

Finished == ~Runnable /\ UNCHANGED vars

Next == \/ \E n \in 0..2, end \in BOOLEAN, q \in Paces : WriteOrBufferData(n, end, q)
        \/ \E q \in Paces : SendAlarm(q) \/ ProbeTimeout(q)
        \/ \E q \in Paces, cut \in Cuts(snd) : LossTimeout(cut, q)
        \/ \E a \in acks, q \in Paces, cut \in Cuts(snd) : ReceiveAck(a, cut, q)
        \/ \E d \in data : ReceivePacket(d, {}) \/ ReceivePacket(d, {d}) \/ LoseData(d)
        \/ \E a \in acks : LoseAck(a)
        \/ AckAlarm
        \/ Finished

Spec == Init /\ [][Next]_vars

\* The least the event loop guarantees: it does not stop while something is still
\* to happen. Which of several things happens is open, losses included.
Fairness == []<>(~Runnable) \/ []<><<TRUE>>_vars

FairSpec == Spec /\ Fairness

-----------------------------------------------------------------------------
\* No QUIC_BUG, DCHECK or internal error of the sender is ever reached: no byte is
\* acked that is not outstanding, no slice is freed twice, every frame finds its
\* bytes in the buffer, no packet is acked twice, and no timer fires for nothing.
NoInternalError == snd.ok

\* What the application wrote and the peer has not acked is waiting to be sent,
\* waiting to be sent again, or in a packet in flight, which is acked or lost
\* some day. The same goes for the end of the stream.
NothingForgotten ==
    LET flying == {i \in {snd.info[p] : p \in DOMAIN snd.info} : i.in_flight}
    IN  /\ \A x \in 0 .. snd.buf.offset - 1 :
             \/ x \in snd.buf.acked
             \/ x >= snd.buf.written /\ snd.write_blocked
             \/ x \in snd.buf.pending /\ snd.retransmits
             \/ \E i \in flying : x \in Bytes(i.frame.offset, i.frame.length)
        /\ snd.fin_buffered =>
             \/ snd.fin_sent /\ ~snd.fin_outstanding
             \/ ~snd.fin_sent /\ snd.write_blocked
             \/ snd.fin_lost /\ snd.retransmits
             \/ \E i \in flying : i.frame.fin

\* No endpoint goes to sleep with work to do: with packets in flight the
\* retransmission alarm runs, with data to write the send alarm does unless the
\* congestion window is full, and with a packet received and not acked yet the ack
\* alarm does.
NeverIdle ==
    /\ (\E p \in DOMAIN snd.info : snd.info[p].in_flight) => snd.alarm
    /\ WillingAndAbleToWrite(snd) => snd.send_alarm \/ snd.bytes_in_flight >= CongestionWindow
    /\ rcv.updated => rcv.timeout = "later"

\* bytes_in_flight_ is the sum over the packets in flight, so that losses, acks and
\* late acks of packets already declared lost leave the congestion window its size.
FlightIsExact ==
    snd.bytes_in_flight = MapThenSumSet(LAMBDA p : PacketBytes(snd.info[p].frame),
                                        {p \in DOMAIN snd.info : snd.info[p].in_flight})

\* Where the loss detection resumes its search, it has left no packet in flight
\* behind: one sent before the largest acked is waited for by the loss timer.
HolesAreTimed ==
    \A p \in DOMAIN snd.info : snd.info[p].in_flight /\ p < snd.largest_space => snd.loss_timeout

\* The send buffer holds every byte that may have to be sent again, and no slice
\* whose bytes are all acked; the count of outstanding bytes is that of the set.
BufferIsExact ==
    LET b == snd.buf
    IN  /\ \A x \in 0 .. b.offset - 1 : x \notin b.acked => Holds(b, x)
        /\ \A i \in DOMAIN b.slices : b.slices[i].length > 0 =>
             ~(Bytes(b.slices[i].offset, b.slices[i].length) \subseteq b.acked)
        /\ b.outstanding = b.written - Cardinality(b.acked)
        /\ b.pending \subseteq (0 .. b.written - 1) \ b.acked

\* Bandwidth is not spent on what the peer is known to have: a packet carries a
\* byte or an end that is not acked, or it is the PING of a timer.
SendsOnlyUnacked ==
    [][\A d \in data' \ data : d.frame = Ping \/ IsFrameOutstanding(snd', d.frame)]_vars

\* The transfer is a reliable stream: nothing is forgotten before it arrived.
Stream == INSTANCE ByteStream WITH written <- snd.buf.offset, ended <- snd.fin_buffered,
                                   delivered <- got, endSeen <- fin,
                                   released <- snd.buf.acked, closed <- snd.closed

ImplementsByteStream == Stream!Spec

\* All of it is acked in the end, and the stream closed, unless the bound on
\* packets was reached first.
AllAcked == <>(snd.closed \/ ~Sends)

=============================================================================
