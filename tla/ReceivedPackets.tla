---------------------------- MODULE ReceivedPackets ----------------------------
(***************************************************************************)
(* QuicReceivedPacketManager: which packets of the peer were received, and *)
(* when they are acknowledged. Operators on a record (NewReceiver); the    *)
(* PacketNumberQueue is a set of numbers, and the ack timeout is one of    *)
(* none, later (the delayed ack alarm runs) and now.                       *)
(***************************************************************************)
EXTENDS Integers, FiniteSets, FiniteSetsExt

CONSTANTS AckFrequency,      \* kDefaultRetransmittablePacketsBeforeAck
          AfterNewMissing,   \* kMaxPacketsAfterNewMissing
          MaxAckRanges       \* max_ack_ranges_

ASSUME ReceiverAssumption == {AckFrequency, AfterNewMissing, MaxAckRanges} \subseteq Nat \ {0}

NewReceiver == [packets         |-> {},      \* ack_frame_.packets
                updated         |-> FALSE,   \* ack_frame_updated_
                was_missing     |-> FALSE,   \* was_last_packet_missing_
                count           |-> 0,       \* ..._received_since_last_ack_sent_
                last_sent       |-> 0,       \* last_sent_largest_acked_
                timeout         |-> "none"]  \* ack_timeout_

LargestAcked(r) == Max(r.packets \cup {0})

\* The first numbers of the intervals of a set of packet numbers.
Starts(S) == {p \in S : p - 1 \notin S}
LastIntervalLength(S) == Max(S) - Max(Starts(S)) + 1

IsMissing(r, p) == p < LargestAcked(r) /\ p \notin r.packets

\* No STOP_WAITING is received: only duplicates are not awaited.
IsAwaitingPacket(r, p) == p \notin r.packets

RecordPacketReceived(r, p) ==
    [r EXCEPT !.was_missing = IsMissing(r, p), !.updated = TRUE, !.packets = @ \cup {p}]

HasNewMissingPackets(r) ==
    Cardinality(Starts(r.packets)) > 1 /\ LastIntervalLength(r.packets) <= AfterNewMissing

\* Every packet of this connection elicits an ack.
MaybeUpdateAckTimeout(r, p) ==
    IF ~r.updated THEN r
    ELSE IF r.was_missing /\ p < r.last_sent THEN [r EXCEPT !.timeout = "now"]
    ELSE LET t == [r EXCEPT !.count = @ + 1]
         IN  [t EXCEPT !.timeout = IF t.count >= AckFrequency \/ HasNewMissingPackets(t) THEN "now"
                                   ELSE IF @ = "none" THEN "later" ELSE @]

\* The oldest ranges beyond the limit are forgotten for good.
GetUpdatedAckFrame(r) ==
    LET kept == {p \in r.packets :
                   Cardinality({q \in Starts(r.packets) : q > p}) < MaxAckRanges}
    IN  [r EXCEPT !.packets = kept]

ResetAckStates(r) ==
    [r EXCEPT !.updated = FALSE, !.timeout = "none", !.count = 0, !.last_sent = LargestAcked(r)]

=============================================================================
