------------------------------- MODULE SendBuffer -------------------------------
(***************************************************************************)
(* QuicStreamSendBuffer: the bytes of one stream that its application has  *)
(* written and its peer has not acknowledged yet.                          *)
(*                                                                         *)
(* The buffer is passive, so it is a record and one operator per method;   *)
(* the stream that owns it is in Transfer. A QuicIntervalSet of bytes is   *)
(* the set of their offsets, a slice is its offset and length (length 0    *)
(* once its memory was given back), and the bytes themselves are left out. *)
(* The field ok becomes FALSE when a method reaches one of its QUIC_BUGs   *)
(* or makes its caller close the connection.                               *)
(***************************************************************************)
EXTENDS Integers, Sequences, FiniteSets

CONSTANT MaxSlice  \* quic_send_buffer_max_data_slice_size

ASSUME SliceAssumption == MaxSlice \in Nat \ {0}

Least(S) == CHOOSE x \in S : \A y \in S : x <= y
Most(S)  == CHOOSE x \in S : \A y \in S : x >= y

Bytes(offset, length) == offset .. offset + length - 1

EmptyBuffer == [slices      |-> <<>>,   \* interval_deque_
                offset      |-> 0,      \* stream_offset_: bytes saved
                written     |-> 0,      \* stream_bytes_written_
                outstanding |-> 0,      \* stream_bytes_outstanding_
                acked       |-> {},     \* bytes_acked_
                pending     |-> {},     \* pending_retransmissions_
                end         |-> 0,      \* current_end_offset_
                ok          |-> TRUE]

Slice(offset, length) == [offset |-> offset, length |-> length]

\* A write is cut into slices, the last of which may be shorter.
SaveStreamData(b, n) ==
    LET slices == [i \in 1..((n + MaxSlice - 1) \div MaxSlice) |->
                     Slice(b.offset + (i - 1) * MaxSlice,
                           IF i * MaxSlice <= n THEN MaxSlice ELSE n - (i - 1) * MaxSlice)]
        first  == slices[1].offset + slices[1].length
    IN  [b EXCEPT !.slices = @ \o slices,
                  !.offset = @ + n,
                  !.end = IF b.slices = <<>> /\ first > @ THEN first ELSE @]

OnStreamDataConsumed(b, n) == [b EXCEPT !.written = @ + n, !.outstanding = @ + n]

Holds(b, x) == \E i \in DOMAIN b.slices : x \in Bytes(b.slices[i].offset, b.slices[i].length)

\* A frame is serialized from the slices that hold its bytes.
WriteStreamData(b, offset, n) ==
    LET used == {b.slices[i].offset + b.slices[i].length :
                   i \in {j \in DOMAIN b.slices : b.slices[j].offset < offset + n}}
        last == IF used = {} THEN b.end ELSE Most(used)
    IN  [b EXCEPT !.ok = @ /\ b.end >= offset /\ \A x \in Bytes(offset, n) : Holds(b, x),
                  !.end = IF last > @ THEN last ELSE @]

\* The slices in front whose memory is given back leave the deque.
CleanUpBufferedSlices(b) ==
    LET live == {i \in DOMAIN b.slices : b.slices[i].length > 0}
    IN  [b EXCEPT !.slices = IF live = {} THEN <<>> ELSE SubSeq(@, Least(live), Len(@))]

\* Mutant of FreeMemSlices: a slice goes with the first acknowledgement that touches it.
FreeMemSlices_Touched(b, start, end) ==
    [b EXCEPT !.slices = [i \in DOMAIN @ |->
        IF @[i].offset < end /\ @[i].offset + @[i].length > start THEN Slice(@[i].offset, 0) ELSE @[i]]]

\* Gives back every slice from start on, up to end, whose bytes are all acked.
\* The search begins at the first slice that does not end before start.
FreeMemSlices(b, start, end) ==
    LET Ends(i) == b.slices[i].offset + b.slices[i].length
        from    == {i \in DOMAIN b.slices : Ends(i) >= start}
    IN  IF \/ from = {}
           \/ b.slices[1].length = 0
           \/ b.slices[Least(from)].length = 0
        THEN [b EXCEPT !.ok = FALSE]
        ELSE [b EXCEPT !.slices = [i \in DOMAIN @ |->
                 IF /\ i >= Least(from) /\ @[i].offset < end /\ @[i].length > 0
                    /\ Bytes(@[i].offset, @[i].length) \subseteq b.acked
                 THEN Slice(@[i].offset, 0) ELSE @[i]]]

\* Mutant of OnStreamDataAcked: what waits for retransmission is left there.
OnStreamDataAcked_KeepsPending(b, offset, n) ==
    LET new == Bytes(offset, n) \ b.acked
    IN  IF new = {} THEN b
        ELSE CleanUpBufferedSlices(FreeMemSlices(
               [b EXCEPT !.acked = @ \cup new, !.outstanding = @ - Cardinality(new)],
               Least(new), Most(new) + 1))

\* Only the bytes that are newly acked count; they need not be contiguous.
OnStreamDataAcked(b, offset, n) ==
    LET new == Bytes(offset, n) \ b.acked
    IN  IF new = {} THEN b
        ELSE IF b.outstanding < Cardinality(new) THEN [b EXCEPT !.ok = FALSE]
        ELSE LET c == FreeMemSlices([b EXCEPT !.acked = @ \cup new,
                                              !.outstanding = @ - Cardinality(new),
                                              !.pending = @ \ Bytes(offset, n)],
                                    Least(new), Most(new) + 1)
             IN  IF c.ok THEN CleanUpBufferedSlices(c) ELSE c

\* Mutant of OnStreamDataLost: bytes acked meanwhile are sent again.
OnStreamDataLost_Acked(b, offset, n) == [b EXCEPT !.pending = @ \cup Bytes(offset, n)]

OnStreamDataLost(b, offset, n) == [b EXCEPT !.pending = @ \cup (Bytes(offset, n) \ b.acked)]

OnStreamDataRetransmitted(b, offset, n) == [b EXCEPT !.pending = @ \ Bytes(offset, n)]

\* The first interval of a set of offsets.
FirstInterval(S) ==
    LET x == Least(S)
    IN  {y \in S : \A z \in x..y : z \in S}

NextPendingRetransmission(b) == FirstInterval(b.pending)

IsStreamDataOutstanding(b, offset, n) == n > 0 /\ ~(Bytes(offset, n) \subseteq b.acked)

=============================================================================
