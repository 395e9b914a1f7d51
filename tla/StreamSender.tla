------------------------------ MODULE StreamSender ------------------------------
(***************************************************************************)
(* The sending half of one QuicStream, and what QuicSession keeps about    *)
(* it: is it in write_blocked_streams_, is it in                           *)
(* streams_with_pending_retransmission_, was it closed after its last      *)
(* byte was acknowledged.                                                  *)
(*                                                                         *)
(* The operators take the record of the whole sending endpoint, which has  *)
(* the fields of NewStream among others. A frame is its offset, length and *)
(* fin bit; PING has neither data nor fin and concerns no stream. The read *)
(* side of the stream is closed: its data flows one way.                   *)
(***************************************************************************)
EXTENDS SendBuffer

NewStream == [buf             |-> EmptyBuffer,
              fin_buffered    |-> FALSE,
              fin_sent        |-> FALSE,   \* then the write side is closed as well
              fin_outstanding |-> FALSE,
              fin_lost        |-> FALSE,
              write_blocked   |-> FALSE,   \* in write_blocked_streams_
              retransmits     |-> FALSE,   \* in streams_with_pending_retransmission_
              closed          |-> FALSE,   \* no longer in stream_map_
              ok              |-> TRUE]    \* no QUIC_BUG, DCHECK or internal error yet

Frame(offset, length, fin) == [offset |-> offset, length |-> length, fin |-> fin]
Ping == Frame(0, 0, FALSE)

Fail(s) == [s EXCEPT !.ok = FALSE]
\* The send buffer is replaced, and its failures are the stream's.
SetBuffer(s, b) == [s EXCEPT !.buf = b, !.ok = @ /\ b.ok]

BufferedDataBytes(s) == s.buf.offset - s.buf.written
HasBufferedData(s) == BufferedDataBytes(s) > 0
HasPendingRetransmission(s) == s.buf.pending # {} \/ s.fin_lost
IsWaitingForAcks(s) == s.buf.outstanding > 0 \/ s.fin_outstanding
HasNewData(s) == HasBufferedData(s) \/ (s.fin_buffered /\ ~s.fin_sent)

IsFrameOutstanding(s, f) ==
    ~s.closed /\ (IsStreamDataOutstanding(s.buf, f.offset, f.length) \/ (f.fin /\ s.fin_outstanding))

WillingAndAbleToWrite(s) == s.retransmits \/ s.write_blocked

-----------------------------------------------------------------------------
\* What the connection tells the session.

OnStreamFrameAcked(s, f) ==
    LET t == SetBuffer(s, OnStreamDataAcked(s.buf, f.offset, f.length))
        u == [t EXCEPT !.fin_outstanding = @ /\ ~f.fin, !.fin_lost = @ /\ ~f.fin]
    IN  IF ~t.buf.ok \/ (f.fin /\ ~s.fin_sent) THEN Fail(t)
        ELSE [u EXCEPT !.closed = ~IsWaitingForAcks(u) /\ u.fin_sent,
                       !.retransmits = @ /\ HasPendingRetransmission(u)]

OnFrameAcked(s, f) == IF f = Ping \/ s.closed THEN s ELSE OnStreamFrameAcked(s, f)

\* Mutant of OnStreamFrameLost: a lost fin is forgotten.
OnStreamFrameLost_NoFin(s, f) == SetBuffer(s, OnStreamDataLost(s.buf, f.offset, f.length))

OnStreamFrameLost(s, f) ==
    [SetBuffer(s, OnStreamDataLost(s.buf, f.offset, f.length))
       EXCEPT !.fin_lost = @ \/ (f.fin /\ s.fin_outstanding)]

OnFrameLost(s, f) ==
    IF f = Ping \/ s.closed THEN s
    ELSE LET t == OnStreamFrameLost(s, f)
         IN  [t EXCEPT !.retransmits = @ \/ HasPendingRetransmission(t)]

OnStreamFrameRetransmitted(s, f) ==
    [SetBuffer(s, OnStreamDataRetransmitted(s.buf, f.offset, f.length))
       EXCEPT !.fin_lost = @ /\ ~f.fin]

-----------------------------------------------------------------------------
\* What the stream writes: the next frame of each kind, with at most room bytes,
\* and the stream after the connection took it.

Smaller(a, b) == IF a < b THEN a ELSE b

\* The next frame WriteBufferedData has the packet creator make.
NewFrame(s, room) ==
    LET n == Smaller(room, BufferedDataBytes(s))
    IN  Frame(s.buf.written, n, s.fin_buffered /\ n = BufferedDataBytes(s))

\* The stream stays write blocked as long as it has something left to write.
OnNewFrameWritten(s, f) ==
    LET t == [SetBuffer(s, OnStreamDataConsumed(s.buf, f.length))
                EXCEPT !.fin_sent = f.fin, !.fin_outstanding = f.fin]
    IN  [t EXCEPT !.write_blocked = HasNewData(t)]

\* The next frame of WritePendingRetransmission. A lost fin goes with the last
\* byte of the stream if that is lost as well, or else on its own at the end.
LostFrame(s, room) ==
    IF s.buf.pending = {} THEN Frame(s.buf.written, 0, TRUE)
    ELSE LET next == NextPendingRetransmission(s.buf)
             n    == Smaller(room, Cardinality(next))
         IN  Frame(Least(next), n, s.fin_lost /\ Least(next) + n = s.buf.written)

\* The session forgets the stream once nothing of it is lost any more.
OnLostFrameWritten(s, f) ==
    LET t == OnStreamFrameRetransmitted(s, f)
    IN  [t EXCEPT !.retransmits = HasPendingRetransmission(t)]

\* WriteOrBufferData before it writes: the data is saved, and the stream may
\* write at once if nothing was buffered before.
OnDataBuffered(s, n, fin) ==
    LET b == IF n = 0 THEN s.buf ELSE SaveStreamData(s.buf, n)
    IN  [SetBuffer(s, b) EXCEPT !.fin_buffered = fin]

=============================================================================
