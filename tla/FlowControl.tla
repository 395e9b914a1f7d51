------------------------------ MODULE FlowControl ------------------------------
(***************************************************************************)
(* One stream under flow control: the writing endpoint, which may send as  *)
(* far as the windows of the stream and of the connection reach, and the   *)
(* reading one, which puts what it receives into the ring, hands it to the *)
(* application and sends WINDOW_UPDATEs.                                   *)
(*                                                                         *)
(* Data is sent until it is acked (module Transfer), so any part of what   *)
(* was sent may arrive at any time and any number of times. WINDOW_UPDATEs *)
(* are followed one by one: the network loses, duplicates and reorders     *)
(* them, and they may be taken for lost when they are not. As everywhere,  *)
(* a handler of the event loop is one action.                              *)
(***************************************************************************)
EXTENDS ReceiveBuffer, FlowController

CONSTANTS MaxNumFrames,
          StreamLength,  \* bound: bytes the application writes
          Chunks,        \* the sizes of its writes
          MaxFrame,      \* bytes of the stream that fit into a packet
          Rooms,         \* how much an endpoint's connection may take in one step
          MaxLosses      \* bound: WINDOW_UPDATEs lost or not acked in time

INSTANCE ControlFrames

ASSUME FlowControlAssumption == /\ {StreamLength, MaxFrame, MaxNumFrames} \subseteq Nat \ {0}
                                /\ Chunks \subseteq Nat /\ Rooms \subseteq Nat
                                /\ MaxLosses \in Nat
                                /\ Capacity = StreamLimit  \* kStreamReceiveWindowLimit is both

VARIABLES snd,     \* the writing endpoint
          rcv,     \* the reading endpoint
          net,     \* external: WINDOW_UPDATEs in the network
          seen,    \* external: WINDOW_UPDATEs that arrived
          losses   \* how many were lost or not acked in time

vars == <<snd, rcv, net, seen, losses>>

NoFin == -1

NewWriter == [offset        |-> 0,      \* bytes the application wrote
              sent          |-> 0,      \* bytes_sent_ of both controllers
              window        |-> Windows,  \* send_window_offset_ of each
              fin_buffered  |-> FALSE,
              fin_sent      |-> FALSE,
              write_blocked |-> FALSE,  \* in write_blocked_streams_
              ok            |-> TRUE]

NewReader == [ring    |-> EmptyRing,
              highest |-> 0,        \* highest_offset_ of the sequencer
              close   |-> NoFin,    \* close_offset_
              closed  |-> FALSE,    \* read_side_closed_
              window  |-> [c \in Controllers |-> NewWindow(c)],
              frames  |-> NewManager,
              ok      |-> TRUE]

-----------------------------------------------------------------------------
\* The writing endpoint.

StreamBlocked(s) == IsBlocked(s.sent, s.window["stream"])
ConnectionBlocked(s) == IsBlocked(s.sent, s.window["connection"])

\* Mutant of MaybeSendBlocked: it is left to the WINDOW_UPDATE of the connection.
MaybeSendBlocked_Waits(s) == s

\* A stream only the connection's window holds up waits in the list for it. (The
\* BLOCKED frames are left out: the peer does nothing about them.)
MaybeSendBlocked(s) ==
    [s EXCEPT !.write_blocked = @ \/ (ConnectionBlocked(s) /\ ~StreamBlocked(s))]

\* Mutant of SendWindow: the connection's window is not looked at.
SendWindow_Stream(s) == SendWindowSize(s.sent, s.window["stream"])

SendWindow(s) == Least2(SendWindowSize(s.sent, s.window["stream"]),
                        SendWindowSize(s.sent, s.window["connection"]))

\* room is how many bytes the connection takes; a fin needs some room as well.
WriteBufferedData(s, room) ==
    LET left     == s.offset - s.sent
        finAlone == s.fin_buffered /\ left = 0
        length   == Least2(left, SendWindow(s))
        fin      == s.fin_buffered /\ left <= SendWindow(s)
        consumed == Least2(length, room)
        finTaken == fin /\ consumed = length /\ room > 0
        t        == [s EXCEPT !.sent = @ + consumed,
                              !.ok = @ /\ \A c \in Controllers : s.sent + consumed <= s.window[c]]
        u        == IF finAlone THEN t ELSE MaybeSendBlocked(t)
    IN  IF SendWindow(s) = 0 /\ ~finAlone THEN MaybeSendBlocked(s)
        ELSE IF consumed # length THEN [t EXCEPT !.write_blocked = TRUE]
        ELSE IF finTaken THEN [u EXCEPT !.fin_sent = TRUE]
        ELSE IF fin THEN [u EXCEPT !.write_blocked = TRUE]
        ELSE u

HasNewData(s) == s.offset > s.sent \/ (s.fin_buffered /\ ~s.fin_sent)

\* QuicSession::OnCanWrite: nothing is written while the connection is blocked, and
\* a stream that is blocked leaves the list.
WriterOnCanWrite(s, room) ==
    LET t == [s EXCEPT !.write_blocked = FALSE]
    IN  IF ConnectionBlocked(s) \/ ~s.write_blocked \/ room = 0 THEN s
        ELSE IF StreamBlocked(s) \/ ~HasNewData(s) THEN t
        ELSE WriteBufferedData(t, room)

\* WriteMemSlices, also when OnCanWrite asks the application for more.
Write(n, end, room) ==
    /\ ~snd.fin_buffered
    /\ n > 0 \/ end
    /\ snd.offset + n <= StreamLength
    /\ end => snd.offset + n = StreamLength
    /\ LET s == [snd EXCEPT !.offset = @ + n, !.fin_buffered = end]
       IN  snd' = IF snd.offset > snd.sent THEN s ELSE WriteBufferedData(s, room)
    /\ UNCHANGED <<rcv, net, seen, losses>>

\* The send alarm, or an ack that made room.
ResumeWriting(room) == /\ room > 0 /\ snd.write_blocked /\ ~ConnectionBlocked(snd)
                       /\ snd' = WriterOnCanWrite(snd, room)
                       /\ UNCHANGED <<rcv, net, seen, losses>>

\* Mutant of UpdateSendWindowOffset: the last update that arrives counts.
UpdateSendWindowOffset_Any(s, f) ==
    [s EXCEPT !.window[f.about] = f.max,
              !.write_blocked = @ \/ (f.about = "stream" /\ StreamBlocked(s))]

\* Windows only grow. The stream's has the session put the stream on the list.
UpdateSendWindowOffset(s, f) ==
    IF f.max <= s.window[f.about] THEN s
    ELSE [s EXCEPT !.window[f.about] = f.max,
                   !.write_blocked = @ \/ (f.about = "stream" /\ StreamBlocked(s))]

\* OnWindowUpdateFrame and the write that follows every packet. The frame may come
\* again: rest is what remains in the network.
ReceiveWindowUpdate(f, rest, room) ==
    /\ snd' = WriterOnCanWrite(UpdateSendWindowOffset(snd, f), room)
    /\ net' = (net \ {f}) \cup rest
    /\ seen' = seen \cup {f}
    /\ UNCHANGED <<rcv, losses>>

-----------------------------------------------------------------------------
\* The reading endpoint.

SendWindowUpdate(r, c) ==
    LET w == UpdateReceiveWindowOffset(r.window[c])
    IN  [r EXCEPT !.window[c] = w,
                  !.frames = WriteOrBufferWindowUpdate(@, c, w.offset)]

EnsureWindowAtLeast(r, size) ==
    IF IsEnsured(r.window["connection"], size) THEN r
    ELSE SendWindowUpdate([r EXCEPT !.window["connection"] = IncreaseWindowSize(@)], "connection")

\* AddBytesConsumed of one controller. A stream's window that grew has the session
\* see to its own.
ConsumeWindow(r, c, n, fast) ==
    LET w == AddConsumed(r.window[c], n)
        v == MaybeIncreaseMaxWindowSize(w, fast)
        t == [r EXCEPT !.window[c] = v]
        u == IF c = "stream" /\ v.size > w.size
             THEN EnsureWindowAtLeast(t, SessionWindow(v.size)) ELSE t
    IN  IF IsUpdateDue(w) THEN SendWindowUpdate(u, c) ELSE [r EXCEPT !.window[c] = w]

\* The stream's controller first; fast tells for each if its last update was recent.
AddBytesConsumed(r, n, fast) ==
    ConsumeWindow(ConsumeWindow(r, "stream", n, fast["stream"]), "connection", n, fast["connection"])

CloseReadSide(r) == [r EXCEPT !.closed = TRUE, !.ring = ReleaseWholeBuffer(@)]

IsClosed(r) == r.close # NoFin /\ r.ring.read >= r.close

\* OnDataAvailable: the channel reads all there is.
OnDataAvailable(r, fast) ==
    LET t == [r EXCEPT !.ring = Readv(@)]
        u == AddBytesConsumed(t, t.ring.read - r.ring.read, fast)
    IN  IF IsClosed(r) THEN CloseReadSide(r)
        ELSE IF ~t.ring.ok THEN t
        ELSE IF IsClosed(u) THEN CloseReadSide(u) ELSE u

\* The application is told when there is something to read and was nothing before.
OnFrameData(r, f, fast) ==
    LET t == [r EXCEPT !.ring = OnStreamData(@, f.offset, f.length),
                       !.highest = IF f.offset + f.length > @ THEN f.offset + f.length ELSE @]
    IN  IF t.ring.ok /\ ReadableBytes(r.ring) = 0 /\ ReadableBytes(t.ring) > 0
        THEN OnDataAvailable(t, fast) ELSE t

\* The end of the stream may come before the data, or after all of it was read.
CloseStreamAtOffset(r, end, fast) ==
    LET t == [r EXCEPT !.close = end]
    IN  IF (r.close # NoFin /\ r.close # end) \/ end < r.highest THEN [r EXCEPT !.ok = FALSE]
        ELSE IF IsClosed(t) THEN OnDataAvailable(t, fast) ELSE t

\* QuicStreamSequencer::OnStreamFrame.
Sequence(r, f, fast) ==
    LET t == IF f.fin THEN CloseStreamAtOffset(r, f.offset + f.length, fast) ELSE r
    IN  IF f.length = 0 \/ ~t.ok THEN t ELSE OnFrameData(t, f, fast)

\* Both controllers see how far the peer has got.
IncreaseHighestReceived(r, end) ==
    LET more == end - r.window["stream"].highest
    IN  IF more <= 0 THEN r
        ELSE [r EXCEPT !.window = [c \in Controllers |-> [@[c] EXCEPT !.highest = @ + more]]]

OnStreamFrame(r, f, fast) ==
    LET t == IF f.length > 0 THEN IncreaseHighestReceived(r, f.offset + f.length) ELSE r
    IN  IF r.close # NoFin /\ f.offset + f.length > r.close THEN [r EXCEPT !.ok = FALSE]
        ELSE IF r.closed THEN r
        ELSE IF \E c \in Controllers : FlowControlViolation(t.window[c]) THEN [t EXCEPT !.ok = FALSE]
        ELSE Sequence(t, f, fast)

\* The session writes lost control frames before new ones.
ReaderOnCanWrite(m) ==
    LET t == IF m.pending # {} THEN ManagerOnCanWrite(m) ELSE m
    IN  IF t.pending # {} \/ ~WillingToWrite(t) THEN t ELSE ManagerOnCanWrite(t)

\* The end of a step: what was written is in the network.
Flush(r) ==
    LET m == ReaderOnCanWrite(r.frames)
    IN  /\ net' = net \cup m.out
        /\ rcv' = [r EXCEPT !.frames = [m EXCEPT !.room = 0, !.out = {}]]

WithRoom(r, room) == [r EXCEPT !.frames.room = room]

\* A packet with a frame of the stream.
ReceiveFrame(f, fast, room) ==
    /\ f.offset + f.length <= snd.sent
    /\ f.fin => snd.fin_sent /\ f.offset + f.length = StreamLength
    /\ Flush(OnStreamFrame(WithRoom(rcv, room), f, fast))
    /\ UNCHANGED <<snd, seen, losses>>

\* The send alarm, or any packet that made room for control frames.
ResumeUpdates(room) == /\ room > 0 /\ WillingToWrite(rcv.frames)
                       /\ Flush(WithRoom(rcv, room))
                       /\ UNCHANGED <<snd, seen, losses>>

\* A packet with a WINDOW_UPDATE is acked, and more may be written.
UpdateAcked(f, room) ==
    LET r == WithRoom(rcv, room)
    IN  /\ Flush([r EXCEPT !.frames = OnControlFrameAcked(@, f.id, f.about)])
        /\ UNCHANGED <<snd, seen, losses>>

\* One is taken for lost: rightly, or because its ack is late or was lost.
UpdateLost(f, room) ==
    LET r == WithRoom(rcv, room)
    IN  /\ losses' = IF f \in net \cup seen THEN losses + 1 ELSE losses
        /\ losses' <= MaxLosses
        /\ Flush([r EXCEPT !.frames = OnControlFrameLost(@, f.id)])
        /\ UNCHANGED <<snd, seen>>

\* The probe timer sends one again that is not acked (RetransmitControlFrame). If it
\* had arrived, its ack was lost.
ProbeTimeout(f) ==
    /\ losses' = IF f \in seen THEN losses + 1 ELSE losses
    /\ losses' <= MaxLosses
    /\ net' = net \cup {f}
    /\ UNCHANGED <<snd, rcv, seen>>

\* The network loses one.
Drop(f) == /\ losses < MaxLosses
           /\ losses' = losses + 1
           /\ net' = net \ {f}
           /\ UNCHANGED <<snd, rcv, seen>>

-----------------------------------------------------------------------------
Frames == [offset : 0 .. StreamLength, length : 0 .. MaxFrame, fin : BOOLEAN]

\* Which controllers saw their last update within two round trips: anything may be,
\* but it makes no difference as long as nothing becomes readable.
Speeds(f) == IF FirstMissingByte(rcv.ring) \in Span(f.offset, f.length)
             THEN [Controllers -> BOOLEAN] ELSE {[c \in Controllers |-> FALSE]}

\* The updates that were sent and are not acked.
Outstanding == {f \in ToSet(rcv.frames.frames) : f.id # 0 /\ f.id < rcv.frames.least_unsent}

Init == /\ snd = NewWriter
        /\ rcv = NewReader
        /\ net = {} /\ seen = {} /\ losses = 0

\* Something is still to happen: the writer has a step to take, data or the end of
\* the stream to arrive, an update to be sent, to arrive or to be acked.
Runnable == \/ ~snd.fin_buffered \/ (snd.write_blocked /\ ~ConnectionBlocked(snd))
            \/ FirstMissingByte(rcv.ring) < snd.sent \/ (snd.fin_sent /\ rcv.close = NoFin)
            \/ WillingToWrite(rcv.frames) \/ net # {} \/ Outstanding # {}

Finished == ~Runnable /\ UNCHANGED vars

Next == \/ \E n \in Chunks, end \in BOOLEAN, room \in Rooms : Write(n, end, room)
        \/ \E room \in Rooms : ResumeWriting(room) \/ ResumeUpdates(room)
        \/ \E f \in Frames : \E fast \in Speeds(f), room \in Rooms : ReceiveFrame(f, fast, room)
        \/ \E f \in net, room \in Rooms : \/ ReceiveWindowUpdate(f, {}, room)
                                          \/ ReceiveWindowUpdate(f, {f}, room)
        \/ \E f \in seen, room \in Rooms : UpdateAcked(f, room)
        \/ \E f \in Outstanding, room \in Rooms : UpdateLost(f, room)
        \/ \E f \in Outstanding : ProbeTimeout(f)
        \/ \E f \in net : Drop(f)
        \/ Finished

Spec == Init /\ [][Next]_vars

\* The least the event loops and the retransmission of data guarantee: something
\* happens as long as something is still to happen.
FairSpec == Spec /\ ([]<>(~Runnable) \/ []<><<TRUE>>_vars)

-----------------------------------------------------------------------------
\* No error, QUIC_BUG or DCHECK of the sequencer, its buffer, the flow controllers
\* or the control frame manager is ever reached: neither endpoint closes the
\* connection, though data and updates come late, twice and out of order.
NoInternalError == snd.ok /\ rcv.ok /\ rcv.ring.ok /\ rcv.frames.ok

\* Every byte passes through the ring unharmed: an unread byte is in its cell, a
\* block is allocated if and only if an unread byte is in it, the count of buffered
\* bytes is exact, and the application reads the stream from its start, in order.
BytesIntact ==
    LET b == rcv.ring
    IN  /\ \A x \in Unread(b) : /\ b.blocks[GetBlockIndex(x)] # NoBlock
                                /\ b.blocks[GetBlockIndex(x)][GetInBlockOffset(x)] = x
        /\ {i \in DOMAIN b.blocks : b.blocks[i] # NoBlock} = {GetBlockIndex(x) : x \in Unread(b)}
        /\ b.buffered = Cardinality(Unread(b))
        /\ b.delivered = [i \in 1 .. b.read |-> i - 1]

\* Nobody is promised room that is not there: the peer's window is within ours, the
\* window of the stream within the ring, and no window above its limit.
WindowFits ==
    /\ \A c \in Controllers : LET w == rcv.window[c]
                              IN  /\ snd.window[c] <= w.offset
                                  /\ w.consumed <= w.highest /\ w.highest <= w.offset
                                  /\ Available(w) <= w.size /\ w.size <= w.limit
    /\ ~rcv.closed => rcv.window["stream"].offset <= rcv.ring.read + Capacity

\* A window the peer does not know of is on its way: the update with it is queued or
\* will be sent again until it is acked. Of the updates of one controller at most
\* one is ever sent again: the last.
UpdateNotForgotten ==
    /\ \A c \in Controllers :
         \/ snd.window[c] = rcv.window[c].offset
         \/ \E f \in ToSet(rcv.frames.frames) :
               f.id # 0 /\ f.about = c /\ f.max = rcv.window[c].offset
    /\ \A f, g \in Outstanding : f.about = g.about => f = g

\* A stream with data that its own window lets through is in the write blocked list
\* (the DCHECK of CheckStreamWriteBlocked), also when the connection's window is
\* what holds it up.
WriterIsListed == snd.offset > snd.sent /\ ~StreamBlocked(snd) => snd.write_blocked

\* All is read in the end: the windows never hold up the stream for good.
AllRead == <>rcv.closed

=============================================================================
