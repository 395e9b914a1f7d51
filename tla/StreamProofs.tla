------------------------------ MODULE StreamProofs ------------------------------
(***************************************************************************)
(* Proofs about the parts a QUIC stream is built from, each on its own.    *)
(*                                                                         *)
(* ByteStream, what the stream promises: a stream whose sender forgot it   *)
(* has arrived as a whole, its end included.                               *)
(*                                                                         *)
(* SendBuffer: the books of a QuicStreamSendBuffer balance, for streams    *)
(* and slices of any length. Whatever order acknowledgements, losses and   *)
(* retransmissions of ranges that were sent come in, every operation keeps *)
(* BooksSound.                                                             *)
(*                                                                         *)
(* FlowController: what the receiving half of a QuicFlowController keeps,  *)
(* for windows of any size. It is never wider than its limit, it never     *)
(* shrinks, and the peer is never left with less than half of it.          *)
(***************************************************************************)
EXTENDS ByteStream, SendBuffer, FlowController, FiniteSetTheorems, TLAPS

\* Delivered bytes were written, forgotten ones delivered, and a stream ends once.
Kept == /\ written \in Nat /\ ended \in BOOLEAN /\ endSeen \in BOOLEAN /\ closed \in BOOLEAN
        /\ released \subseteq delivered
        /\ delivered \subseteq 0 .. written - 1
        /\ endSeen => ended
        /\ closed => endSeen /\ released = 0 .. written - 1

\* When the sender closed the stream, all of it has arrived and no more will come.
ClosedIsComplete == closed => endSeen /\ ended /\ delivered = 0 .. written - 1

\* The offsets of a longer stream include those of a shorter one.
LEMMA RangeGrows == ASSUME NEW m \in Nat, NEW n \in Nat, m <= n PROVE 0 .. m - 1 \subseteq 0 .. n - 1
OBVIOUS

\* Nothing was written yet.
LEMMA InitKept == ASSUME Init PROVE Kept
BY Zenon DEF Init, Kept

\* Each step keeps it: a write may not follow the end, so it finds the stream open.
LEMMA NextKept == ASSUME Kept, [Next]_vars PROVE Kept'
<1>1. CASE Write
  <2>1. ~endSeen /\ ~closed BY <1>1 DEF Write, Kept
  <2>2. 0 .. written - 1 \subseteq 0 .. written' - 1
    <3>1. written \in Nat /\ written' \in Nat /\ written <= written' BY <1>1 DEF Write, Kept
    <3> QED BY <3>1, RangeGrows, Zenon
  <2> QED BY <1>1, <2>1, <2>2, Zenon DEF Write, Kept
<1>2. CASE Deliver
  <2>1. closed => delivered = 0 .. written - 1 BY Zenon DEF Kept
  <2> QED BY <1>2, <2>1 DEF Deliver, Kept
<1>3. CASE Release
  <2>1. closed' => endSeen /\ released' = 0 .. written - 1
    <3>1. CASE closed' = closed
      <4>1. closed => released = 0 .. written - 1 /\ delivered \subseteq released BY DEF Kept
      <4> QED BY <1>3, <3>1, <4>1, Zenon DEF Release, Kept
    <3>2. CASE closed' = (endSeen /\ released' = 0 .. written - 1) BY <3>2, Zenon
    <3> QED BY <1>3, <3>1, <3>2, Zenon DEF Release
  <2> QED BY <1>3, <2>1, Zenon DEF Release, Kept
<1>4. CASE UNCHANGED vars BY <1>4 DEF vars, Kept
<1> QED BY <1>1, <1>2, <1>3, <1>4 DEF Next

\* Kept is an invariant.
THEOREM StreamKept == Spec => []Kept
BY InitKept, NextKept, PTL DEF Spec

\* The sender forgets a stream only when the peer has all of it: the meaning of
\* QuicStream's IsWaitingForAcks for the application at the other end.
THEOREM StreamComplete == Spec => []ClosedIsComplete
<1>1. Kept => ClosedIsComplete BY Zenon DEF Kept, ClosedIsComplete
<1> QED BY <1>1, StreamKept, PTL

-----------------------------------------------------------------------------
\* The send buffer.

\* A record with the fields of a buffer.
IsBuffer(b) == /\ DOMAIN b = DOMAIN EmptyBuffer
               /\ b = [f \in DOMAIN b |-> b[f]]

\* What is acked was written, what waits to be sent again was written and is not
\* acked, and stream_bytes_outstanding_ counts what was written and is not acked.
BooksSound(b) ==
    /\ IsBuffer(b)
    /\ b.written \in Nat
    /\ b.acked \subseteq 0 .. b.written - 1
    /\ b.pending \subseteq (0 .. b.written - 1) \ b.acked
    /\ b.outstanding = b.written - Cardinality(b.acked)

\* The range of a frame that was sent.
WasSent(b, offset, n) == offset \in Nat /\ n \in Nat /\ offset + n <= b.written

\* Two buffers with the same books.
SameBooks(b, c) == /\ c.written = b.written /\ c.outstanding = b.outstanding
                   /\ c.acked = b.acked /\ c.pending = b.pending

-----------------------------------------------------------------------------
\* A range that was sent lies in what was written.
LEMMA SentRange ==
    ASSUME NEW b, BooksSound(b), NEW offset, NEW n, WasSent(b, offset, n)
    PROVE  Bytes(offset, n) \subseteq 0 .. b.written - 1
BY DEF BooksSound, WasSent, Bytes

\* A set of offsets below n is finite and has at most n members.
LEMMA BelowFinite ==
    ASSUME NEW n \in Nat, NEW S, S \subseteq 0 .. n - 1
    PROVE  IsFiniteSet(S) /\ Cardinality(S) \in Nat /\ Cardinality(S) <= n
<1>1. IsFiniteSet(0 .. n - 1) /\ Cardinality(0 .. n - 1) = n BY FS_Interval, SMT
<1>2. IsFiniteSet(S) /\ Cardinality(S) <= Cardinality(0 .. n - 1) BY <1>1, FS_Subset, Zenon
<1> QED BY <1>1, <1>2, FS_CardinalityType

\* Freeing slices changes nothing else.
LEMMA FreeKeepsBooks ==
    ASSUME NEW b, BooksSound(b), NEW start, NEW end
    PROVE  BooksSound(FreeMemSlices(b, start, end)) /\ SameBooks(b, FreeMemSlices(b, start, end))
<1> DEFINE c == FreeMemSlices(b, start, end)
<1>1. \/ c = [b EXCEPT !.ok = FALSE]
      \/ \E s : c = [b EXCEPT !.slices = s]
  BY Zenon DEF FreeMemSlices
<1> QED BY <1>1 DEF BooksSound, IsBuffer, EmptyBuffer, SameBooks

\* And neither does dropping the slices in front.
LEMMA CleanUpKeepsBooks ==
    ASSUME NEW b, BooksSound(b)
    PROVE  BooksSound(CleanUpBufferedSlices(b)) /\ SameBooks(b, CleanUpBufferedSlices(b))
<1>1. \E s : CleanUpBufferedSlices(b) = [b EXCEPT !.slices = s] BY Zenon DEF CleanUpBufferedSlices
<1> QED BY <1>1 DEF BooksSound, IsBuffer, EmptyBuffer, SameBooks

-----------------------------------------------------------------------------
\* A new buffer's books balance.
THEOREM NewBooks == BooksSound(EmptyBuffer)
BY FS_EmptySet DEF BooksSound, IsBuffer, EmptyBuffer

\* OnStreamDataConsumed: bytes sent for the first time are outstanding.
THEOREM ConsumedBooks ==
    ASSUME NEW b, BooksSound(b), NEW n \in Nat PROVE BooksSound(OnStreamDataConsumed(b, n))
<1>1. Cardinality(b.acked) \in Nat BY BelowFinite DEF BooksSound
<1> DEFINE c == OnStreamDataConsumed(b, n)
<1>2. /\ IsBuffer(c) /\ c.written = b.written + n /\ c.outstanding = b.outstanding + n
      /\ c.acked = b.acked /\ c.pending = b.pending
  BY Zenon DEF BooksSound, IsBuffer, EmptyBuffer, OnStreamDataConsumed
<1>3. c.written \in Nat /\ 0 .. b.written - 1 \subseteq 0 .. c.written - 1 BY <1>2 DEF BooksSound
<1>4. c.outstanding = c.written - Cardinality(c.acked) BY <1>1, <1>2 DEF BooksSound
<1> QED BY <1>2, <1>3, <1>4 DEF BooksSound

\* OnStreamDataLost: of a range taken for lost, only what is not acked is sent again.
THEOREM LostBooks ==
    ASSUME NEW b, BooksSound(b), NEW offset, NEW n, WasSent(b, offset, n)
    PROVE  BooksSound(OnStreamDataLost(b, offset, n))
<1> DEFINE c == OnStreamDataLost(b, offset, n)
<1>1. IsBuffer(c) /\ c = [b EXCEPT !.pending = @ \cup (Bytes(offset, n) \ b.acked)]
  BY Zenon DEF BooksSound, IsBuffer, EmptyBuffer, OnStreamDataLost
<1>2. Bytes(offset, n) \subseteq 0 .. b.written - 1 BY SentRange
<1>3. /\ c.written = b.written /\ c.outstanding = b.outstanding /\ c.acked = b.acked
      /\ c.pending = b.pending \cup (Bytes(offset, n) \ b.acked)
  BY <1>1 DEF BooksSound, IsBuffer, EmptyBuffer
<1> QED BY <1>1, <1>2, <1>3 DEF BooksSound

\* OnStreamDataRetransmitted: what was sent again waits no longer.
THEOREM RetransmittedBooks ==
    ASSUME NEW b, BooksSound(b), NEW offset, NEW n
    PROVE  BooksSound(OnStreamDataRetransmitted(b, offset, n))
<1> DEFINE c == OnStreamDataRetransmitted(b, offset, n)
<1>1. /\ IsBuffer(c) /\ c.written = b.written /\ c.outstanding = b.outstanding
      /\ c.acked = b.acked /\ c.pending = b.pending \ Bytes(offset, n)
  BY DEF BooksSound, IsBuffer, EmptyBuffer, OnStreamDataRetransmitted
<1> QED BY <1>1 DEF BooksSound

\* OnStreamDataAcked: an acknowledgement of any range that was sent, acked before or
\* not, never asks to take away more than is outstanding (the error the code returns
\* FALSE for), and afterwards exactly that range is acked besides.
THEOREM AckedBooks ==
    ASSUME NEW b, BooksSound(b), NEW offset, NEW n, WasSent(b, offset, n)
    PROVE  /\ b.outstanding >= Cardinality(Bytes(offset, n) \ b.acked)
           /\ BooksSound(OnStreamDataAcked(b, offset, n))
           /\ OnStreamDataAcked(b, offset, n).acked = b.acked \cup Bytes(offset, n)
<1> DEFINE new == Bytes(offset, n) \ b.acked
           d   == [b EXCEPT !.acked = @ \cup new, !.outstanding = @ - Cardinality(new),
                            !.pending = @ \ Bytes(offset, n)]
           c   == FreeMemSlices(d, Least(new), Most(new) + 1)
<1>1. Bytes(offset, n) \subseteq 0 .. b.written - 1 BY SentRange
<1>2. /\ b.written \in Nat /\ new \subseteq 0 .. b.written - 1 /\ b.acked \subseteq 0 .. b.written - 1
      /\ b.acked \cup new \subseteq 0 .. b.written - 1
  BY <1>1 DEF BooksSound
<1>3. IsFiniteSet(new) /\ Cardinality(new) \in Nat BY <1>2, BelowFinite
<1>4. IsFiniteSet(b.acked) /\ Cardinality(b.acked) \in Nat BY <1>2, BelowFinite
<1>5. Cardinality(b.acked \cup new) \in Nat /\ Cardinality(b.acked \cup new) <= b.written
  BY <1>2, BelowFinite
<1>6. Cardinality(b.acked \cup new) = Cardinality(b.acked) + Cardinality(new)
  <2>1. b.acked \cap new = {} OBVIOUS
  <2>2. Cardinality(b.acked \cap new) = 0 BY <2>1, FS_EmptySet
  <2>3. Cardinality(b.acked \cup new)
          = Cardinality(b.acked) + Cardinality(new) - Cardinality(b.acked \cap new)
    BY <1>3, <1>4, FS_Union
  <2> QED BY <1>3, <1>4, <2>2, <2>3
<1>7. b.outstanding >= Cardinality(new) BY <1>2, <1>3, <1>4, <1>5, <1>6 DEF BooksSound
<1>8. CASE new = {}
  <2>1. OnStreamDataAcked(b, offset, n) = b BY <1>8 DEF OnStreamDataAcked
  <2> QED BY <1>7, <1>8, <2>1
<1>9. CASE new # {}
  <2>1. BooksSound(d) /\ d.acked = b.acked \cup Bytes(offset, n)
    <3>1. /\ IsBuffer(d) /\ d.written = b.written /\ d.acked = b.acked \cup new
          /\ d.outstanding = b.outstanding - Cardinality(new)
          /\ d.pending = b.pending \ Bytes(offset, n)
      BY Zenon DEF BooksSound, IsBuffer, EmptyBuffer
    <3>2. d.outstanding = d.written - Cardinality(d.acked)
      BY <1>2, <1>3, <1>4, <1>6, <3>1 DEF BooksSound
    <3>3. d.pending \subseteq (0 .. d.written - 1) \ d.acked BY <3>1 DEF BooksSound
    <3> QED BY <1>2, <3>1, <3>2, <3>3 DEF BooksSound
  <2>2. BooksSound(c) /\ SameBooks(d, c) BY <2>1, FreeKeepsBooks
  <2>3. BooksSound(CleanUpBufferedSlices(c)) /\ SameBooks(c, CleanUpBufferedSlices(c))
    BY <2>2, CleanUpKeepsBooks
  <2>4. ~(b.outstanding < Cardinality(new)) BY <1>2, <1>3, <1>4, <1>7 DEF BooksSound
  <2>5. OnStreamDataAcked(b, offset, n) = IF c.ok THEN CleanUpBufferedSlices(c) ELSE c
    BY <1>9, <2>4 DEF OnStreamDataAcked
  <2> QED BY <1>7, <2>1, <2>2, <2>3, <2>5 DEF SameBooks
<1> QED BY <1>8, <1>9

-----------------------------------------------------------------------------
\* The flow controller.

\* bytes_consumed_ <= highest_received_byte_offset_ <= receive_window_offset_, which
\* is at most a window beyond what was consumed; and the window is within its limit.
WindowSound(w) ==
    /\ w \in [consumed : Nat, highest : Nat, offset : Nat, size : Nat, limit : Nat]
    /\ w.consumed <= w.highest /\ w.highest <= w.offset
    /\ w.offset <= w.consumed + w.size
    /\ 2 <= w.size /\ w.size <= w.limit

\* AddBytesConsumed of one controller.
Consume(w, n, fast) ==
    LET v == AddConsumed(w, n)
    IN  IF IsUpdateDue(v) THEN UpdateReceiveWindowOffset(MaybeIncreaseMaxWindowSize(v, fast)) ELSE v

-----------------------------------------------------------------------------
\* The window of a new controller is sound.
LEMMA NewWindowSound == ASSUME NEW c \in Controllers PROVE WindowSound(NewWindow(c))
<1>1. Windows[c] \in Nat /\ 2 <= Windows[c] /\ Limits[c] \in Nat /\ Windows[c] <= Limits[c]
  BY WindowAssumption DEF Controllers, Windows, Limits
<1> QED BY <1>1 DEF WindowSound, NewWindow

\* Consuming bytes that were received leaves all but the window's end as it was.
LEMMA ConsumedSound ==
    ASSUME NEW w, WindowSound(w), NEW n \in Nat, w.consumed + n <= w.highest
    PROVE  WindowSound(AddConsumed(w, n))
BY DEF WindowSound, AddConsumed

\* A window that grows stays within its limit and above what it was.
LEMMA GrownSound ==
    ASSUME NEW w, WindowSound(w), NEW fast \in BOOLEAN
    PROVE  LET v == MaybeIncreaseMaxWindowSize(w, fast)
           IN  WindowSound(v) /\ v.size >= w.size /\ v = [w EXCEPT !.size = v.size]
<1> DEFINE v == MaybeIncreaseMaxWindowSize(w, fast)
<1>1. CASE ~fast BY <1>1 DEF MaybeIncreaseMaxWindowSize, WindowSound
<1>2. CASE fast
  <2>1. v = [w EXCEPT !.size = Least2(2 * w.size, w.limit)]
    BY <1>2 DEF MaybeIncreaseMaxWindowSize, IncreaseWindowSize
  <2>2. /\ Least2(2 * w.size, w.limit) \in Nat
        /\ Least2(2 * w.size, w.limit) >= w.size
        /\ Least2(2 * w.size, w.limit) <= w.limit
    BY DEF WindowSound, Least2
  <2> QED BY <2>1, <2>2 DEF WindowSound
<1> QED BY <1>1, <1>2

\* An update moves the window's end to a full window beyond what was consumed.
LEMMA UpdatedSound ==
    ASSUME NEW w, WindowSound(w)
    PROVE  LET v == UpdateReceiveWindowOffset(w)
           IN  WindowSound(v) /\ v.offset = w.consumed + w.size /\ v = [w EXCEPT !.offset = v.offset]
<1> DEFINE v == UpdateReceiveWindowOffset(w)
<1>1. v = [w EXCEPT !.offset = w.consumed + w.size]
  BY DEF UpdateReceiveWindowOffset, Available, WindowSound
<1> QED BY <1>1 DEF WindowSound

-----------------------------------------------------------------------------
\* Reading n of the bytes received keeps the controller sound. The offset promised to
\* the peer never moves back, and the window never shrinks.
THEOREM ConsumeKeepsSound ==
    ASSUME NEW w, WindowSound(w), NEW n \in Nat, w.consumed + n <= w.highest, NEW fast \in BOOLEAN
    PROVE  LET v == Consume(w, n, fast)
           IN  /\ WindowSound(v)
               /\ v.consumed = w.consumed + n
               /\ w.offset <= v.offset /\ w.size <= v.size /\ v.limit = w.limit
<1> DEFINE u == AddConsumed(w, n)
           g == MaybeIncreaseMaxWindowSize(u, fast)
           v == UpdateReceiveWindowOffset(g)
<1>1. WindowSound(u) BY ConsumedSound
<1>2. u.consumed = w.consumed + n /\ u.offset = w.offset /\ u.size = w.size /\ u.limit = w.limit
  BY DEF AddConsumed, WindowSound
<1>3. CASE ~IsUpdateDue(u) BY <1>1, <1>2, <1>3 DEF Consume, WindowSound
<1>4. CASE IsUpdateDue(u)
  <2>1. WindowSound(g) /\ g.size >= u.size /\ g = [u EXCEPT !.size = g.size] BY <1>1, GrownSound
  <2>2. WindowSound(v) /\ v.offset = g.consumed + g.size /\ v = [g EXCEPT !.offset = v.offset]
    BY <2>1, UpdatedSound
  <2>3. g.consumed = u.consumed /\ g.limit = u.limit BY <1>1, <2>1 DEF WindowSound
  <2>4. v.consumed = g.consumed /\ v.size = g.size /\ v.limit = g.limit BY <2>1, <2>2 DEF WindowSound
  <2>5. u.offset <= u.consumed + u.size BY <1>1 DEF WindowSound
  <2>6. w.offset <= v.offset BY <1>1, <1>2, <2>1, <2>2, <2>3, <2>5 DEF WindowSound
  <2> QED BY <1>2, <1>4, <2>1, <2>2, <2>3, <2>4, <2>6 DEF Consume
<1> QED BY <1>3, <1>4

\* After any read the peer may send at least half a window, and so at least one byte,
\* beyond what was consumed: no read leaves it blocked for good.
THEOREM ConsumeLeavesRoom ==
    ASSUME NEW w, WindowSound(w), NEW n \in Nat, w.consumed + n <= w.highest, NEW fast \in BOOLEAN
    PROVE  LET v == Consume(w, n, fast)
           IN  Available(v) >= WindowUpdateThreshold(v) /\ Available(v) >= 1
<1> DEFINE u == AddConsumed(w, n)
           g == MaybeIncreaseMaxWindowSize(u, fast)
           v == UpdateReceiveWindowOffset(g)
<1>1. WindowSound(u) BY ConsumedSound
<1>2. CASE ~IsUpdateDue(u)
  <2>1. Available(u) \in Int /\ WindowUpdateThreshold(u) \in Int /\ WindowUpdateThreshold(u) >= 1
    BY <1>1 DEF WindowSound, Available, WindowUpdateThreshold
  <2>2. Available(u) >= WindowUpdateThreshold(u) BY <1>2, <2>1 DEF IsUpdateDue
  <2> QED BY <1>2, <2>1, <2>2 DEF Consume
<1>3. CASE IsUpdateDue(u)
  <2>1. WindowSound(g) BY <1>1, GrownSound
  <2>2. v.offset = g.consumed + g.size /\ v = [g EXCEPT !.offset = v.offset] BY <2>1, UpdatedSound
  <2>3. v.consumed = g.consumed /\ v.size = g.size BY <2>1, <2>2 DEF WindowSound
  <2>4. Available(v) = g.size BY <2>1, <2>2, <2>3 DEF Available, WindowSound
  <2>5. g.size \in Nat /\ g.size >= 2 BY <2>1 DEF WindowSound
  <2> QED BY <1>3, <2>3, <2>4, <2>5 DEF Consume, WindowUpdateThreshold
<1> QED BY <1>2, <1>3

\* Data within the offset the peer was promised is no violation, and keeps the
\* controller sound.
THEOREM ReceiveKeepsSound ==
    ASSUME NEW w, WindowSound(w), NEW end \in Nat, w.highest <= end, end <= w.offset
    PROVE  LET v == [w EXCEPT !.highest = end]
           IN  WindowSound(v) /\ ~FlowControlViolation(v)
BY DEF WindowSound, FlowControlViolation

=============================================================================
