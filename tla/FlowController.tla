----------------------------- MODULE FlowController -----------------------------
(***************************************************************************)
(* QuicFlowController: how much the peer may send, and how much it lets us *)
(* send. There is one for the stream and one for the connection; a byte of *)
(* the stream counts for both.                                             *)
(*                                                                         *)
(* The clock is left out: whether two updates came within two round trips, *)
(* so that the window is to grow, is the argument fast.                    *)
(***************************************************************************)
EXTENDS Integers

CONSTANTS StreamWindow, ConnectionWindow,  \* the initial receive windows
          StreamLimit, ConnectionLimit     \* receive_window_size_limit_

ASSUME WindowAssumption ==
    /\ {StreamWindow, ConnectionWindow} \subseteq Nat \ {0, 1}
    /\ StreamLimit \in Nat /\ StreamWindow <= StreamLimit
    /\ ConnectionLimit \in Nat /\ ConnectionWindow <= ConnectionLimit

Controllers == {"stream", "connection"}
Windows == [c \in Controllers |-> IF c = "stream" THEN StreamWindow ELSE ConnectionWindow]
Limits  == [c \in Controllers |-> IF c = "stream" THEN StreamLimit ELSE ConnectionLimit]

Least2(a, b) == IF a < b THEN a ELSE b

\* The receiving half.
NewWindow(c) == [consumed |-> 0,           \* bytes_consumed_
                 highest  |-> 0,           \* highest_received_byte_offset_
                 offset   |-> Windows[c],  \* receive_window_offset_
                 size     |-> Windows[c],  \* receive_window_size_
                 limit    |-> Limits[c]]   \* receive_window_size_limit_

Available(w) == w.offset - w.consumed

FlowControlViolation(w) == w.highest > w.offset

\* Mutant of IncreaseWindowSize: the limit is forgotten.
IncreaseWindowSize_NoLimit(w) == [w EXCEPT !.size = 2 * @]

IncreaseWindowSize(w) == [w EXCEPT !.size = Least2(2 * @, w.limit)]

WindowUpdateThreshold(w) == w.size \div 2

\* A window update is due.
IsUpdateDue(w) == Available(w) < WindowUpdateThreshold(w)

MaybeIncreaseMaxWindowSize(w, fast) == IF fast THEN IncreaseWindowSize(w) ELSE w

UpdateReceiveWindowOffset(w) == [w EXCEPT !.offset = @ + (w.size - Available(w))]

\* EnsureWindowAtLeast does nothing if the limit, not the window, is large enough.
IsEnsured(w, size) == w.limit >= size

\* The window of the session the stream's controller asks for.
SessionWindow(size) == (3 * size) \div 2

AddConsumed(w, n) == [w EXCEPT !.consumed = @ + n]

\* The sending half: bytes sent so far and the offset they may not pass.
SendWindowSize(sent, window) == IF sent > window THEN 0 ELSE window - sent
IsBlocked(sent, window) == SendWindowSize(sent, window) = 0

=============================================================================
