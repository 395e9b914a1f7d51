------------------------------ MODULE ControlFrames ------------------------------
(***************************************************************************)
(* QuicControlFrameManager: control frames (here WINDOW_UPDATEs of the     *)
(* flow controllers) are queued, sent in the order of their ids as far as  *)
(* the connection takes them, kept until they are acked and sent again     *)
(* when they are lost. A WINDOW_UPDATE that was sent makes the one sent    *)
(* before it for the same controller as good as acked.                     *)
(*                                                                         *)
(* room is the number of frames the connection takes in this step of the   *)
(* event loop, out are the frames it took.                                 *)
(***************************************************************************)
EXTENDS Integers, Sequences, SequencesExt, FiniteSetsExt

CONSTANTS Controllers,   \* the flow controllers WINDOW_UPDATEs are about
          MaxNumFrames   \* kMaxNumControlFrames

NewManager == [frames        |-> <<>>,  \* control_frames_; an acked one has id 0
               least_unacked |-> 1,
               least_unsent  |-> 1,
               pending       |-> {},    \* pending_retransmissions_
               latest        |-> [c \in Controllers |-> 0],  \* window_update_frames_
               room          |-> 0,
               out           |-> {},
               ok            |-> TRUE]  \* no QUIC_BUG and no error yet

FailManager(m) == [m EXCEPT !.ok = FALSE]

FrameAt(m, id) == m.frames[id - m.least_unacked + 1]
IsHandled(m, id) == id < m.least_unacked \/ FrameAt(m, id).id = 0
HasBufferedFrames(m) == m.least_unsent < m.least_unacked + Len(m.frames)
WillingToWrite(m) == m.pending # {} \/ HasBufferedFrames(m)

\* Acked frames at the front of the queue are dropped.
CleanUp(m) ==
    LET left == {i \in DOMAIN m.frames : m.frames[i].id # 0}
        n    == IF left = {} THEN Len(m.frames) ELSE Min(left) - 1
    IN  [m EXCEPT !.frames = SubSeq(@, n + 1, Len(@)), !.least_unacked = @ + n]

OnControlFrameIdAcked(m, id) ==
    IF id >= m.least_unsent THEN FailManager(m)
    ELSE IF IsHandled(m, id) THEN m
    ELSE CleanUp([m EXCEPT !.frames[id - m.least_unacked + 1].id = 0, !.pending = @ \ {id}])

\* c is the controller of the frame.
OnControlFrameAcked(m, id, c) ==
    LET t == OnControlFrameIdAcked(m, id)
    IN  IF t = m THEN m ELSE [t EXCEPT !.latest[c] = IF @ = id THEN 0 ELSE @]

OnControlFrameLost(m, id) ==
    IF id >= m.least_unsent THEN FailManager(m)
    ELSE IF IsHandled(m, id) THEN m ELSE [m EXCEPT !.pending = @ \cup {id}]

\* Mutant of Supersede: one latest update for all controllers.
Supersede_Any(m, f) ==
    LET last == Max({m.latest[c] : c \in Controllers})
        t    == IF last # 0 /\ f.id > last THEN OnControlFrameIdAcked(m, last) ELSE m
    IN  [t EXCEPT !.latest[f.about] = f.id]

\* The older update of the same controller counts as acked.
Supersede(m, f) ==
    LET last == m.latest[f.about]
        t    == IF last # 0 /\ f.id > last THEN OnControlFrameIdAcked(m, last) ELSE m
    IN  [t EXCEPT !.latest[f.about] = f.id]

OnControlFrameSent(m, f) ==
    LET t == Supersede(m, f)
    IN  IF f.id \in t.pending THEN [t EXCEPT !.pending = @ \ {f.id}]
        ELSE IF f.id > t.least_unsent THEN FailManager(t)
        ELSE [t EXCEPT !.least_unsent = @ + 1]

\* WriteControlFrame and what follows when the connection took the frame.
WriteFrame(m, f) ==
    OnControlFrameSent([m EXCEPT !.room = @ - 1, !.out = @ \cup {f}], f)

WriteBufferedFrame(m, i) ==
    IF ~HasBufferedFrames(m) \/ m.room = 0 THEN m ELSE WriteFrame(m, FrameAt(m, m.least_unsent))

WriteBufferedFrames(m) == FoldLeft(WriteBufferedFrame, m, m.frames)

WriteLostFrame(m, i) ==
    IF m.pending = {} \/ m.room = 0 THEN m ELSE WriteFrame(m, FrameAt(m, Min(m.pending)))

WritePendingRetransmission(m) == FoldLeft(WriteLostFrame, m, m.frames)

\* Lost frames leave no time for new ones.
ManagerOnCanWrite(m) ==
    IF m.pending # {} THEN WritePendingRetransmission(m) ELSE WriteBufferedFrames(m)

\* A new WINDOW_UPDATE, which is sent at once if it has not to wait behind others.
WriteOrBufferWindowUpdate(m, c, max) ==
    LET f == [id |-> m.least_unacked + Len(m.frames), about |-> c, max |-> max]
        t == [m EXCEPT !.frames = Append(@, f)]
    IN  IF Len(t.frames) > MaxNumFrames THEN FailManager(t)
        ELSE IF HasBufferedFrames(m) THEN t ELSE WriteBufferedFrames(t)

=============================================================================
