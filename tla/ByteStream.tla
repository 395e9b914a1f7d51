------------------------------- MODULE ByteStream -------------------------------
(***************************************************************************)
(* What a reliable stream promises its two applications, whatever the      *)
(* network does to packets: bytes arrive only if they were written, they   *)
(* are given up by the sender only after they arrived, and the stream ends *)
(* only after all of it, its end included, arrived.                        *)
(***************************************************************************)
EXTENDS Integers

VARIABLES written,    \* bytes the application wrote
          ended,      \* it wrote the end of the stream as well
          delivered,  \* offsets of the bytes that arrived
          endSeen,    \* the end arrived
          released,   \* offsets of the bytes the sender may forget
          closed      \* the sender forgot the stream

vars == <<written, ended, delivered, endSeen, released, closed>>

Init == /\ written = 0 /\ delivered = {} /\ released = {}
        /\ ended = FALSE /\ endSeen = FALSE /\ closed = FALSE

Write == /\ ~ended
         /\ written' \in Nat /\ written' >= written
         /\ ended' \in BOOLEAN
         /\ UNCHANGED <<delivered, endSeen, released, closed>>

Deliver == /\ delivered \subseteq delivered'
           /\ delivered' \subseteq 0 .. written - 1
           /\ endSeen' \in {endSeen, ended}
           /\ UNCHANGED <<written, ended, released, closed>>

Release == /\ released \subseteq released'
           /\ released' \subseteq delivered
           /\ closed' \in {closed, endSeen /\ released' = 0 .. written - 1}
           /\ UNCHANGED <<written, ended, delivered, endSeen>>

Next == Write \/ Deliver \/ Release

Spec == Init /\ [][Next]_vars

=============================================================================
