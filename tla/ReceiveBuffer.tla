------------------------------ MODULE ReceiveBuffer ------------------------------
(***************************************************************************)
(* QuicStreamSequencerBuffer: the ring of blocks in which a stream keeps   *)
(* what it received and has not handed to the application. The block of a  *)
(* byte and its place in it follow from its offset modulo the capacity; a  *)
(* block is allocated by the first byte written to it and freed when its   *)
(* last one is read.                                                       *)
(*                                                                         *)
(* bytes_received_, a set of intervals, is the set of the offsets in them. *)
(* A byte of the stream is told from another by its offset, which is what  *)
(* a cell of a block holds.                                                *)
(***************************************************************************)
EXTENDS Integers, Sequences, SequencesExt, FiniteSetsExt

CONSTANTS Capacity,     \* max_buffer_capacity_bytes_
          BlockSize,    \* kBlockSizeBytes
          MaxIntervals  \* kMaxNumDataIntervalsAllowed

ASSUME BufferAssumption == {Capacity, BlockSize, MaxIntervals} \subseteq Nat \ {0}

NoBlock == <<>>  \* blocks_[i] is null
Blank   == -1    \* a cell that was not written since its block was allocated

BlockCount == (Capacity + BlockSize - 1) \div BlockSize
GetBlockIndex(offset) == (offset % Capacity) \div BlockSize
GetInBlockOffset(offset) == (offset % Capacity) % BlockSize

\* The last block may be smaller than the others.
GetBlockCapacity(i) ==
    IF i + 1 = BlockCount /\ Capacity % BlockSize # 0 THEN Capacity % BlockSize ELSE BlockSize

EmptyRing == [received  |-> {},   \* bytes_received_
              read      |-> 0,    \* total_bytes_read_
              buffered  |-> 0,    \* num_bytes_buffered_
              blocks    |-> [i \in 0 .. BlockCount - 1 |-> NoBlock],
              delivered |-> <<>>, \* what the application was handed
              ok        |-> TRUE] \* no error, QUIC_BUG or DCHECK yet

FailRing(b) == [b EXCEPT !.ok = FALSE]

Span(offset, length) == offset .. offset + length - 1

\* bytes_received_.Size(): an interval begins where the byte before is missing.
Intervals(bytes) == Cardinality({x \in bytes : x - 1 \notin bytes})

FirstMissingByte(b) == Min((0 .. Cardinality(b.received)) \ b.received)
NextExpectedByte(b) == IF b.received = {} THEN 0 ELSE Max(b.received) + 1
ReadableBytes(b) == FirstMissingByte(b) - b.read
Unread(b) == {x \in b.received : x >= b.read}
IsEmpty(b) == b.received = {} \/ (b.read > 0 /\ b.received = 0 .. b.read - 1)

-----------------------------------------------------------------------------
\* Each byte goes to its cell, and a block that is not there is allocated.
CopyStreamData(b, bytes) ==
    [b EXCEPT !.blocks = [i \in DOMAIN @ |->
        LET mine == {x \in bytes : GetBlockIndex(x) = i}
            old  == IF @[i] = NoBlock THEN [j \in 0 .. BlockSize - 1 |-> Blank] ELSE @[i]
        IN  IF mine = {} THEN @[i]
            ELSE [j \in 0 .. BlockSize - 1 |->
                    IF \E x \in mine : GetInBlockOffset(x) = j
                    THEN CHOOSE x \in mine : GetInBlockOffset(x) = j ELSE old[j]]]]

\* Only the bytes that are new are copied and counted.
OnStreamData(b, offset, length) ==
    LET new == Span(offset, length) \ b.received
        t   == [b EXCEPT !.received = @ \cup new]
    IN  IF offset + length > b.read + Capacity THEN FailRing(b)
        ELSE IF new = {} THEN b
        ELSE IF Intervals(t.received) >= MaxIntervals THEN FailRing(t)
        ELSE [CopyStreamData(t, new) EXCEPT !.buffered = @ + Cardinality(new)]

RetireBlock(b, i) ==
    IF b.blocks[i] = NoBlock THEN FailRing(b) ELSE [b EXCEPT !.blocks[i] = NoBlock]

\* The next interval after the gap the reader stopped at.
NextInterval(b) == Min({x \in b.received : x > FirstMissingByte(b)})

\* Mutant of KeepsBlock: the ring is taken not to wrap round.
KeepsBlock_NoWrap(b, i) ==
    GetBlockIndex(b.read) = i /\ Intervals(b.received) > 1 /\ GetBlockIndex(NextInterval(b)) = i

\* There is data left in block i: the end of the buffer wrapped round to it, or the
\* reader stopped at a gap that ends in it.
KeepsBlock(b, i) ==
    \/ GetBlockIndex(NextExpectedByte(b) - 1) = i
    \/ GetBlockIndex(b.read) = i /\ Intervals(b.received) > 1 /\ GetBlockIndex(NextInterval(b)) = i

RetireBlockIfEmpty(b, i) ==
    LET c == [b EXCEPT !.ok = @ /\ (ReadableBytes(b) = 0 \/ GetInBlockOffset(b.read) = 0)]
    IN  IF IsEmpty(c) THEN RetireBlock(c, i)
        ELSE IF KeepsBlock(c, i) THEN c
        ELSE IF GetBlockIndex(c.read) = i /\ Intervals(c.received) = 1 THEN FailRing(c)
        ELSE RetireBlock(c, i)

\* What Readv does with one block; it is always asked for all there is.
ReadBlock(b, step) ==
    LET i     == GetBlockIndex(b.read)
        start == GetInBlockOffset(b.read)
        n     == Min({ReadableBytes(b), GetBlockCapacity(i) - start})
    IN  IF ReadableBytes(b) = 0 \/ ~b.ok THEN b
        ELSE IF b.blocks[i] = NoBlock THEN FailRing(b)
        ELSE RetireBlockIfEmpty(
               [b EXCEPT !.read = @ + n, !.buffered = @ - n,
                         !.delivered = @ \o [k \in 1..n |-> b.blocks[i][start + k - 1]]], i)

\* One round over the ring, and the block it started in the middle of again.
Readv(b) == FoldLeft(ReadBlock, b, [i \in 1 .. BlockCount + 1 |-> i])

\* Clear and ReleaseWholeBuffer.
ReleaseWholeBuffer(b) ==
    [b EXCEPT !.blocks = [i \in DOMAIN @ |-> NoBlock], !.buffered = 0, !.received = 0 .. b.read - 1]

=============================================================================
