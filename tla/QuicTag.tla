------------------------------- MODULE QuicTag -------------------------------
(***************************************************************************)
(* Ns3QuicTag: the sequence number and the send time a packet carries from *)
(* the sender to the receiver, as two variable-length integers of digits   *)
(* to the base Base (128 in the code), least significant first, every      *)
(* digit but the last with the continuation bit.  The packet reserves      *)
(* GetSerializedSize bytes, Serialize fills them, Deserialize reads them.  *)
(***************************************************************************)
EXTENDS Integers, Sequences, FiniteSetsExt

CONSTANT Base    \* 128

ASSUME TagConstants == Base \in Nat \ {0, 1}

\* varint_length: divide until nothing is left; zero takes no byte.
varint_length[n \in Nat] == IF n = 0 THEN 0 ELSE 1 + varint_length[n \div Base]

GetSerializedSize(seq, time) == varint_length[seq] + varint_length[time]

\* Mutant of Byte: a full digit is taken for the last one.
Byte_Early(n) == [digit |-> n % Base, more |-> n > Base]

\* The byte VarintEncode writes while n is left.
Byte(n) == [digit |-> n % Base, more |-> n \div Base > 0]

\* The loop of VarintEncode ends when nothing is left, whatever the bytes say.
VarintEncode[n \in Nat] == IF n = 0 THEN <<>> ELSE <<Byte(n)>> \o VarintEncode[n \div Base]

Serialize(seq, time) == VarintEncode[seq] \o VarintEncode[time]

\* VarientDecode reads up to the first byte without the continuation bit.
VarientDecode(bytes) ==
  LET last == Min({k \in DOMAIN bytes : ~bytes[k].more})
  IN [value |-> MapThenSumSet(LAMBDA k : bytes[k].digit * Base ^ (k - 1), 1 .. last),
      rest |-> SubSeq(bytes, last + 1, Len(bytes))]

\* The two numbers read, one after the other, and what is left of the buffer.
Deserialize(bytes) ==
  LET first == VarientDecode(bytes)
      second == VarientDecode(first.rest)
  IN [seq |-> first.value, time |-> second.value, rest |-> second.rest]
=============================================================================
