------------------------------- MODULE QuicFlow -------------------------------
(***************************************************************************)
(* The QUIC half of the experiment as the measurements see it: every       *)
(* client application numbers the packets the QUIC library hands it and    *)
(* puts them on the network (SendToNetwork), the network delivers them in  *)
(* order or drops them, every server application reads them one callback   *)
(* at a time (RecvPacket) and reports them to the trace dispatcher that    *)
(* all servers share (OnOwd), until the applications stop.                 *)
(*                                                                         *)
(* Flows are numbered in the order scratch/quic.cc creates them.  External *)
(* are the QUIC library, which decides when a packet of what size is       *)
(* written, and the ns-3 network and UDP sockets.  Of the trace files only *)
(* the bytes accounted to goodput lines are kept.                          *)
(***************************************************************************)
EXTENDS QuicTag, SequencesExt, FiniteSets

CONSTANTS N,           \* number of flows: index_integer of scratch/quic.cc
          Sizes,       \* sizes of the packets the QUIC library writes
          Cap,         \* the transmit limit in SendToNetwork
          Interval,    \* g_goodputInterval
          MaxPackets,  \* bound: packets a client numbers
          StopTime     \* simDuration: when the applications stop

ASSUME FlowConstants == /\ N \in Nat \ {0} /\ Sizes \subseteq Nat \ {0} /\ Sizes # {}
                        /\ Cap \in Nat /\ Interval \in Nat \ {0}
                        /\ MaxPackets \in Nat /\ StopTime \in Nat \ {0, 1}

Flow == 1 .. N

VARIABLES
  now,
  servers, clients,  \* applications that are running
  m_seq, m_currentTxBytes,
  wire,              \* external: packets under way, oldest first; seq and time of
                     \* a packet are history, the receiver reads its tag
  dropped,           \* history: sequence numbers the network lost
  unread,            \* external: packets in the server's socket, not yet read
  m_traceDb,         \* flows whose trace the dispatcher still holds
  totalRead,         \* m_readBytes of the dispatcher
  m_lastSeq, m_largestSeq, m_lostPackets,
  m_readBytes, m_lastRateBytes, m_firstPacketTime, m_lastRateTime, m_receiptTime,
  logged             \* bytes in the lines of the goodput file

appVars == <<servers, clients>>
sendVars == <<m_seq, m_currentTxBytes>>
lossVars == <<m_lastSeq, m_largestSeq, m_lostPackets>>
rateVars == <<m_readBytes, m_lastRateBytes, m_firstPacketTime, m_lastRateTime, m_receiptTime, logged>>
vars == <<now, appVars, sendVars, wire, dropped, unread, m_traceDb, totalRead, lossVars, rateVars>>

-----------------------------------------------------------------------------
\* The address pairs and the map they index.

\* server_port + i
ServerPort(i) == 1234 + i - 1

\* Ns3QuicAddressPair: clients share a host, and so do servers; the clients
\* bind to ephemeral ports in the order they are created.
AddressPair(i) == <<49152 + i, ServerPort(i)>>

\* operator< : some component is smaller.
Less(a, b) == a[1] < b[1] \/ a[2] < b[2]

\* What std::map requires of the order on its keys.
StrictOrder == \A i, j \in Flow : ~(Less(AddressPair(i), AddressPair(j))
                                    /\ Less(AddressPair(j), AddressPair(i)))

\* find(): whether the pair of flow i is found.  Without a strict order the
\* lookup is undefined and may miss a pair that is present.
Found(i) == {i \in m_traceDb} \cup (IF StrictOrder THEN {} ELSE {FALSE})

-----------------------------------------------------------------------------
\* QuicClientApp

\* The transmit limit, this packet included.
MaySend(i, len) == m_currentTxBytes[i] + len < Cap

\* SendToNetwork: tag, count, and send below the limit; above it the packet
\* is discarded and the QUIC library is told it was written all the same.
SendToNetwork(i, len) ==
  /\ m_seq[i] <= MaxPackets
  /\ m_seq' = [m_seq EXCEPT ![i] = @ + 1]
  /\ m_currentTxBytes' = [m_currentTxBytes EXCEPT ![i] = @ + len]
  /\ wire' = IF MaySend(i, len)
             THEN [wire EXCEPT ![i] = Append(@, [tag |-> Serialize(m_seq[i], now), len |-> len,
                                                 seq |-> m_seq[i], time |-> now])]
             ELSE wire

\* startTime, when every client starts; the simulation starts at time 0.
StartTime == 1

\* StartApplication of a client connects, which writes the first packet.
StartClient(i) ==
  /\ now = StartTime /\ i \notin clients
  /\ clients' = clients \cup {i}
  /\ \E len \in Sizes : SendToNetwork(i, len)
  /\ UNCHANGED <<now, servers, dropped, unread, m_traceDb, totalRead, lossVars, rateVars>>

\* WritePacket: the QUIC library of a running client writes a packet.
WritePacket(i) ==
  /\ i \in clients /\ now < StopTime
  /\ \E len \in Sizes : SendToNetwork(i, len)
  /\ UNCHANGED <<now, appVars, dropped, unread, m_traceDb, totalRead, lossVars, rateVars>>

\* The applications stop at one time, in the order they were created: no
\* other event of that time was scheduled before the stops.
StopsBefore(i) == \A j \in 1 .. (i - 1) : j \notin servers \cup clients

\* StopApplication of a client: m_impl is cleared before it is destroyed, so
\* the CONNECTION_CLOSE its destructor writes is not sent.
StopClient(i) ==
  /\ now = StopTime /\ i \in clients /\ i \notin servers /\ StopsBefore(i)
  /\ clients' = clients \ {i}
  /\ UNCHANGED <<now, servers, sendVars, wire, dropped, unread, m_traceDb, totalRead,
                 lossVars, rateVars>>

\* external: a queue overflows or the error model strikes
Drop(i) ==
  \E k \in DOMAIN wire[i] :
    /\ wire' = [wire EXCEPT ![i] = RemoveAt(@, k)]
    /\ dropped' = [dropped EXCEPT ![i] = @ \cup {wire[i][k].seq}]
    /\ UNCHANGED <<now, appVars, sendVars, unread, m_traceDb, totalRead, lossVars, rateVars>>

-----------------------------------------------------------------------------
\* Ns3QuicServerTrace and its dispatcher

\* What a packet adds to m_lostPackets: the numbers it skips.
Missing(i, seq) == IF seq > m_lastSeq[i] - 1 THEN seq - m_lastSeq[i] - 1 ELSE 0

\* The second half of Ns3QuicServerTrace::OnOwd.
CountLost(i, seq) ==
  /\ m_lostPackets' = [m_lostPackets EXCEPT ![i] = @ + Missing(i, seq)]
  /\ m_lastSeq' = [m_lastSeq EXCEPT ![i] = IF seq > @ THEN seq ELSE @]
  /\ m_largestSeq' = [m_largestSeq EXCEPT ![i] = IF seq > @ THEN seq ELSE @]

\* The first half of OnOwd, with LogGoodput(false): a line is due once the
\* interval since the last line has passed.
CountRead(i, len) ==
  LET first == m_firstPacketTime[i] = 0
      since == IF first THEN now ELSE m_lastRateTime[i]
      due == now >= since + Interval
      read == m_readBytes[i] + len
  IN /\ m_firstPacketTime' = [m_firstPacketTime EXCEPT ![i] = IF first THEN now ELSE @]
     /\ m_readBytes' = [m_readBytes EXCEPT ![i] = read]
     /\ m_receiptTime' = [m_receiptTime EXCEPT ![i] = now]
     /\ m_lastRateTime' = [m_lastRateTime EXCEPT ![i] = IF due THEN now ELSE since]
     /\ m_lastRateBytes' = [m_lastRateBytes EXCEPT ![i] = IF due THEN read ELSE @]
     /\ logged' = [logged EXCEPT ![i] = IF due THEN @ + (read - m_lastRateBytes[i]) ELSE @]

\* The dispatcher's OnOwd: count the bytes, and pass the packet to the trace
\* of its address pair if there is one.
OnOwd(i, p) ==
  /\ totalRead' = totalRead + p.len
  /\ \E found \in Found(i) :
       IF found THEN CountRead(i, p.len) /\ CountLost(i, Deserialize(p.tag).seq)
                ELSE UNCHANGED <<lossVars, rateVars>>

\* Mutant of LastLine: no line is written at the end.
LastLine_None(i) == 0

\* LogGoodput(true), in the destructor: the bytes since the last line.
LastLine(i) == IF i \in m_traceDb /\ m_receiptTime[i] > m_lastRateTime[i]
               THEN m_readBytes[i] - m_lastRateBytes[i] ELSE 0

\* Shutdown deletes every trace, whichever flow's server asks for it.
Shutdown == /\ m_traceDb' = {}
            /\ logged' = [i \in Flow |-> logged[i] + LastLine(i)]

-----------------------------------------------------------------------------
\* QuicServerApp

\* When the servers start: together with the clients.
ServerStart == StartTime

StartServer(i) ==
  /\ now = ServerStart /\ i \notin servers
  /\ servers' = servers \cup {i}
  /\ UNCHANGED <<now, clients, sendVars, wire, dropped, unread, m_traceDb, totalRead,
                 lossVars, rateVars>>

\* A packet reaches the server's socket, which calls RecvPacket: the oldest
\* unread packet is processed, or none if the application is not running.
RecvPacket(i) ==
  /\ wire[i] # <<>> /\ Head(wire[i]).time < now
  /\ now < StopTime \/ servers \cup clients = {}
  /\ wire' = [wire EXCEPT ![i] = Tail(@)]
  /\ LET queue == Append(unread[i], Head(wire[i]))
     IN IF i \in servers
        THEN /\ unread' = [unread EXCEPT ![i] = Tail(queue)]
             /\ OnOwd(i, Head(queue))
        ELSE /\ unread' = [unread EXCEPT ![i] = queue]
             /\ UNCHANGED <<totalRead, lossVars, rateVars>>
  /\ UNCHANGED <<now, appVars, sendVars, dropped, m_traceDb>>

\* StopApplication of a server closes the traces and then the QUIC server.
StopServer(i) ==
  /\ now = StopTime /\ i \in servers /\ StopsBefore(i)
  /\ servers' = servers \ {i}
  /\ Shutdown
  /\ UNCHANGED <<now, clients, sendVars, wire, dropped, unread, totalRead, lossVars,
                 m_readBytes, m_lastRateBytes, m_firstPacketTime, m_lastRateTime, m_receiptTime>>

\* Time passes when everything due now has been started or stopped.
Tick ==
  /\ now <= StopTime
  /\ now = StartTime => clients = Flow
  /\ now = ServerStart => servers = Flow
  /\ now = StopTime => servers \cup clients = {}
  /\ now' = now + 1
  /\ UNCHANGED <<appVars, sendVars, wire, dropped, unread, m_traceDb, totalRead, lossVars, rateVars>>

-----------------------------------------------------------------------------
\* scratch/quic.cc has created the applications and registered their pairs.
Init ==
  /\ now = StartTime /\ servers = {} /\ clients = {}
  /\ m_seq = [i \in Flow |-> 1] /\ m_currentTxBytes = [i \in Flow |-> 0]
  /\ wire = [i \in Flow |-> <<>>] /\ unread = [i \in Flow |-> <<>>]
  /\ dropped = [i \in Flow |-> {}]
  /\ m_traceDb = Flow /\ totalRead = 0
  /\ m_lastSeq = [i \in Flow |-> 0] /\ m_largestSeq = [i \in Flow |-> 0]
  /\ m_lostPackets = [i \in Flow |-> 0] /\ m_readBytes = [i \in Flow |-> 0]
  /\ m_lastRateBytes = [i \in Flow |-> 0] /\ m_firstPacketTime = [i \in Flow |-> 0]
  /\ m_lastRateTime = [i \in Flow |-> 0] /\ m_receiptTime = [i \in Flow |-> 0]
  /\ logged = [i \in Flow |-> 0]

Next == \/ Tick
        \/ \E i \in Flow : \/ StartServer(i) \/ StartClient(i) \/ WritePacket(i) \/ Drop(i)
                           \/ RecvPacket(i) \/ StopServer(i) \/ StopClient(i)

Spec == Init /\ [][Next]_vars

-----------------------------------------------------------------------------
\* The number a server's trace reports as lost is the number of packets the
\* network dropped among those sent before the newest one received: numbers
\* start at 1 and are consecutive, and a packet withheld by the transmit limit is
\* never followed by one that would make it look lost (OnOwd).  A packet's tag
\* fills the bytes reserved for it and reads back as it was written, with no byte
\* left or missing: the three loops of ns3-quic-tag.cc agree where a number ends.
LossIsExact ==
  \A i \in Flow :
    /\ m_lostPackets[i] = Cardinality({s \in dropped[i] : s < m_largestSeq[i]})
    /\ \A p \in ToSet(wire[i]) :
         /\ Len(p.tag) = GetSerializedSize(p.seq, p.time)
         /\ Deserialize(p.tag) = [seq |-> p.seq, time |-> p.time, rest |-> <<>>]

\* No byte that reached a running server is missing from the results.  It is
\* read: RecvPacket takes one packet per callback, and none came before the
\* start to make it lag behind.  It is counted by the trace of exactly one flow:
\* the pair is found, and the first server to stop, which deletes the traces of
\* all, stops after the last read.  And when the traces are closed it is in a
\* goodput line, unless it came at the very time of the last line (LogGoodput).
EveryByteTraced ==
  /\ \A i \in servers : unread[i] = <<>>
  /\ totalRead = MapThenSumSet(LAMBDA i : m_readBytes[i], Flow)
  /\ m_traceDb = {} => \A i \in Flow : \/ logged[i] = m_readBytes[i]
                                       \/ m_receiptTime[i] = m_lastRateTime[i]
===============================================================================
