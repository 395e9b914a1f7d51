---------------------------- MODULE TcpExperiment ----------------------------
(***************************************************************************)
(* The TCP half of the experiment: the bulk senders (TcpClient), the      *)
(* accepting server with one TcpSink per connection, and the process-wide *)
(* accumulator InfoPriv that turns finished sessions into one line of     *)
(* link utilisation and closed connections into lines of loss rate.       *)
(*                                                                         *)
(* Flows are numbered in the order scratch/tcp.cc creates them.  The       *)
(* ns-3 TCP socket between a client and its sink is external: a send       *)
(* buffer of SndBuf bytes, transmissions that may be repeated, in-order    *)
(* delivery, cumulative acknowledgements and an orderly close.  The rate   *)
(* and window trace files are logging and are left out.                    *)
(***************************************************************************)
EXTENDS Integers, Sequences, FiniteSets

CONSTANTS N,         \* number of flows: index_integer of scratch/tcp.cc
          FlowNums,  \* values of flow_num passed to SetExperimentInfo
          Target,    \* bytes a client sends: m_targetBytes
          MSS,       \* kMSS
          SndBuf,    \* the socket's send buffer, in bytes
          Width,     \* uint32_t holds values below Width
          MaxRetx,   \* bound: repeated segments per flow
          MaxTime    \* bound: simulation time

ASSUME TcpConstants == /\ N \in Nat \ {0} /\ FlowNums \subseteq Nat /\ Target \in Nat \ {0}
                       /\ MSS \in Nat \ {0} /\ SndBuf \in Nat \ {0}
                       /\ Width \in Nat /\ Target < Width /\ MaxRetx \in Nat /\ MaxTime \in Nat

Flow == 1 .. N

VARIABLES
  now,               \* Simulator::Now()
  started,           \* clients whose StartApplication has run
  stopped,           \* clients whose StopApplication has run
  m_connected, m_currentTxBytes, m_totalTxBytes,
  socket,            \* external: state of the client's socket
  shut,              \* external: Close has been called on it
  sent, acked,       \* external: bytes transmitted, bytes acknowledged
  retx,              \* history: bytes transmitted again
  sinks,             \* flows the server has accepted
  m_totalBytes, m_rxBytes,
  m_flows,           \* InfoPriv: the sessions the utilisation waits for
  m_sessionBytes,    \* InfoPriv: bytes registered, by session key
  m_bytes, m_flowCount, m_stopStamp,
  util,              \* lines of utilinfo.txt: <<m_stopStamp, m_bytes>>
  loss,              \* lines of lossinfo.txt: the excess over the target, by flow
  finish             \* history: when each flow's last byte was read

clientVars == <<m_connected, m_currentTxBytes, m_totalTxBytes>>
socketVars == <<socket, shut, sent, acked, retx>>
sinkVars == <<sinks, m_totalBytes, m_rxBytes>>
infoVars == <<m_flows, m_sessionBytes, m_bytes, m_flowCount, m_stopStamp, util, loss, finish>>
vars == <<now, started, stopped, clientVars, socketVars, sinkVars, infoVars>>

-----------------------------------------------------------------------------
\* The session key and the map it indexes.

\* Mutant of ServPort: server ports are handed out downwards.
ServPort_Down(i) == 5000 + N - i

\* serv_port: one server per flow, on ports that ascend.
ServPort(i) == 5000 + i - 1

\* Bind() takes the next ephemeral port; clients bind in the order they start.
EphemeralPort(i) == 49152 + i

\* TcpSessionKey; all clients are on one host and all servers on another.
Key(i) == <<EphemeralPort(i), ServPort(i)>>

\* operator< : some component is smaller.
Less(a, b) == a[1] < b[1] \/ a[2] < b[2]

\* What std::map requires of the order on the keys it holds.
StrictOrder(K) == \A a, b \in K : ~(Less(a, b) /\ Less(b, a))

\* insert(): a key that is there keeps its value.
Insert(map, k, v) == [x \in DOMAIN map \cup {k} |-> IF x \in DOMAIN map THEN map[x] ELSE v]

\* RegisterBulkBytes: uint32_t bytes, only when utilisation is enabled.
Registered(i) == IF m_flows > 0
                 THEN Insert(m_sessionBytes, Key(i), Target % Width)
                 ELSE m_sessionBytes

\* GetBulkBytes: the outcomes of find(); without a strict order the lookup is
\* undefined and may miss a key that is present.
BulkBytes(i) == IF m_flows > 0 /\ Key(i) \in DOMAIN m_sessionBytes
                THEN {m_sessionBytes[Key(i)]}
                     \cup (IF StrictOrder(DOMAIN m_sessionBytes) THEN {} ELSE {-1})
                ELSE {-1}

-----------------------------------------------------------------------------
\* TcpClient.  a is what the peer has acknowledged when the handler runs.

\* external: GetTxAvailable
TxAvailable(i, a) == SndBuf - (m_currentTxBytes[i] - a)

Smaller(x, y) == IF x < y THEN x ELSE y

\* What the loop of NotifiSendData hands to Send, segment by segment.
ToWrite(i, a) == IF m_currentTxBytes[i] < Target
                 THEN Smaller(Target - m_currentTxBytes[i], TxAvailable(i, a)) ELSE 0

\* NotifiSendData: fill the send buffer; close once everything is written.
\* Send fails on a socket that was closed, and the function returns at once.
NotifiSendData(i, a) ==
  LET n == ToWrite(i, a)
      fails == n > 0 /\ shut[i]
      cur == IF fails THEN m_currentTxBytes[i] ELSE m_currentTxBytes[i] + n
  IN /\ m_currentTxBytes' = [m_currentTxBytes EXCEPT ![i] = cur]
     /\ shut' = [shut EXCEPT ![i] = @ \/ (~fails /\ cur >= Target)]

\* The trace files are opened and the size of the transfer is announced.
RegisterTraceFunctions(i) == m_sessionBytes' = Registered(i)

\* StartApplication: bind, register with InfoPriv, connect.
StartApplication(i) ==
  /\ started = i - 1
  /\ started' = i
  /\ socket' = [socket EXCEPT ![i] = "connecting"]
  /\ RegisterTraceFunctions(i)
  /\ UNCHANGED <<now, stopped, clientVars, shut, sent, acked, retx, sinkVars,
                 m_flows, m_bytes, m_flowCount, m_stopStamp, util, loss, finish>>

\* ConnectionSucceeded: the socket reports the connection, a round trip later.
ConnectionSucceeded(i) ==
  /\ socket[i] = "connecting" /\ now > 0
  /\ socket' = [socket EXCEPT ![i] = "open"]
  /\ m_connected' = [m_connected EXCEPT ![i] = TRUE]
  /\ NotifiSendData(i, 0)
  /\ UNCHANGED <<now, started, stopped, m_totalTxBytes, sent, acked, retx, sinkVars, infoVars>>

\* ConnectionFailed does nothing; the socket is of no further use.
ConnectionFailed(i) ==
  /\ socket[i] = "connecting" /\ now > 0
  /\ socket' = [socket EXCEPT ![i] = "failed"]
  /\ UNCHANGED <<now, started, stopped, clientVars, shut, sent, acked, retx, sinkVars, infoVars>>

\* Mutant of WriteMore: the callback writes nothing more.
WriteMore_Never(i, a) == UNCHANGED <<m_currentTxBytes, shut>>

\* The body of OnCanWrite.
WriteMore(i, a) == IF m_connected[i] THEN NotifiSendData(i, a)
                                     ELSE UNCHANGED <<m_currentTxBytes, shut>>

\* OnCanWrite: an acknowledgement frees the send buffer.
OnCanWrite(i) ==
  /\ socket[i] = "open" /\ acked[i] < m_rxBytes[i]
  /\ acked' = [acked EXCEPT ![i] = m_rxBytes[i]]
  /\ WriteMore(i, m_rxBytes[i])
  /\ UNCHANGED <<now, started, stopped, m_connected, m_totalTxBytes, socket, sent, retx,
                 sinkVars, infoVars>>

\* StopApplication: close; a connection still being set up is abandoned.
StopApplication(i) ==
  /\ i <= started /\ i \notin stopped /\ now > 0
  /\ stopped' = stopped \cup {i}
  /\ shut' = [shut EXCEPT ![i] = TRUE]
  /\ m_connected' = [m_connected EXCEPT ![i] = FALSE]
  /\ socket' = [socket EXCEPT ![i] = IF @ = "connecting" THEN "failed" ELSE @]
  /\ UNCHANGED <<now, started, m_currentTxBytes, m_totalTxBytes, sent, acked, retx,
                 sinkVars, infoVars>>

\* Mutant of TraceTxCallback: every packet counts as a full segment.
TraceTxCallback_Full(i, n) == m_totalTxBytes' = [m_totalTxBytes EXCEPT ![i] = @ + MSS]

\* TraceTxCallback: each packet the socket sends, first time or again.
TraceTxCallback(i, n) == m_totalTxBytes' = [m_totalTxBytes EXCEPT ![i] = @ + n]

\* external: the socket sends the next segment of its buffer
Transmit(i) ==
  LET n == Smaller(MSS, m_currentTxBytes[i] - sent[i])
  IN /\ socket[i] = "open" /\ n > 0
     /\ sent' = [sent EXCEPT ![i] = @ + n]
     /\ TraceTxCallback(i, n)
     /\ UNCHANGED <<now, started, stopped, m_connected, m_currentTxBytes, socket, shut,
                    acked, retx, sinkVars, infoVars>>

\* external: the socket repeats its oldest unacknowledged segment
Retransmit(i) ==
  LET n == Smaller(MSS, sent[i] - acked[i])
  IN /\ socket[i] = "open" /\ n > 0 /\ retx[i] + n <= MaxRetx
     /\ retx' = [retx EXCEPT ![i] = @ + n]
     /\ TraceTxCallback(i, n)
     /\ UNCHANGED <<now, started, stopped, m_connected, m_currentTxBytes, socket, shut,
                    sent, acked, sinkVars, infoVars>>

\* LogLossInfo: bytes sent beyond the target, the numerator of the loss rate.
Excess(i) == IF m_totalTxBytes[i] > Target THEN m_totalTxBytes[i] - Target ELSE 0

\* HandlePeerClose: both sides have closed, and the loss rate is logged.
HandlePeerClose(i) ==
  /\ socket[i] = "open" /\ shut[i] /\ i \in sinks
  /\ acked[i] = m_currentTxBytes[i]
  /\ socket' = [socket EXCEPT ![i] = "closed"]
  /\ loss' = Insert(loss, i, Excess(i))
  /\ UNCHANGED <<now, started, stopped, clientVars, shut, sent, acked, retx, sinkVars,
                 m_flows, m_sessionBytes, m_bytes, m_flowCount, m_stopStamp, util, finish>>

-----------------------------------------------------------------------------
\* TcpServer, TcpSink and InfoPriv

\* A new sink looks up how many bytes to expect.
NewSink(i) == \E b \in BulkBytes(i) : m_totalBytes' = [m_totalBytes EXCEPT ![i] = b]

\* HandleAccept: the server makes a sink for the connection and keeps it.
HandleAccept(i) ==
  /\ socket[i] = "open" /\ i \notin sinks
  /\ sinks' = sinks \cup {i}
  /\ NewSink(i)
  /\ UNCHANGED <<now, started, stopped, clientVars, socketVars, m_rxBytes, infoVars>>

\* Mutant of StopStamp: the first stop is kept, not the last.
StopStamp_First == IF m_stopStamp = 0 THEN now ELSE m_stopStamp

\* The latest stop so far; 0 stands for none.
StopStamp == IF m_stopStamp = 0 \/ now > m_stopStamp THEN now ELSE m_stopStamp

\* OnSessionStop: count the flow; the last one writes the utilisation.
OnSessionStop(bytes) ==
  IF m_flows = 0 THEN UNCHANGED <<m_bytes, m_flowCount, m_stopStamp, util>>
  ELSE /\ m_bytes' = m_bytes + bytes
       /\ m_flowCount' = m_flowCount + 1
       /\ m_stopStamp' = StopStamp
       /\ util' = IF m_flowCount + 1 = m_flows /\ StopStamp # 0
                  THEN Append(util, <<StopStamp, m_bytes + bytes>>) ELSE util

\* The test at the end of HandleRead.
SessionOver(i, rx) == m_totalBytes[i] > 0 /\ m_totalBytes[i] = rx

\* HandleRead: drain what has arrived in order; report the end of the session.
HandleRead(i) ==
  /\ i \in sinks
  /\ \E rx \in (m_rxBytes[i] + 1) .. sent[i] :
       /\ m_rxBytes' = [m_rxBytes EXCEPT ![i] = rx]
       /\ finish' = IF rx = Target THEN Insert(finish, i, now) ELSE finish
       /\ IF SessionOver(i, rx) THEN OnSessionStop(rx % Width)
          ELSE UNCHANGED <<m_bytes, m_flowCount, m_stopStamp, util>>
  /\ UNCHANGED <<now, started, stopped, clientVars, socketVars, sinks, m_totalBytes,
                 m_flows, m_sessionBytes, loss>>

Tick == /\ now < MaxTime
        /\ now' = now + 1
        /\ UNCHANGED <<started, stopped, clientVars, socketVars, sinkVars, infoVars>>

-----------------------------------------------------------------------------
Init ==
  /\ now = 0 /\ started = 0 /\ stopped = {}
  /\ m_connected = [i \in Flow |-> FALSE]
  /\ m_currentTxBytes = [i \in Flow |-> 0] /\ m_totalTxBytes = [i \in Flow |-> 0]
  /\ socket = [i \in Flow |-> "none"] /\ shut = [i \in Flow |-> FALSE]
  /\ sent = [i \in Flow |-> 0] /\ acked = [i \in Flow |-> 0] /\ retx = [i \in Flow |-> 0]
  /\ sinks = {} /\ m_totalBytes = [i \in Flow |-> 0] /\ m_rxBytes = [i \in Flow |-> 0]
  /\ m_flows \in FlowNums /\ m_sessionBytes = <<>> /\ m_bytes = 0 /\ m_flowCount = 0 /\ m_stopStamp = 0
  /\ util = <<>> /\ loss = <<>> /\ finish = <<>>

\* What the simulator runs without being asked: everything but the stop,
\* a failed connection and a repeated segment.
Progress(i) == \/ StartApplication(i) \/ ConnectionSucceeded(i) \/ OnCanWrite(i)
               \/ Transmit(i) \/ HandlePeerClose(i) \/ HandleAccept(i) \/ HandleRead(i)

Next == \/ Tick
        \/ \E i \in Flow : \/ Progress(i) \/ ConnectionFailed(i)
                           \/ StopApplication(i) \/ Retransmit(i)

Spec == Init /\ [][Next]_vars

\* A discrete-event simulator runs every scheduled event, and a link whose
\* loss rate is below one delivers some repetition of every segment.
FairSpec == Spec /\ WF_vars(Tick) /\ \A i \in Flow : WF_vars(Progress(i))

-----------------------------------------------------------------------------
\* A sink learns at accept time exactly the number of bytes its client will
\* send: the client registered it before connecting, under the same key, and
\* the map finds it although operator< is no strict order in general.
SinkKnowsTarget == m_flows > 0 => \A i \in sinks : m_totalBytes[i] = Target

\* InfoPriv counts every flow once, when its last byte has been read and not
\* before, however the reads of the flows interleave and split.  utilinfo.txt
\* has one line, written by the flow that completes the number announced with
\* SetExperimentInfo; its time is the finish of the latest of them and its
\* bytes are theirs.
UtilizationOfAllFlows ==
  /\ m_flows > 0 => /\ m_flowCount = Cardinality(DOMAIN finish)
                    /\ m_bytes = m_flowCount * Target
  /\ Len(util) = (IF m_flows > 0 /\ m_flowCount >= m_flows THEN 1 ELSE 0)
  /\ \A k \in DOMAIN util :
       /\ util[k][2] = m_flows * Target
       /\ \E i \in DOMAIN finish : finish[i] = util[k][1]
       /\ Cardinality({i \in DOMAIN finish : finish[i] <= util[k][1]}) >= m_flows

\* For a client that wrote its whole target, the loss logged when the peer
\* closes is exactly what its socket sent more than once.
LossIsRetransmission ==
  \A i \in DOMAIN loss : m_currentTxBytes[i] = Target => loss[i] = retx[i]

\* A client that starts delivers all its bytes, unless it is stopped or cannot
\* connect, and in every case its socket is closed in the end: the send callback
\* keeps the buffer filled until the target is reached.
FlowEnds ==
  \A i \in Flow :
    /\ started >= i ~> m_rxBytes[i] = Target \/ i \in stopped \/ socket[i] = "failed"
    /\ started >= i ~> socket[i] \in {"closed", "failed"}
=============================================================================
