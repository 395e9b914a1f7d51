------------------------- MODULE TcpExperimentProofs -------------------------
(***************************************************************************)
(* Proofs about the TCP experiment, for every number of flows, transfer    *)
(* size, send buffer and segment size.                                     *)
(***************************************************************************)
EXTENDS TcpExperiment, FiniteSetTheorems, TLAPS

-----------------------------------------------------------------------------
\* The inductive invariant

Typed ==
  /\ now \in Nat /\ started \in 0 .. N
  /\ socket \in [Flow -> {"none", "connecting", "open", "failed", "closed"}]
  /\ m_currentTxBytes \in [Flow -> Nat] /\ m_totalTxBytes \in [Flow -> Nat]
  /\ sent \in [Flow -> Nat] /\ acked \in [Flow -> Nat] /\ retx \in [Flow -> Nat]
  /\ m_rxBytes \in [Flow -> Nat] /\ DOMAIN m_totalBytes = Flow
  /\ sinks \subseteq Flow /\ DOMAIN loss \subseteq Flow

\* The counters of a connection are ordered as its bytes travel, and what is
\* written and not acknowledged fits the send buffer.
CountersOrdered(i) ==
  /\ acked[i] <= m_rxBytes[i] /\ m_rxBytes[i] <= sent[i]
  /\ sent[i] <= m_currentTxBytes[i] /\ m_currentTxBytes[i] <= Target
  /\ m_currentTxBytes[i] - acked[i] <= SndBuf
  /\ m_totalTxBytes[i] = sent[i] + retx[i]

\* How far the connection of a flow has come bounds everything else about it.
StagesOrdered(i) ==
  /\ socket[i] # "none" => i <= started
  /\ socket[i] \in {"none", "connecting"} => m_currentTxBytes[i] = 0
  /\ socket[i] \in {"open", "closed"} => now > 0
  /\ i \in sinks => socket[i] \in {"open", "closed"}
  /\ i \in sinks /\ m_flows > 0 => m_totalBytes[i] = Target
  /\ i \in DOMAIN loss =>
       /\ socket[i] = "closed"
       /\ m_currentTxBytes[i] = Target => loss[i] = retx[i]

\* The map holds the flows that have started, and nothing else.
MapSound == m_flows > 0 => /\ DOMAIN m_sessionBytes = {Key(j) : j \in 1 .. started}
                           /\ \A j \in 1 .. started : m_sessionBytes[Key(j)] = Target

\* InfoPriv has counted the flows that were read to the end; its stop stamp is
\* the latest of their times.
InfoSound ==
  /\ m_flows \in Nat /\ m_flowCount \in Nat /\ m_bytes \in Nat /\ m_stopStamp \in Nat
  /\ DOMAIN finish = {i \in Flow : m_rxBytes[i] = Target}
  /\ \A i \in DOMAIN finish : finish[i] \in Nat
  /\ m_flows > 0 => /\ m_stopStamp <= now
                    /\ \A i \in DOMAIN finish : finish[i] <= m_stopStamp
  /\ util \in Seq(Nat \X Nat)
  /\ UtilizationOfAllFlows

\* The inductive invariant of the TCP experiment.
IInv == /\ Typed
        /\ \A i \in Flow : CountersOrdered(i) /\ StagesOrdered(i)
        /\ MapSound
        /\ InfoSound

-----------------------------------------------------------------------------
\* InfoPriv

\* What a step does not touch of InfoPriv's counts, the reads and the history
\* of finished flows stays sound as time goes on.
LEMMA InfoKept ==
  ASSUME InfoSound, now \in Nat, now' \in Nat, now <= now',
         UNCHANGED <<m_rxBytes, m_flows, m_bytes, m_flowCount, m_stopStamp, util, finish>>
  PROVE  InfoSound'
<1>1. UtilizationOfAllFlows' BY SMTT(30) DEF InfoSound, UtilizationOfAllFlows
<1>2. QED BY <1>1 DEF InfoSound

\* The flows that have finished are finitely many.
LEMMA FinishedFinite == InfoSound => IsFiniteSet(DOMAIN finish)
<1> SUFFICES ASSUME InfoSound PROVE IsFiniteSet(DOMAIN finish) OBVIOUS
<1>1. DOMAIN finish \subseteq 1 .. N BY DEF InfoSound, Flow
<1>2. N \in Nat BY TcpConstants
<1>3. IsFiniteSet(1 .. N) BY <1>2, FS_Interval
<1>4. QED BY <1>1, <1>3, FS_Subset, Zenon

\* The read that completes a flow counts it, whose finish is then the latest.
LEMMA LastReadCounts ==
  ASSUME InfoSound, NEW i \in Flow, i \notin DOMAIN finish, now \in Nat, now > 0, m_flows > 0,
         m_flows' = m_flows, now' = now, OnSessionStop(Target),
         DOMAIN finish' = DOMAIN finish \cup {i}, finish'[i] = now,
         \A j \in DOMAIN finish : finish'[j] = finish[j],
         DOMAIN finish' = {j \in Flow : m_rxBytes'[j] = Target}
  PROVE  InfoSound'
<1>1. /\ m_flowCount = Cardinality(DOMAIN finish) /\ m_bytes = m_flowCount * Target
      /\ Len(util) = (IF m_flowCount >= m_flows THEN 1 ELSE 0)
      BY DEF InfoSound, UtilizationOfAllFlows
<1>2. \A k \in DOMAIN util :
        /\ util[k][2] = m_flows * Target
        /\ \E j \in DOMAIN finish : finish[j] = util[k][1]
        /\ Cardinality({j \in DOMAIN finish : finish[j] <= util[k][1]}) >= m_flows
      BY Zenon DEF InfoSound, UtilizationOfAllFlows
<1>3. /\ m_flows \in Nat /\ m_flowCount \in Nat /\ m_bytes \in Nat /\ Target \in Nat
      /\ m_stopStamp \in Nat /\ m_stopStamp <= now /\ util \in Seq(Nat \X Nat)
      /\ \A j \in DOMAIN finish : finish[j] \in Nat /\ finish[j] <= m_stopStamp
      BY TcpConstants DEF InfoSound
<1>4. /\ IsFiniteSet(DOMAIN finish') /\ Cardinality(DOMAIN finish') = m_flowCount + 1
      BY <1>1, FinishedFinite, FS_AddElement
<1>5. StopStamp = now BY <1>3 DEF StopStamp
<1>6. /\ m_bytes' = m_bytes + Target /\ m_flowCount' = m_flowCount + 1 /\ m_stopStamp' = now
      /\ util' = IF m_flowCount + 1 = m_flows THEN Append(util, <<now, m_bytes + Target>>) ELSE util
      BY <1>5 DEF OnSessionStop
<1>7. m_bytes' = m_flowCount' * Target
  <2>1. (m_flowCount + 1) * Target = m_flowCount * Target + Target BY <1>3
  <2>2. QED BY <1>1, <1>6, <2>1
<1>8. \A j \in DOMAIN finish' : finish'[j] \in Nat /\ finish'[j] <= now BY <1>3
<1>9. /\ util' \in Seq(Nat \X Nat)
      /\ Len(util') = (IF m_flowCount' >= m_flows THEN 1 ELSE 0)
      /\ \A k \in DOMAIN util' :
           /\ util'[k][2] = m_flows * Target
           /\ \E j \in DOMAIN finish' : finish'[j] = util'[k][1]
           /\ Cardinality({j \in DOMAIN finish' : finish'[j] <= util'[k][1]}) >= m_flows
  <2>1. CASE m_flowCount + 1 = m_flows
    <3>1. util = <<>> BY <2>1, <1>1, <1>3
    <3>2. util' = <<<<now, m_bytes + Target>>>> BY <2>1, <1>6, <3>1
    <3>3. m_bytes + Target = m_flows * Target BY <2>1, <1>6, <1>7
    <3>4. {j \in DOMAIN finish' : finish'[j] <= now} = DOMAIN finish' BY <1>8
    <3>5. /\ Len(util') = 1 /\ DOMAIN util' = {1} /\ util'[1] = <<now, m_bytes + Target>>
          /\ util' \in Seq(Nat \X Nat)
          BY <3>2, <1>3
    <3>6. util'[1][2] = m_flows * Target /\ util'[1][1] = now BY <3>3, <3>5
    <3>7. Cardinality({j \in DOMAIN finish' : finish'[j] <= util'[1][1]}) >= m_flows
      <4>1. {j \in DOMAIN finish' : finish'[j] <= util'[1][1]} = DOMAIN finish' BY <3>4, <3>6, Zenon
      <4>2. m_flowCount + 1 >= m_flows BY <2>1, <1>3
      <4>3. QED BY <4>1, <4>2, <1>4, Zenon
    <3>8. \E j \in DOMAIN finish' : finish'[j] = util'[1][1] BY <3>6
    <3>9. Len(util') = (IF m_flowCount' >= m_flows THEN 1 ELSE 0) BY <2>1, <1>3, <1>6, <3>5
    <3>10. QED BY <3>5, <3>6, <3>7, <3>8, <3>9, Zenon
  <2>2. CASE m_flowCount + 1 # m_flows
    <3>1. util' = util BY <2>2, <1>6
    <3>2. ASSUME NEW k \in DOMAIN util
          PROVE Cardinality({j \in DOMAIN finish' : finish'[j] <= util[k][1]}) >= m_flows
      <4> DEFINE A == {j \in DOMAIN finish : finish[j] <= util[k][1]}
                 B == {j \in DOMAIN finish' : finish'[j] <= util[k][1]}
      <4>1. A \subseteq B /\ B \subseteq DOMAIN finish' OBVIOUS
      <4>2. Cardinality(A) >= m_flows BY <1>2, Zenon
      <4> HIDE DEF A, B
      <4>3. IsFiniteSet(B) BY <4>1, <1>4, FS_Subset
      <4>4. Cardinality(A) \in Nat /\ Cardinality(B) \in Nat /\ Cardinality(A) <= Cardinality(B)
            BY <4>1, <4>3, FS_Subset, FS_CardinalityType
      <4>5. Cardinality(B) >= m_flows BY <4>2, <4>4, <1>3
      <4>6. QED BY <4>5 DEF B
    <3>3. Len(util) = (IF m_flowCount' >= m_flows THEN 1 ELSE 0) BY <2>2, <1>1, <1>3, <1>6, SMTT(30)
    <3>4. ASSUME NEW k \in DOMAIN util PROVE \E j \in DOMAIN finish' : finish'[j] = util[k][1]
      <4>1. PICK j \in DOMAIN finish : finish[j] = util[k][1] BY <1>2, Zenon
      <4>2. j \in DOMAIN finish' /\ finish'[j] = util[k][1] BY <4>1
      <4>3. QED BY <4>2
    <3>5. \A k \in DOMAIN util : util[k][2] = m_flows * Target BY <1>2, Zenon
    <3>6. QED BY <3>1, <3>2, <3>3, <3>4, <3>5, <1>3, Zenon
  <2>3. QED BY <2>1, <2>2
<1>10. UtilizationOfAllFlows' BY <1>4, <1>6, <1>7, <1>9, Zenon DEF UtilizationOfAllFlows
<1>11. /\ m_flows' \in Nat /\ m_flowCount' \in Nat /\ m_bytes' \in Nat /\ m_stopStamp' \in Nat
       /\ m_stopStamp' <= now'
       BY <1>3, <1>6
<1>12. QED BY <1>6, <1>8, <1>9, <1>10, <1>11, Zenon DEF InfoSound

-----------------------------------------------------------------------------
\* The flows

\* A step of flow i leaves the other flows as they were.
OthersKept(i) ==
  \A j \in Flow \ {i} :
    /\ socket'[j] = socket[j] /\ m_currentTxBytes'[j] = m_currentTxBytes[j]
    /\ m_totalTxBytes'[j] = m_totalTxBytes[j] /\ sent'[j] = sent[j] /\ acked'[j] = acked[j]
    /\ retx'[j] = retx[j] /\ m_rxBytes'[j] = m_rxBytes[j] /\ m_totalBytes'[j] = m_totalBytes[j]
    /\ j \in sinks' <=> j \in sinks
    /\ j \in DOMAIN loss' <=> j \in DOMAIN loss
    /\ j \in DOMAIN loss => loss'[j] = loss[j]

\* A step of flow i keeps what is known of the others.
LEMMA OthersSound ==
  ASSUME IInv, NEW i \in Flow, OthersKept(i), now' = now, m_flows' = m_flows,
         started' \in Nat, started \in Nat, started <= started',
         NEW j \in Flow \ {i}
  PROVE  CountersOrdered(j)' /\ StagesOrdered(j)'
<1> CountersOrdered(j) /\ StagesOrdered(j) BY DEF IInv
<1>1. /\ socket'[j] = socket[j] /\ m_currentTxBytes'[j] = m_currentTxBytes[j]
      /\ m_totalTxBytes'[j] = m_totalTxBytes[j] /\ sent'[j] = sent[j] /\ acked'[j] = acked[j]
      /\ retx'[j] = retx[j] /\ m_rxBytes'[j] = m_rxBytes[j] /\ m_totalBytes'[j] = m_totalBytes[j]
      /\ j \in sinks' <=> j \in sinks
      /\ j \in DOMAIN loss' <=> j \in DOMAIN loss
      /\ j \in DOMAIN loss => loss'[j] = loss[j]
      BY DEF OthersKept
<1>2. CountersOrdered(j)' BY <1>1 DEF CountersOrdered
<1>3. N \in Nat BY TcpConstants
<1>4. StagesOrdered(j)' BY <1>1, <1>3 DEF StagesOrdered, Flow
<1>5. QED BY <1>2, <1>4

\* A step of one connection that InfoPriv does not see is sound when it is
\* sound for the flow.
LEMMA QuietStep ==
  ASSUME IInv, NEW i \in Flow, Typed', OthersKept(i), CountersOrdered(i)', StagesOrdered(i)',
         UNCHANGED <<now, started, m_sessionBytes, m_rxBytes, m_flows, m_bytes, m_flowCount,
                     m_stopStamp, util, finish>>
  PROVE  IInv'
<1> Typed /\ MapSound /\ InfoSound BY DEF IInv
<1>1. now \in Nat /\ started \in Nat BY TcpConstants DEF Typed
<1>2. \A j \in Flow \ {i} : CountersOrdered(j)' /\ StagesOrdered(j)' BY <1>1, OthersSound
<1>3. MapSound' BY Zenon DEF MapSound
<1>4. InfoSound' BY <1>1, InfoKept
<1>5. QED BY <1>2, <1>3, <1>4, Zenon DEF IInv

\* The numbers of a flow.
LEMMA FlowNumbers ==
  ASSUME Typed, NEW i \in Flow
  PROVE  /\ m_currentTxBytes[i] \in Nat /\ m_totalTxBytes[i] \in Nat /\ sent[i] \in Nat
         /\ acked[i] \in Nat /\ retx[i] \in Nat /\ m_rxBytes[i] \in Nat
BY DEF Typed

\* What the loop of NotifiSendData writes never overfills the send buffer or
\* passes the target.
LEMMA ToWriteFits ==
  ASSUME NEW i \in Flow, NEW a \in Nat, m_currentTxBytes \in [Flow -> Nat],
         a <= m_currentTxBytes[i], m_currentTxBytes[i] - a <= SndBuf,
         m_currentTxBytes[i] <= Target
  PROVE  /\ ToWrite(i, a) \in Nat
         /\ m_currentTxBytes[i] + ToWrite(i, a) <= Target
         /\ m_currentTxBytes[i] + ToWrite(i, a) - a <= SndBuf
BY TcpConstants DEF ToWrite, Smaller, TxAvailable

\* NotifiSendData only adds to what was written, within the buffer and the target.
LEMMA NotifiSendDataFits ==
  ASSUME NEW i \in Flow, NEW a \in Nat, m_currentTxBytes \in [Flow -> Nat],
         a <= m_currentTxBytes[i], m_currentTxBytes[i] - a <= SndBuf,
         m_currentTxBytes[i] <= Target, NotifiSendData(i, a)
  PROVE  \E cur \in Nat :
           /\ m_currentTxBytes' = [m_currentTxBytes EXCEPT ![i] = cur]
           /\ m_currentTxBytes[i] <= cur /\ cur <= Target /\ cur - a <= SndBuf
<1> DEFINE n == ToWrite(i, a)
           fails == n > 0 /\ shut[i]
           cur == IF fails THEN m_currentTxBytes[i] ELSE m_currentTxBytes[i] + n
<1>1. /\ n \in Nat /\ m_currentTxBytes[i] + n <= Target /\ m_currentTxBytes[i] + n - a <= SndBuf
      BY ToWriteFits
<1>2. m_currentTxBytes' = [m_currentTxBytes EXCEPT ![i] = cur] BY Zenon DEF NotifiSendData
<1>3. /\ cur \in Nat /\ m_currentTxBytes[i] <= cur /\ cur <= Target /\ cur - a <= SndBuf
      BY <1>1, TcpConstants
<1> HIDE DEF n, fails, cur
<1>4. QED BY <1>2, <1>3, Zenon

\* The ports of the flows ascend on both ends, so the keys of different flows
\* differ and operator< is a strict order on them.
LEMMA KeysOrdered ==
  ASSUME NEW n \in Nat
  PROVE  /\ \A i, j \in 1 .. n : Key(i) = Key(j) => i = j
         /\ StrictOrder({Key(j) : j \in 1 .. n})
<1>1. \A i \in Int : Key(i)[1] = 49152 + i /\ Key(i)[2] = 5000 + i - 1
      BY DEF Key, EphemeralPort, ServPort
<1>2. \A i, j \in 1 .. n : Key(i) = Key(j) => i = j BY <1>1
<1>3. ASSUME NEW i \in 1 .. n, NEW j \in 1 .. n PROVE ~(Less(Key(i), Key(j)) /\ Less(Key(j), Key(i)))
      BY <1>1 DEF Less
<1>4. QED BY <1>2, <1>3 DEF StrictOrder

-----------------------------------------------------------------------------
\* One lemma per action

\* A read moves the bytes read towards those sent, and the last one finishes its flow.
LEMMA ReadSound == ASSUME IInv, NEW i \in Flow, HandleRead(i) PROVE IInv'
<1> Typed /\ MapSound /\ InfoSound /\ CountersOrdered(i) /\ StagesOrdered(i) BY DEF IInv
<1>1. PICK rx \in (m_rxBytes[i] + 1) .. sent[i] :
        /\ m_rxBytes' = [m_rxBytes EXCEPT ![i] = rx]
        /\ finish' = IF rx = Target THEN Insert(finish, i, now) ELSE finish
        /\ IF SessionOver(i, rx) THEN OnSessionStop(rx % Width)
           ELSE UNCHANGED <<m_bytes, m_flowCount, m_stopStamp, util>>
      BY Zenon DEF HandleRead
<1>2. /\ i \in sinks
      /\ UNCHANGED <<now, started, m_currentTxBytes, m_totalTxBytes, socket, sent, acked, retx,
                     sinks, m_totalBytes, m_flows, m_sessionBytes, loss>>
      BY Zenon DEF HandleRead, clientVars, socketVars
<1>3. now > 0 /\ (m_flows > 0 => m_totalBytes[i] = Target) BY <1>2 DEF StagesOrdered
<1>4. rx \in Nat /\ rx <= Target /\ m_rxBytes[i] < rx /\ rx <= sent[i]
      BY FlowNumbers, TcpConstants DEF CountersOrdered
<1>5. now \in Nat /\ started \in Nat BY TcpConstants DEF Typed
<1>6. /\ m_rxBytes[i] # Target /\ m_rxBytes'[i] = rx
      /\ \A j \in Flow \ {i} : m_rxBytes'[j] = m_rxBytes[j]
      BY <1>1, <1>4, TcpConstants DEF Typed
<1>7. i \notin DOMAIN finish BY <1>6 DEF InfoSound
<1>8. DOMAIN finish' = {j \in Flow : m_rxBytes'[j] = Target}
  <2>1. DOMAIN finish = {j \in Flow : m_rxBytes[j] = Target} BY DEF InfoSound
  <2>2. DOMAIN finish' = IF rx = Target THEN DOMAIN finish \cup {i} ELSE DOMAIN finish
        BY <1>1 DEF Insert
  <2>3. QED BY <2>1, <2>2, <1>6
<1>9. InfoSound'
  <2>1. CASE m_flows = 0
    <3>1. UNCHANGED <<m_bytes, m_flowCount, m_stopStamp, util>> BY <2>1, <1>1 DEF OnSessionStop
    <3>2. util = <<>> BY <2>1, SMTT(30) DEF InfoSound, UtilizationOfAllFlows
    <3>3. UtilizationOfAllFlows' BY <2>1, <3>1, <3>2, <1>2 DEF UtilizationOfAllFlows
    <3>4. \A j \in DOMAIN finish : finish[j] \in Nat BY DEF InfoSound
    <3>5. \A j \in DOMAIN finish' : finish'[j] \in Nat BY <3>4, <1>1, <1>5 DEF Insert
    <3>6. QED BY <2>1, <3>1, <3>3, <3>5, <1>2, <1>8 DEF InfoSound
  <2>2. CASE m_flows > 0 /\ rx = Target
    <3>1. SessionOver(i, rx) /\ rx % Width = Target BY <2>2, <1>3, TcpConstants DEF SessionOver
    <3>2. OnSessionStop(Target) BY <3>1, <1>1, Zenon
    <3>3. /\ DOMAIN finish' = DOMAIN finish \cup {i} /\ finish'[i] = now
          /\ \A j \in DOMAIN finish : finish'[j] = finish[j]
          BY <2>2, <1>1, <1>7 DEF Insert
    <3>4. QED BY <2>2, <3>2, <3>3, <1>2, <1>3, <1>5, <1>7, <1>8, LastReadCounts, Zenon
  <2>3. CASE m_flows > 0 /\ rx # Target
    <3>1. ~SessionOver(i, rx) BY <2>3, <1>3 DEF SessionOver
    <3>2. UNCHANGED <<m_bytes, m_flowCount, m_stopStamp, util, finish>> BY <2>3, <3>1, <1>1
    <3>3. UtilizationOfAllFlows' BY <3>2, <1>2, Zenon DEF InfoSound, UtilizationOfAllFlows
    <3>4. QED BY <3>2, <3>3, <1>2, <1>8, Zenon DEF InfoSound
  <2>4. QED BY <2>1, <2>2, <2>3 DEF InfoSound
<1>10. Typed' BY <1>1, <1>2, <1>4 DEF Typed
<1>11. OthersKept(i) BY <1>2, <1>6 DEF OthersKept
<1>12. ASSUME NEW j \in Flow \ {i} PROVE CountersOrdered(j)' /\ StagesOrdered(j)'
       BY <1>2, <1>5, <1>11, OthersSound
<1>13. CountersOrdered(i)' BY <1>2, <1>4, <1>6, FlowNumbers, SMTT(30) DEF CountersOrdered
<1>14. StagesOrdered(i)' BY <1>2 DEF StagesOrdered
<1>15. MapSound' BY <1>2, Zenon DEF MapSound
<1>16. QED BY <1>9, <1>10, <1>12, <1>13, <1>14, <1>15, Zenon DEF IInv

\* The map gains the key of the flow that starts, which it did not hold.
LEMMA StartRegisters ==
  ASSUME Typed, MapSound, NEW i \in Flow, StartApplication(i), m_flows > 0
  PROVE  /\ DOMAIN m_sessionBytes' = {Key(j) : j \in 1 .. i}
         /\ \A j \in 1 .. i : m_sessionBytes'[Key(j)] = Target
<1>1. m_sessionBytes' = Insert(m_sessionBytes, Key(i), Target)
      BY TcpConstants DEF StartApplication, RegisterTraceFunctions, Registered
<1>2. started = i - 1 /\ i \in Nat \ {0} BY DEF StartApplication, Flow
<1>3. 1 .. i = (1 .. started) \cup {i} /\ i \notin 1 .. started BY <1>2
<1>4. /\ DOMAIN m_sessionBytes = {Key(j) : j \in 1 .. started}
      /\ \A j \in 1 .. started : m_sessionBytes[Key(j)] = Target
      BY Zenon DEF MapSound
<1>5. DOMAIN m_sessionBytes' = {Key(j) : j \in 1 .. i} BY <1>1, <1>3, <1>4 DEF Insert
<1>6. Key(i) \notin DOMAIN m_sessionBytes
  <2>1. \A j \in 1 .. started : j \in 1 .. i /\ i \in 1 .. i /\ j # i BY <1>2
  <2>2. \A j \in 1 .. started : Key(j) # Key(i) BY <2>1, <1>2, KeysOrdered, Zenon
  <2>3. QED BY <2>2, <1>4
<1>7. ASSUME NEW j \in 1 .. i PROVE m_sessionBytes'[Key(j)] = Target
  <2>1. CASE j = i BY <2>1, <1>1, <1>6 DEF Insert
  <2>2. CASE j # i
    <3>1. j \in 1 .. started BY <2>2, <1>3
    <3>2. Key(j) \in DOMAIN m_sessionBytes /\ m_sessionBytes[Key(j)] = Target BY <3>1, <1>4
    <3>3. QED BY <3>2, <1>1 DEF Insert
  <2>3. QED BY <2>1, <2>2
<1>8. QED BY <1>5, <1>7

\* A source that starts is the next flow, and registers what it will send.
LEMMA StartSound == ASSUME IInv, NEW i \in Flow, StartApplication(i) PROVE IInv'
<1> Typed /\ MapSound /\ InfoSound /\ CountersOrdered(i) /\ StagesOrdered(i) BY DEF IInv
<1>1. /\ started = i - 1 /\ started' = i /\ socket' = [socket EXCEPT ![i] = "connecting"]
      /\ UNCHANGED <<now, m_currentTxBytes, m_totalTxBytes, sent, acked, retx, sinks,
                     m_totalBytes, m_rxBytes, m_flows, m_bytes, m_flowCount, m_stopStamp,
                     util, loss, finish>>
      BY DEF StartApplication, clientVars, sinkVars
<1>2. i \in 1 .. N /\ started \in Nat /\ started' \in 0 .. N /\ now \in Nat
      BY <1>1, TcpConstants DEF Flow, Typed
<1>3. Typed' BY <1>1, <1>2 DEF Typed
<1>4. OthersKept(i) BY <1>1 DEF OthersKept, Typed
<1>5. ASSUME NEW j \in Flow \ {i} PROVE CountersOrdered(j)' /\ StagesOrdered(j)'
      BY <1>1, <1>2, <1>4, OthersSound
<1>6. CountersOrdered(i)' BY <1>1 DEF CountersOrdered
<1>7. StagesOrdered(i)'
  <2>1. socket[i] = "none" BY <1>1, <1>2 DEF StagesOrdered
  <2>2. socket'[i] = "connecting" BY <1>1 DEF Typed
  <2>3. QED BY <2>1, <2>2, <1>1, <1>2 DEF StagesOrdered
<1>8. MapSound' BY <1>1, StartRegisters, Zenon DEF MapSound
<1>9. InfoSound' BY <1>1, <1>2, InfoKept
<1>10. QED BY <1>3, <1>5, <1>6, <1>7, <1>8, <1>9 DEF IInv

\* A connection opens with nothing written yet.
LEMMA SucceededSound == ASSUME IInv, NEW i \in Flow, ConnectionSucceeded(i) PROVE IInv'
<1> Typed /\ CountersOrdered(i) /\ StagesOrdered(i) BY DEF IInv
<1>0. UNCHANGED <<m_sessionBytes, m_bytes, m_flowCount, m_stopStamp, util, finish>>
      BY Zenon DEF ConnectionSucceeded, infoVars
<1>1. /\ socket[i] = "connecting" /\ now > 0 /\ socket' = [socket EXCEPT ![i] = "open"]
      /\ NotifiSendData(i, 0)
      /\ UNCHANGED <<now, started, m_totalTxBytes, sent, acked, retx, sinks,
                     m_totalBytes, m_rxBytes, m_flows, loss>>
      BY DEF ConnectionSucceeded, sinkVars, infoVars
<1>2. m_currentTxBytes[i] = 0 BY <1>1 DEF StagesOrdered
<1>3. PICK cur \in Nat : /\ m_currentTxBytes' = [m_currentTxBytes EXCEPT ![i] = cur]
                         /\ cur <= Target /\ cur - 0 <= SndBuf
  <2>1. m_currentTxBytes \in [Flow -> Nat] BY DEF Typed
  <2>2. QED BY <1>1, <1>2, <2>1, NotifiSendDataFits, TcpConstants
<1>4. Typed' BY <1>1, <1>3 DEF Typed
<1>5. OthersKept(i) BY <1>1, <1>3 DEF OthersKept, Typed
<1>6. m_currentTxBytes'[i] = cur /\ socket'[i] = "open" BY <1>1, <1>3, SMTT(30) DEF Typed
<1>7. CountersOrdered(i)' BY <1>1, <1>2, <1>3, <1>6, FlowNumbers, TcpConstants, SMTT(30) DEF CountersOrdered
<1>8. StagesOrdered(i)' BY <1>1, <1>6 DEF StagesOrdered
<1>9. QED BY <1>0, <1>1, <1>4, <1>5, <1>7, <1>8, QuietStep

\* A connection that failed has written nothing and is counted nowhere.
LEMMA FailedSound == ASSUME IInv, NEW i \in Flow, ConnectionFailed(i) PROVE IInv'
<1> Typed /\ CountersOrdered(i) /\ StagesOrdered(i) BY DEF IInv
<1>0. UNCHANGED <<m_sessionBytes, m_bytes, m_flowCount, m_stopStamp, util, finish>>
      BY Zenon DEF ConnectionFailed, infoVars
<1>1. /\ socket[i] = "connecting" /\ socket' = [socket EXCEPT ![i] = "failed"]
      /\ UNCHANGED <<now, started, m_currentTxBytes, m_totalTxBytes, sent, acked, retx,
                     sinks, m_totalBytes, m_rxBytes, m_flows, loss>>
      BY DEF ConnectionFailed, clientVars, sinkVars, infoVars
<1>2. Typed' BY <1>1 DEF Typed
<1>3. OthersKept(i) BY <1>1 DEF OthersKept, Typed
<1>4. socket'[i] = "failed" BY <1>1, SMTT(30) DEF Typed
<1>5. CountersOrdered(i)' BY <1>1, SMTT(30) DEF CountersOrdered
<1>6. StagesOrdered(i)' BY <1>1, <1>4 DEF StagesOrdered
<1>7. QED BY <1>0, <1>1, <1>2, <1>3, <1>5, <1>6, QuietStep

\* A stopped source gives up a connection being set up and leaves the counters.
LEMMA StopSound == ASSUME IInv, NEW i \in Flow, StopApplication(i) PROVE IInv'
<1> Typed /\ CountersOrdered(i) /\ StagesOrdered(i) BY DEF IInv
<1>0. UNCHANGED <<m_sessionBytes, m_bytes, m_flowCount, m_stopStamp, util, finish>>
      BY Zenon DEF StopApplication, infoVars
<1>1. /\ socket' = [socket EXCEPT ![i] = IF @ = "connecting" THEN "failed" ELSE @]
      /\ UNCHANGED <<now, started, m_currentTxBytes, m_totalTxBytes, sent, acked, retx,
                     sinks, m_totalBytes, m_rxBytes, m_flows, loss>>
      BY DEF StopApplication, sinkVars, infoVars
<1>2. Typed' BY <1>1 DEF Typed
<1>3. OthersKept(i) BY <1>1 DEF OthersKept, Typed
<1>4. socket'[i] = IF socket[i] = "connecting" THEN "failed" ELSE socket[i] BY <1>1 DEF Typed
<1>5. CountersOrdered(i)' BY <1>1, SMTT(30) DEF CountersOrdered
<1>6. StagesOrdered(i)' BY <1>1, <1>4 DEF StagesOrdered
<1>7. QED BY <1>0, <1>1, <1>2, <1>3, <1>5, <1>6, QuietStep

\* An acknowledgement frees the buffer; what is written then fits it and the target.
LEMMA CanWriteSound == ASSUME IInv, NEW i \in Flow, OnCanWrite(i) PROVE IInv'
<1> Typed /\ CountersOrdered(i) /\ StagesOrdered(i) BY DEF IInv
<1>0. UNCHANGED <<m_sessionBytes, m_bytes, m_flowCount, m_stopStamp, util, finish>>
      BY Zenon DEF OnCanWrite, infoVars
<1>1. /\ socket[i] = "open" /\ acked' = [acked EXCEPT ![i] = m_rxBytes[i]]
      /\ WriteMore(i, m_rxBytes[i])
      /\ UNCHANGED <<now, started, m_totalTxBytes, socket, sent, retx, sinks,
                     m_totalBytes, m_rxBytes, m_flows, loss>>
      BY DEF OnCanWrite, sinkVars, infoVars
<1>2. /\ m_rxBytes[i] <= m_currentTxBytes[i] /\ m_currentTxBytes[i] - m_rxBytes[i] <= SndBuf
      /\ m_currentTxBytes[i] <= Target
      BY FlowNumbers, TcpConstants DEF CountersOrdered
<1>3. PICK cur \in Nat : /\ m_currentTxBytes' = [m_currentTxBytes EXCEPT ![i] = cur]
                         /\ m_currentTxBytes[i] <= cur
                         /\ cur <= Target /\ cur - m_rxBytes[i] <= SndBuf
  <2>1. m_currentTxBytes \in [Flow -> Nat] /\ m_rxBytes[i] \in Nat BY DEF Typed
  <2>2. CASE m_connected[i]
    <3>1. NotifiSendData(i, m_rxBytes[i]) BY <2>2, <1>1 DEF WriteMore
    <3>2. QED BY <1>2, <2>1, <3>1, NotifiSendDataFits, SMTT(30)
  <2>3. CASE ~m_connected[i]
    <3>1. m_currentTxBytes' = [m_currentTxBytes EXCEPT ![i] = m_currentTxBytes[i]]
          BY <2>1, <2>3, <1>1 DEF WriteMore
    <3>2. m_currentTxBytes[i] \in Nat /\ m_currentTxBytes[i] <= m_currentTxBytes[i] BY <2>1
    <3>3. QED BY <1>2, <3>1, <3>2, Zenon
  <2>4. QED BY <2>2, <2>3
<1>4. Typed' BY <1>1, <1>3 DEF Typed
<1>5. OthersKept(i) BY <1>1, <1>3 DEF OthersKept, Typed
<1>6. m_currentTxBytes'[i] = cur /\ acked'[i] = m_rxBytes[i] BY <1>1, <1>3, SMTT(30) DEF Typed
<1>7. CountersOrdered(i)' BY <1>1, <1>3, <1>6, FlowNumbers, SMTT(30) DEF CountersOrdered
<1>8. StagesOrdered(i)'
  <2>1. i \notin DOMAIN loss BY <1>1 DEF StagesOrdered
  <2>2. QED BY <2>1, <1>1 DEF StagesOrdered
<1>9. QED BY <1>0, <1>1, <1>4, <1>5, <1>7, <1>8, QuietStep

\* What is sent for the first time was written and not sent.
LEMMA TransmitSound == ASSUME IInv, NEW i \in Flow, Transmit(i) PROVE IInv'
<1> Typed /\ CountersOrdered(i) /\ StagesOrdered(i) BY DEF IInv
<1> DEFINE n == Smaller(MSS, m_currentTxBytes[i] - sent[i])
<1>0. UNCHANGED <<m_sessionBytes, m_bytes, m_flowCount, m_stopStamp, util, finish>>
      BY Zenon DEF Transmit, infoVars
<1>1. /\ n > 0
      /\ sent' = [sent EXCEPT ![i] = @ + n] /\ m_totalTxBytes' = [m_totalTxBytes EXCEPT ![i] = @ + n]
      /\ UNCHANGED <<now, started, m_currentTxBytes, socket, acked, retx, sinks,
                     m_totalBytes, m_rxBytes, m_flows, loss>>
      BY DEF Transmit, TraceTxCallback, sinkVars, infoVars
<1>2. n \in Nat /\ n <= m_currentTxBytes[i] - sent[i] BY <1>1, FlowNumbers, TcpConstants, SMTT(30) DEF Smaller
<1> HIDE DEF n
<1>3. Typed' BY <1>1, <1>2 DEF Typed
<1>4. OthersKept(i) BY <1>1, <1>2 DEF OthersKept, Typed
<1>5. sent'[i] = sent[i] + n /\ m_totalTxBytes'[i] = m_totalTxBytes[i] + n BY <1>1, SMTT(30) DEF Typed
<1>6. CountersOrdered(i)' BY <1>1, <1>2, <1>5, FlowNumbers, SMTT(30) DEF CountersOrdered
<1>7. StagesOrdered(i)' BY <1>1 DEF StagesOrdered
<1>8. QED BY <1>0, <1>1, <1>3, <1>4, <1>6, <1>7, QuietStep

\* What is sent again counts in m_totalTxBytes and in retx alike.
LEMMA RetransmitSound == ASSUME IInv, NEW i \in Flow, Retransmit(i) PROVE IInv'
<1> Typed /\ CountersOrdered(i) /\ StagesOrdered(i) BY DEF IInv
<1> DEFINE n == Smaller(MSS, sent[i] - acked[i])
<1>0. UNCHANGED <<m_sessionBytes, m_bytes, m_flowCount, m_stopStamp, util, finish>>
      BY Zenon DEF Retransmit, infoVars
<1>1. /\ n > 0 /\ socket[i] = "open"
      /\ retx' = [retx EXCEPT ![i] = @ + n] /\ m_totalTxBytes' = [m_totalTxBytes EXCEPT ![i] = @ + n]
      /\ UNCHANGED <<now, started, m_currentTxBytes, socket, sent, acked, sinks,
                     m_totalBytes, m_rxBytes, m_flows, loss>>
      BY SMTT(30) DEF Retransmit, TraceTxCallback, sinkVars, infoVars
<1>2. n \in Nat BY <1>1, FlowNumbers, TcpConstants, SMTT(30) DEF Smaller
<1> HIDE DEF n
<1>3. Typed' BY <1>1, <1>2 DEF Typed
<1>4. OthersKept(i) BY <1>1, <1>2 DEF OthersKept, Typed
<1>5. retx'[i] = retx[i] + n /\ m_totalTxBytes'[i] = m_totalTxBytes[i] + n BY <1>1, SMTT(30) DEF Typed
<1>6. CountersOrdered(i)' BY <1>1, <1>2, <1>5, FlowNumbers DEF CountersOrdered
<1>7. StagesOrdered(i)' BY <1>1 DEF StagesOrdered
<1>8. QED BY <1>0, <1>1, <1>3, <1>4, <1>6, <1>7, QuietStep

\* The loss is recorded once, when the source's connection closes.
LEMMA PeerCloseSound == ASSUME IInv, NEW i \in Flow, HandlePeerClose(i) PROVE IInv'
<1> Typed /\ CountersOrdered(i) /\ StagesOrdered(i) BY DEF IInv
<1>0. UNCHANGED <<m_sessionBytes, m_bytes, m_flowCount, m_stopStamp, util, finish>>
      BY Zenon DEF HandlePeerClose
<1>1. /\ socket[i] = "open" /\ acked[i] = m_currentTxBytes[i]
      /\ socket' = [socket EXCEPT ![i] = "closed"] /\ loss' = Insert(loss, i, Excess(i))
      /\ UNCHANGED <<now, started, m_currentTxBytes, m_totalTxBytes, sent, acked, retx,
                     sinks, m_totalBytes, m_rxBytes, m_flows>>
      BY DEF HandlePeerClose, clientVars, sinkVars
<1>2. i \notin DOMAIN loss BY <1>1, SMTT(30) DEF StagesOrdered
<1>3. /\ DOMAIN loss' = DOMAIN loss \cup {i} /\ loss'[i] = Excess(i)
      /\ \A j \in DOMAIN loss : loss'[j] = loss[j]
      BY <1>1, <1>2 DEF Insert
<1>4. Typed' BY <1>1, <1>3 DEF Typed
<1>5. OthersKept(i) BY <1>1, <1>3, SMTT(30) DEF OthersKept, Typed
<1>6. m_currentTxBytes[i] = Target => Excess(i) = retx[i]
      BY <1>1, FlowNumbers, TcpConstants, SMTT(30) DEF CountersOrdered, Excess
<1>7. socket'[i] = "closed" BY <1>1, SMTT(30) DEF Typed
<1>8. CountersOrdered(i)' BY <1>1, SMTT(30) DEF CountersOrdered
<1>9. StagesOrdered(i)' BY <1>1, <1>3, <1>6, <1>7 DEF StagesOrdered
<1>10. QED BY <1>0, <1>1, <1>4, <1>5, <1>8, <1>9, QuietStep

\* A sink that accepts finds its flow in the map, so it knows the target.
LEMMA AcceptSound == ASSUME IInv, NEW i \in Flow, HandleAccept(i) PROVE IInv'
<1> Typed /\ MapSound /\ CountersOrdered(i) /\ StagesOrdered(i) BY DEF IInv
<1>0. UNCHANGED <<m_sessionBytes, m_bytes, m_flowCount, m_stopStamp, util, finish>>
      BY Zenon DEF HandleAccept, infoVars
<1>1. /\ socket[i] = "open" /\ sinks' = sinks \cup {i}
      /\ \E b \in BulkBytes(i) : m_totalBytes' = [m_totalBytes EXCEPT ![i] = b]
      /\ UNCHANGED <<now, started, m_currentTxBytes, m_totalTxBytes, socket, sent, acked,
                     retx, m_rxBytes, m_flows, loss>>
      BY Zenon DEF HandleAccept, NewSink, clientVars, socketVars, infoVars
<1>2. PICK b \in BulkBytes(i) : m_totalBytes' = [m_totalBytes EXCEPT ![i] = b] BY <1>1, Zenon
<1>3. m_flows > 0 => b = Target
  <2> SUFFICES ASSUME m_flows > 0 PROVE b = Target OBVIOUS
  <2>1. i \in 1 .. started /\ started \in Nat BY <1>1, TcpConstants DEF StagesOrdered, Typed, Flow
  <2>2. /\ DOMAIN m_sessionBytes = {Key(j) : j \in 1 .. started}
        /\ \A j \in 1 .. started : m_sessionBytes[Key(j)] = Target
        BY Zenon DEF MapSound
  <2>3. Key(i) \in DOMAIN m_sessionBytes /\ m_sessionBytes[Key(i)] = Target BY <2>1, <2>2, Zenon
  <2>4. StrictOrder(DOMAIN m_sessionBytes) BY <2>1, <2>2, KeysOrdered, Zenon
  <2>5. QED BY <2>3, <2>4, <1>2 DEF BulkBytes
<1>4. Typed' BY <1>1, <1>2 DEF Typed
<1>5. OthersKept(i) BY <1>1, <1>2, SMTT(30) DEF OthersKept, Typed
<1>6. CountersOrdered(i)' BY <1>1 DEF CountersOrdered
<1>7. m_totalBytes'[i] = b BY <1>2 DEF Typed
<1>8. StagesOrdered(i)' BY <1>1, <1>3, <1>7, Zenon DEF StagesOrdered
<1>9. QED BY <1>0, <1>1, <1>4, <1>5, <1>6, <1>8, QuietStep, Zenon

\* Time passes.
LEMMA TickSound == IInv /\ Tick => IInv'
<1> SUFFICES ASSUME IInv, Tick PROVE IInv' OBVIOUS
<1> Typed /\ MapSound /\ InfoSound BY DEF IInv
<1>1. /\ now' = now + 1
      /\ UNCHANGED <<started, m_currentTxBytes, m_totalTxBytes, socket, sent, acked, retx, sinks,
                     m_totalBytes, m_rxBytes, m_flows, m_sessionBytes, m_bytes, m_flowCount,
                     m_stopStamp, util, loss, finish>>
      BY DEF Tick, clientVars, socketVars, sinkVars, infoVars
<1>2. now \in Nat /\ now' \in Nat /\ now <= now' BY <1>1 DEF Typed
<1>3. Typed' BY <1>1, <1>2 DEF Typed
<1>4. ASSUME NEW j \in Flow PROVE CountersOrdered(j)' /\ StagesOrdered(j)'
  <2>1. CountersOrdered(j) /\ StagesOrdered(j) BY DEF IInv
  <2>2. CountersOrdered(j)' BY <2>1, <1>1 DEF CountersOrdered
  <2>3. StagesOrdered(j)' BY <2>1, <1>1, <1>2 DEF StagesOrdered
  <2>4. QED BY <2>2, <2>3
<1>5. MapSound' BY <1>1, Zenon DEF MapSound
<1>6. InfoSound' BY <1>1, <1>2, InfoKept
<1>7. QED BY <1>3, <1>4, <1>5, <1>6, Zenon DEF IInv

\* Initially nothing has started.
LEMMA InitSound == Init => IInv
<1> SUFFICES ASSUME Init PROVE IInv OBVIOUS
<1>1. Typed BY TcpConstants DEF Init, Typed
<1>2. ASSUME NEW i \in Flow PROVE CountersOrdered(i) /\ StagesOrdered(i)
      BY TcpConstants DEF Init, CountersOrdered, StagesOrdered
<1>3. MapSound BY DEF Init, MapSound
<1>4. InfoSound
  <2>1. /\ DOMAIN finish = {} /\ util = <<>> /\ m_bytes = 0 /\ m_flowCount = 0 /\ m_stopStamp = 0
        /\ now = 0 /\ m_flows \in Nat
        BY TcpConstants DEF Init
  <2>2. Cardinality(DOMAIN finish) = 0 BY <2>1, FS_EmptySet
  <2>3. Len(util) = 0 /\ DOMAIN util = {} /\ util \in Seq(Nat \X Nat) BY <2>1
  <2>4. UtilizationOfAllFlows BY <2>1, <2>2, <2>3, TcpConstants DEF UtilizationOfAllFlows
  <2>5. DOMAIN finish = {i \in Flow : m_rxBytes[i] = Target} BY <2>1, TcpConstants DEF Init
  <2>6. QED BY <2>1, <2>3, <2>4, <2>5 DEF InfoSound
<1>5. QED BY <1>1, <1>2, <1>3, <1>4 DEF IInv

\* Every step keeps the invariant.
LEMMA NextSound == IInv /\ [Next]_vars => IInv'
<1> SUFFICES ASSUME IInv, [Next]_vars PROVE IInv' OBVIOUS
<1>1. CASE Tick BY <1>1, TickSound
<1>2. ASSUME NEW i \in Flow,
             Progress(i) \/ ConnectionFailed(i) \/ StopApplication(i) \/ Retransmit(i)
      PROVE  IInv'
      BY <1>2, StartSound, SucceededSound, CanWriteSound, TransmitSound, PeerCloseSound,
         AcceptSound, ReadSound, FailedSound, StopSound, RetransmitSound DEF Progress
<1>3. CASE UNCHANGED vars
  <2>1. UNCHANGED <<now, started, m_currentTxBytes, m_totalTxBytes, socket, sent, acked, retx,
                    sinks, m_totalBytes, m_rxBytes, m_flows, m_sessionBytes, m_bytes,
                    m_flowCount, m_stopStamp, util, loss, finish>>
        BY <1>3 DEF vars, clientVars, socketVars, sinkVars, infoVars
  <2>2. QED BY <2>1, Zenon DEF IInv, Typed, CountersOrdered, StagesOrdered, MapSound, InfoSound,
                               UtilizationOfAllFlows
<1>4. QED BY <1>1, <1>2, <1>3 DEF Next

-----------------------------------------------------------------------------
\* The inductive invariant holds in every reachable state.
THEOREM TcpSound == Spec => []IInv
BY InitSound, NextSound, PTL DEF Spec

\* Every sink knows how many bytes to expect, whatever the number of flows.
THEOREM TcpSinkKnowsTarget == Spec => []SinkKnowsTarget
<1>1. IInv => SinkKnowsTarget BY DEF IInv, Typed, StagesOrdered, SinkKnowsTarget
<1>2. QED BY <1>1, TcpSound, PTL

\* The utilisation line is written once, for complete flows, with their latest
\* finish, in whatever order the reads of any number of flows come.
THEOREM TcpUtilization == Spec => []UtilizationOfAllFlows
<1>1. IInv => UtilizationOfAllFlows BY Zenon DEF IInv, InfoSound
<1>2. QED BY <1>1, TcpSound, PTL

\* The loss logged for a complete transfer is what its socket sent again.
THEOREM TcpLossIsRetransmission == Spec => []LossIsRetransmission
<1>1. IInv => LossIsRetransmission BY DEF IInv, Typed, StagesOrdered, LossIsRetransmission
<1>2. QED BY <1>1, TcpSound, PTL
=============================================================================
