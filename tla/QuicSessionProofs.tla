--------------------------- MODULE QuicSessionProofs ---------------------------
(***************************************************************************)
(* The objects and the bytes of a connection, for every window, limit and  *)
(* number of writes: no handler or destructor reaches an object that was   *)
(* freed, and no byte is lost or counted twice between the two channels.   *)
(***************************************************************************)
EXTENDS QuicSession, TLAPS

\* Which objects own which.  A stream has its channel as visitor and lives in its
\* session; the session lives as long as its application, backend and engine let
\* it; the two pointers of endpoint and channel are set and cleared together.
Owned(c) ==
    /\ "stream" \in c.alive <=> "channel" \in c.alive
    /\ "channel" \in c.alive => "session" \in c.alive
    /\ "endpoint" \in c.alive => "session" \in c.alive
    /\ "session" \in c.alive => "app" \in c.alive
    /\ "app" \in c.alive => "engine" \in c.alive
    /\ "engine" \in c.alive <=> "backend" \in c.alive
    /\ c.conn = "none" => "session" \notin c.alive /\ ~c.ready_
    /\ c.conn = "open" => "session" \in c.alive
    /\ c.notifier /\ "channel" \in c.alive => c.channel_

\* The part of NoUseAfterFree about one side.
Safe(c) ==
    /\ c \in Side /\ c.dangling = {}
    /\ c.channel_ => {"endpoint", "channel"} \subseteq c.alive
    /\ {"endpoint", "channel"} \subseteq c.alive => c.channel_ /\ c.notifier
    /\ c.m_packetProcessor => {"app", "session"} \subseteq c.alive
    /\ c.alarm => {"channel", "stream", "engine"} \subseteq c.alive

Sound(c) == Safe(c) /\ Owned(c)

\* The client's session is born with its endpoint and gets its stream when it
\* becomes ready.
ClientSound == /\ Sound(client)
               /\ "session" \in client.alive => "endpoint" \in client.alive
               /\ "session" \in client.alive /\ client.ready_ => "stream" \in client.alive
               /\ "stream" \in client.alive => client.ready_

\* The server's session gets its endpoint when it becomes ready.
ServerSound == /\ Sound(server) /\ ~server.m_packetProcessor
               /\ "session" \in server.alive /\ server.ready_ => "endpoint" \in server.alive
               /\ ~server.ready_ => "endpoint" \notin server.alive

\* Only a ready client's stream has anything buffered.
DataSound == /\ {write_bytes_, buffered, transit, readable, read_bytes_} \subseteq Nat
             /\ BytesConserved
             /\ write_bytes_ <= MaxWrite
             /\ buffered > 0 => client.ready_

IInv == ClientSound /\ ServerSound /\ DataSound
-----------------------------------------------------------------------------
\* Nothing is used that is not alive, so Use leaves a side as it is.
LEMMA UseAlive == ASSUME NEW c \in Side, NEW objs \in SUBSET Object, objs \subseteq c.alive
                  PROVE  Use(c, objs) = c
<1>1. c.dangling \cup (objs \ c.alive) = c.dangling OBVIOUS
<1> QED BY <1>1 DEF Use, Side

\* Cancelling the alarm of a channel finds its engine.
LEMMA CancelAlarmSound ==
    ASSUME NEW c \in Side, c.alarm => "engine" \in c.alive
    PROVE  CancelAlarm(c) = [c EXCEPT !.alarm = FALSE]
<1>1. CASE c.alarm
  <2>1. Use(c, {"engine"}) = c BY <1>1, UseAlive DEF Object
  <2> QED BY <1>1, <2>1, Zenon DEF CancelAlarm
<1>2. CASE ~c.alarm BY <1>2 DEF CancelAlarm, Side
<1> QED BY <1>1, <1>2

\* An endpoint that goes leaves the channel without it, and the channel stays sound.
LEMMA DestroyEndpointSound ==
    ASSUME NEW c, Sound(c)
    PROVE  \E n \in BOOLEAN :
             /\ n <=> c.notifier /\ ~c.channel_
             /\ DestroyEndpoint(c) = [c EXCEPT !.alive = c.alive \ {"endpoint"},
                                               !.channel_ = FALSE, !.notifier = n]
<1>1. c \in Side BY DEF Sound, Safe
<1>2. CASE c.channel_
  <2>1. Use(c, {"channel"}) = c BY <1>1, <1>2, UseAlive DEF Object, Sound, Safe
  <2>2. DestroyEndpoint(c) = [c EXCEPT !.alive = c.alive \ {"endpoint"},
                                       !.channel_ = FALSE, !.notifier = FALSE]
    BY <1>1, <1>2, <2>1, Zenon DEF DestroyEndpoint, Free, Side
  <2> QED BY <1>2, <2>2, Zenon
<1>3. CASE ~c.channel_
  <2>1. c.notifier \in BOOLEAN /\ c = [c EXCEPT !.channel_ = FALSE, !.notifier = c.notifier]
    BY <1>1, <1>3, Zenon DEF Side
  <2>2. DestroyEndpoint(c) = [c EXCEPT !.alive = c.alive \ {"endpoint"},
                                       !.channel_ = FALSE, !.notifier = c.notifier]
    BY <1>1, <1>3, Zenon DEF DestroyEndpoint, Free, Side
  <2> QED BY <1>3, <2>1, <2>2, Zenon
<1> QED BY <1>2, <1>3, Zenon

\* The channel's destructor no longer finds an endpoint to tell.
LEMMA DestroyStreamSound ==
    ASSUME NEW c \in Side, c.alarm => {"engine", "stream"} \subseteq c.alive,
           "stream" \in c.alive => ~c.notifier,
           "stream" \in c.alive <=> "channel" \in c.alive
    PROVE  DestroyStream(c) = [c EXCEPT !.alive = c.alive \ {"stream", "channel"}, !.alarm = FALSE]
<1>1. CASE "stream" \in c.alive
  <2> DEFINE d == [c EXCEPT !.alarm = FALSE]
  <2>1. CancelAlarm(c) = d BY CancelAlarmSound
  <2>2. d \in Side /\ ~d.notifier /\ ~d.alarm /\ d.alive = c.alive BY <1>1, Zenon DEF Side
  <2>3. OnDestroy(c) = d BY <2>1, <2>2 DEF OnDestroy
  <2>4. CancelAlarm(d) = d BY <2>2 DEF CancelAlarm
  <2>5. DestroyStream(c) = Free(d, {"stream", "channel"}) BY <1>1, <2>3, <2>4 DEF DestroyStream
  <2> QED BY <2>5, Zenon DEF Free, Side
<1>2. CASE "stream" \notin c.alive
  <2>1. c.alive = c.alive \ {"stream", "channel"} /\ ~c.alarm BY <1>2
  <2>2. c = [c EXCEPT !.alive = c.alive, !.alarm = FALSE] BY <2>1, Zenon DEF Side
  <2> QED BY <1>2, <2>1, <2>2, Zenon DEF DestroyStream
<1> QED BY <1>1, <1>2

\* The session takes its endpoint, then its streams with it.
LEMMA DestroySessionSound ==
    ASSUME NEW c, Sound(c)
    PROVE  LET d == DestroySession(c)
           IN  /\ d \in Side /\ d.dangling = {} /\ ~d.channel_ /\ ~d.alarm
               /\ d.alive = c.alive \ {"session", "endpoint", "stream", "channel"}
               /\ d.conn = c.conn /\ d.ready_ = c.ready_
               /\ d.m_packetProcessor = c.m_packetProcessor
<1> DEFINE e == DestroyEndpoint(c)
           s == DestroyStream(e)
<1>1. c \in Side BY DEF Sound, Safe
<1>2. (IF "endpoint" \in c.alive THEN Use(c, {"endpoint"}) ELSE c) = c BY <1>1, UseAlive DEF Object
<1>3. DestroySession(c) = Free(s, {"session"}) BY <1>2 DEF DestroySession
<1>4. PICK n \in BOOLEAN :
        /\ n <=> c.notifier /\ ~c.channel_
        /\ e = [c EXCEPT !.alive = c.alive \ {"endpoint"}, !.channel_ = FALSE, !.notifier = n]
  BY DestroyEndpointSound, Zenon
<1> HIDE DEF e
<1> DEFINE a == c.alive \ {"endpoint"}
<1>10. e = [c EXCEPT !.alive = a, !.channel_ = FALSE, !.notifier = n] /\ a \in SUBSET Object
  BY <1>1, <1>4 DEF Side
<1>5. /\ e \in Side /\ e.alive = c.alive \ {"endpoint"} /\ ~e.channel_ /\ e.alarm = c.alarm
      /\ e.notifier = n
      /\ e.conn = c.conn /\ e.ready_ = c.ready_ /\ e.dangling = c.dangling
      /\ e.m_packetProcessor = c.m_packetProcessor
  BY <1>1, <1>10, Zenon DEF Side
<1>6. s = [e EXCEPT !.alive = e.alive \ {"stream", "channel"}, !.alarm = FALSE]
  <2>1. "stream" \in e.alive => ~e.notifier BY <1>4, <1>5 DEF Sound, Safe, Owned
  <2>2. e.alarm => {"engine", "stream"} \subseteq e.alive BY <1>5 DEF Sound, Safe
  <2>3. "stream" \in e.alive <=> "channel" \in e.alive BY <1>5 DEF Sound, Owned
  <2> QED BY <1>5, <2>1, <2>2, <2>3, DestroyStreamSound, Zenon
<1> HIDE DEF s
<1>7. Free(s, {"session"}) = [s EXCEPT !.alive = s.alive \ {"session"}] BY DEF Free
<1>8. /\ s \in Side /\ s.alive = e.alive \ {"stream", "channel"} /\ ~s.alarm /\ ~s.channel_
      /\ s.conn = e.conn /\ s.ready_ = e.ready_ /\ s.dangling = e.dangling
      /\ s.m_packetProcessor = e.m_packetProcessor
  BY <1>5, <1>6, Zenon DEF Side
<1>9. c.dangling = {} BY DEF Sound, Safe
<1> QED BY <1>3, <1>5, <1>7, <1>8, <1>9 DEF Side, s, e

\* A side is sound after its session was deleted while its application runs on.
LEMMA DeletedSound == ASSUME NEW c, Sound(c), c.conn = "closed", ~c.m_packetProcessor
                      PROVE  Sound(DestroySession(c))
<1> DEFINE d == DestroySession(c)
<1>1. /\ d \in Side /\ d.dangling = {} /\ ~d.channel_ /\ ~d.alarm
      /\ d.alive = c.alive \ {"session", "endpoint", "stream", "channel"}
      /\ d.conn = c.conn /\ d.m_packetProcessor = c.m_packetProcessor
  BY DestroySessionSound
<1> HIDE DEF d
<1>2. Sound(d) BY <1>1 DEF Sound, Safe, Owned
<1> QED BY <1>2 DEF d

\* TearDown frees everything, in an order in which nothing freed is needed.
LEMMA TearDownSound ==
    ASSUME NEW c, Sound(c)
    PROVE  /\ Sound(TearDown(c)) /\ TearDown(c).alive = {} /\ TearDown(c).ready_ = c.ready_
           /\ TearDown(c).conn # "open"
<1> DEFINE k == Close(c)
           u == UnregisterFD(k)
           d == DestroySession(u)
           t == TearDown(c)
<1>1. /\ c \in Side BY DEF Sound, Safe
<1>2. /\ Sound(k) /\ k.conn # "open" /\ k.ready_ = c.ready_
  <2>1. CASE c.conn = "open"
    <3>1. k = [c EXCEPT !.conn = "closed"] BY <2>1 DEF Close
    <3> QED BY <1>1, <3>1 DEF Sound, Safe, Owned, Side
  <2>2. CASE c.conn # "open" BY <2>2 DEF Close
  <2> QED BY <2>1, <2>2
<1> HIDE DEF k
<1>3. k \in Side BY <1>2 DEF Sound, Safe
<1>4. Sound(u) /\ ~u.m_packetProcessor /\ u.conn = k.conn /\ u.ready_ = k.ready_
  <2>1. CASE k.m_packetProcessor
    <3>1. Use(k, {"app"}) = k BY <1>2, <1>3, <2>1, UseAlive DEF Object, Sound, Safe
    <3>2. u = [k EXCEPT !.m_packetProcessor = FALSE] BY <2>1, <3>1, Zenon DEF UnregisterFD
    <3> QED BY <1>2, <1>3, <3>2, Zenon DEF Sound, Safe, Owned, Side
  <2>2. CASE ~k.m_packetProcessor BY <1>2, <2>2 DEF UnregisterFD
  <2> QED BY <2>1, <2>2
<1> HIDE DEF u
<1>5. /\ d \in Side /\ d.dangling = {} /\ ~d.channel_ /\ ~d.alarm
      /\ d.alive = u.alive \ {"session", "endpoint", "stream", "channel"}
      /\ d.conn = u.conn /\ d.ready_ = u.ready_ /\ d.m_packetProcessor = u.m_packetProcessor
  BY <1>4, DestroySessionSound
<1> HIDE DEF d
<1>6. t = Free(d, {"app", "backend", "engine"}) BY DEF TearDown, k, u, d
<1>7. t = [d EXCEPT !.alive = d.alive \ {"app", "backend", "engine"}] BY <1>6 DEF Free
<1>8. d.alive \ {"app", "backend", "engine"} = {}
  BY <1>4, <1>5 DEF Sound, Safe, Side, Object
<1>9. /\ t \in Side /\ t.alive = {} /\ t.dangling = {} /\ ~t.channel_ /\ ~t.alarm
      /\ ~t.m_packetProcessor /\ t.conn = d.conn /\ t.ready_ = d.ready_
  BY <1>4, <1>5, <1>7, <1>8 DEF Side
<1> HIDE DEF t
<1>10. t.conn = "none" => ~t.ready_ BY <1>4, <1>5, <1>9 DEF Sound, Owned
<1>11. Sound(t) BY <1>2, <1>4, <1>5, <1>9, <1>10 DEF Sound, Safe, Owned
<1> QED BY <1>2, <1>4, <1>5, <1>9, <1>11 DEF t

\* A new stream and its channel in a session with an endpoint.
LEMMA OpenChannelSound ==
    ASSUME NEW c, Sound(c), {"session", "endpoint"} \subseteq c.alive
    PROVE  LET d == OpenChannel(Use(c, {"endpoint"}))
           IN  /\ Sound(d) /\ d.alive = c.alive \cup {"stream", "channel"}
               /\ d.conn = c.conn /\ d.ready_ = c.ready_
<1> DEFINE d == OpenChannel(Use(c, {"endpoint"}))
<1>1. c \in Side BY DEF Sound, Safe
<1>2. Use(c, {"endpoint"}) = c BY <1>1, UseAlive DEF Object
<1>3. d = [c EXCEPT !.alive = c.alive \cup {"stream", "channel"}, !.channel_ = TRUE, !.notifier = TRUE]
  BY <1>1, <1>2, Zenon DEF OpenChannel, Make, Side
<1> HIDE DEF d
<1>4. d \in Side
  <2>1. c.alive \cup {"stream", "channel"} \in SUBSET Object BY <1>1 DEF Side, Object
  <2> QED BY <1>1, <1>3, <2>1, Zenon DEF Side
<1>5. /\ d.alive = c.alive \cup {"stream", "channel"} /\ d.channel_ /\ d.notifier
      /\ d.alarm = c.alarm /\ d.conn = c.conn /\ d.ready_ = c.ready_ /\ d.dangling = c.dangling
      /\ d.m_packetProcessor = c.m_packetProcessor
  BY <1>1, <1>3 DEF Side
<1>6. Sound(d) BY <1>4, <1>5 DEF Sound, Safe, Owned
<1> QED BY <1>5, <1>6 DEF d

-----------------------------------------------------------------------------
\* WriteData keeps the count: what it adds to the stream it adds to write_bytes_,
\* within the stream's limit and the connection's window.
LEMMA WriteDataSound ==
    ASSUME DataSound, NEW open \in BOOLEAN, NEW b \in Nat, NEW t \in Nat,
           b <= Threshold, t <= Window, b + t = buffered + transit,
           WriteData(open, b, t), readable' = readable, read_bytes_' = read_bytes_
    PROVE  /\ {write_bytes_, buffered, transit, readable, read_bytes_}' \subseteq Nat
           /\ BytesConserved' /\ write_bytes_' <= MaxWrite
<1> DEFINE k == IF open THEN Smaller(kWritePackets, MaxWrite - write_bytes_) ELSE 0
           direct == IF b = 0 THEN Smaller(k, Window - t) ELSE 0
           saved == Saved(b, k - direct)
<1>1. /\ write_bytes_ \in Nat /\ write_bytes_ <= MaxWrite /\ MaxWrite \in Nat /\ kWritePackets \in Nat
      /\ Window \in Nat /\ Threshold \in Nat
  BY SessionConstants DEF DataSound
<1>2. k \in Nat /\ k <= MaxWrite - write_bytes_ BY <1>1 DEF Smaller
<1> HIDE DEF k
<1>3. direct \in Nat /\ direct <= k /\ t + direct <= Window BY <1>1, <1>2 DEF Smaller
<1> HIDE DEF direct
<1>4. saved \in Nat /\ saved <= k - direct /\ b + saved <= Threshold
  BY <1>1, <1>2, <1>3 DEF Saved, Smaller
<1> HIDE DEF saved
<1>5. write_bytes_' = write_bytes_ + direct + saved /\ buffered' = b + saved /\ transit' = t + direct
  BY DEF WriteData, k, direct, saved
<1>6. /\ {buffered, transit, readable, read_bytes_} \subseteq Nat
      /\ write_bytes_ = buffered + transit + readable + read_bytes_
  BY DEF DataSound, BytesConserved
<1>7. write_bytes_' \in Nat /\ write_bytes_' <= MaxWrite /\ buffered' \in Nat /\ transit' \in Nat
  BY <1>1, <1>2, <1>3, <1>4, <1>5
<1>8. write_bytes_' = buffered' + transit' + readable' + read_bytes_'
  BY <1>3, <1>4, <1>5, <1>6
<1>9. buffered' <= Threshold /\ transit' <= Window BY <1>3, <1>4, <1>5
<1> QED BY <1>6, <1>7, <1>8, <1>9 DEF BytesConserved

-----------------------------------------------------------------------------
\* Nothing is made yet but engine and backend, and nothing is written.
LEMMA InitSound == ASSUME Init PROVE IInv
<1>1. NewSide \in Side /\ Sound(NewSide) BY DEF NewSide, Side, Object, Sound, Safe, Owned
<1>2. ClientSound /\ ServerSound BY <1>1 DEF Init, ClientSound, ServerSound, NewSide
<1>3. DataSound BY SessionConstants DEF Init, DataSound, BytesConserved
<1> QED BY <1>2, <1>3 DEF IInv

\* What an application's step leaves alone: the other side and the data.
LEMMA DataKept == ASSUME DataSound, UNCHANGED dataVars, client'.ready_ = client.ready_
                  PROVE  DataSound'
BY DEF DataSound, BytesConserved, dataVars

\* The client starts: application, session and endpoint are made.
LEMMA StartClientSound == ASSUME IInv, StartClient PROVE IInv'
<1>1. client \in Side /\ client.conn = "none" /\ "engine" \in client.alive
  BY DEF IInv, ClientSound, Sound, Safe, StartClient
<1>2. client' = [client EXCEPT !.alive = client.alive \cup {"app", "session", "endpoint"},
                               !.m_packetProcessor = TRUE, !.conn = "open"]
  <2>1. Make(client, {"app"}) = [client EXCEPT !.alive = client.alive \cup {"app"}] BY DEF Make
  <2>2. RegisterFD(Make(client, {"app"}))
          = [client EXCEPT !.alive = client.alive \cup {"app"}, !.m_packetProcessor = TRUE]
    BY <1>1, <2>1, Zenon DEF RegisterFD, Side
  <2>3. NewClientSession(RegisterFD(Make(client, {"app"})))
          = [client EXCEPT !.alive = (client.alive \cup {"app"}) \cup {"session", "endpoint"},
                           !.m_packetProcessor = TRUE, !.conn = "open"]
    BY <1>1, <2>2, Zenon DEF NewClientSession, Make, Side
  <2>4. (client.alive \cup {"app"}) \cup {"session", "endpoint"}
          = client.alive \cup {"app", "session", "endpoint"}
    OBVIOUS
  <2> QED BY <2>3, <2>4, Zenon DEF StartClient
<1>3. /\ client' \in Side /\ client'.alive = client.alive \cup {"app", "session", "endpoint"}
      /\ client'.conn = "open" /\ client'.ready_ = client.ready_ /\ client'.dangling = client.dangling
      /\ client'.alarm = client.alarm /\ client'.channel_ = client.channel_
      /\ client'.notifier = client.notifier /\ client'.m_packetProcessor
  BY <1>1, <1>2, Zenon DEF Side, Object
<1>4. ~client.ready_ /\ "session" \notin client.alive /\ "channel" \notin client.alive
      /\ "backend" \in client.alive
  BY <1>1 DEF IInv, ClientSound, Sound, Owned
<1>5. ClientSound' BY <1>1, <1>3, <1>4 DEF IInv, ClientSound, Sound, Safe, Owned
<1>6. DataSound' BY <1>3, DataKept DEF IInv, StartClient
<1>7. ServerSound' BY DEF IInv, ServerSound, StartClient
<1> QED BY <1>5, <1>6, <1>7 DEF IInv

\* The session becomes ready: stream and channel are made, and the channel writes.
LEMMA ReadySound == ASSUME IInv, OnTlsHandshakeComplete PROVE IInv'
<1> DEFINE r == [client EXCEPT !.ready_ = TRUE]
           o == OpenChannel(Use(r, {"endpoint"}))
<1>1. client \in Side /\ client.conn = "open" /\ {"session", "endpoint"} \subseteq client.alive
  BY DEF IInv, ClientSound, Sound, Safe, Owned, OnTlsHandshakeComplete
<1>2. /\ r \in Side /\ r.alive = client.alive /\ r.conn = client.conn /\ r.ready_
      /\ r.dangling = client.dangling /\ r.alarm = client.alarm /\ r.channel_ = client.channel_
      /\ r.notifier = client.notifier /\ r.m_packetProcessor = client.m_packetProcessor
  BY <1>1, Zenon DEF Side
<1> HIDE DEF r
<1>3. Sound(r) BY <1>1, <1>2 DEF IInv, ClientSound, Sound, Safe, Owned
<1>4. /\ Sound(o) /\ o.alive = r.alive \cup {"stream", "channel"} /\ o.conn = r.conn
      /\ o.ready_ = r.ready_
  BY <1>1, <1>2, <1>3, OpenChannelSound, Zenon
<1> HIDE DEF o
<1>5. WriteData(TRUE, buffered, transit) /\ client' = [o EXCEPT !.alarm = TRUE]
  BY Zenon DEF OnTlsHandshakeComplete, OnSessionReady, StartFillData, r, o
<1>6. o \in Side BY <1>4 DEF Sound, Safe
<1>7. /\ client' \in Side /\ client'.alive = o.alive /\ client'.conn = o.conn /\ client'.alarm
      /\ client'.ready_ = o.ready_ /\ client'.dangling = o.dangling
      /\ client'.channel_ = o.channel_ /\ client'.notifier = o.notifier
      /\ client'.m_packetProcessor = o.m_packetProcessor
  BY <1>5, <1>6, Zenon DEF Side
<1>8. "engine" \in o.alive BY <1>1, <1>2, <1>4 DEF Sound, Owned
<1>9. ClientSound' BY <1>1, <1>2, <1>4, <1>7, <1>8 DEF ClientSound, Sound, Safe, Owned
<1>10. DataSound'
  <2>1. /\ buffered \in Nat /\ transit \in Nat /\ buffered <= Threshold /\ transit <= Window
        /\ readable' = readable /\ read_bytes_' = read_bytes_ /\ DataSound
    BY DEF IInv, DataSound, BytesConserved, OnTlsHandshakeComplete
  <2>2. /\ {write_bytes_, buffered, transit, readable, read_bytes_}' \subseteq Nat
        /\ BytesConserved' /\ write_bytes_' <= MaxWrite
    BY <1>5, <2>1, WriteDataSound, Zenon
  <2> QED BY <1>2, <1>4, <1>7, <2>2 DEF DataSound
<1>11. ServerSound' BY DEF IInv, ServerSound, OnTlsHandshakeComplete
<1> QED BY <1>9, <1>10, <1>11 DEF IInv

\* The alarm fires into a living channel, with its stream and its engine.
LEMMA TimeoutSound == ASSUME IInv, OnTimeout PROVE IInv'
<1>1. client \in Side /\ client.alarm /\ {"engine", "channel", "stream"} \subseteq client.alive
  BY DEF IInv, ClientSound, Sound, Safe, OnTimeout
<1>2. Use(client, {"engine", "channel", "stream"}) = client BY <1>1, UseAlive DEF Object
<1>3. client' = client BY <1>1, <1>2 DEF OnTimeout, Rearm, Side
<1>4. DataSound'
  <2>1. /\ buffered \in Nat /\ transit \in Nat /\ buffered <= Threshold /\ transit <= Window
        /\ readable' = readable /\ read_bytes_' = read_bytes_ /\ DataSound
        /\ WriteData(client.conn = "open", buffered, transit)
    BY DEF IInv, DataSound, BytesConserved, OnTimeout
  <2>2. (client.conn = "open") \in BOOLEAN OBVIOUS
  <2>3. /\ {write_bytes_, buffered, transit, readable, read_bytes_}' \subseteq Nat
        /\ BytesConserved' /\ write_bytes_' <= MaxWrite
    BY <2>1, <2>2, WriteDataSound, Zenon
  <2>4. client.ready_
    BY <1>1 DEF IInv, ClientSound, Sound, Owned
  <2> QED BY <1>3, <2>3, <2>4 DEF DataSound
<1> QED BY <1>3, <1>4 DEF IInv, ClientSound, ServerSound, OnTimeout

\* The stream that has something buffered is there, and so is its channel.
LEMMA CanWriteSound == ASSUME IInv, OnCanWrite PROVE IInv'
<1> DEFINE m == Smaller(buffered, Window - transit)
<1>1. /\ buffered \in Nat /\ transit \in Nat /\ buffered <= Threshold /\ transit <= Window
      /\ readable' = readable /\ read_bytes_' = read_bytes_ /\ DataSound
      /\ Window \in Nat /\ m > 0
  BY SessionConstants DEF IInv, DataSound, BytesConserved, OnCanWrite
<1>2. m \in Nat /\ m <= buffered /\ m <= Window - transit BY <1>1 DEF Smaller
<1>3. WriteData(buffered - m < Threshold, buffered - m, transit + m) BY DEF OnCanWrite
<1> HIDE DEF m
<1>4. client.ready_ BY <1>1, <1>2 DEF DataSound
<1>5. client \in Side /\ {"stream", "channel"} \subseteq client.alive
  BY <1>4 DEF IInv, ClientSound, Sound, Safe, Owned, OnCanWrite
<1>6. client' = client
  <2>1. Use(client, {"stream", "channel"}) = client BY <1>5, UseAlive DEF Object
  <2> QED BY <2>1 DEF OnCanWrite
<1>7. /\ {write_bytes_, buffered, transit, readable, read_bytes_}' \subseteq Nat
      /\ BytesConserved' /\ write_bytes_' <= MaxWrite
  <2>1. (buffered - m < Threshold) \in BOOLEAN OBVIOUS
  <2>2. /\ buffered - m \in Nat /\ transit + m \in Nat /\ buffered - m <= Threshold
        /\ transit + m <= Window /\ (buffered - m) + (transit + m) = buffered + transit
    BY <1>1, <1>2, SessionConstants
  <2> QED BY <1>1, <1>3, <2>1, <2>2, WriteDataSound, Zenon
<1>8. DataSound' BY <1>4, <1>6, <1>7 DEF DataSound
<1> QED BY <1>6, <1>8 DEF IInv, ClientSound, ServerSound, OnCanWrite

\* A packet reaches a client and a session that exist.
LEMMA RecvSound == ASSUME IInv, RecvPacket PROVE IInv'
<1>1. client \in Side /\ (client.m_packetProcessor => {"app", "session"} \subseteq client.alive)
  BY DEF IInv, ClientSound, Sound, Safe
<1>2. client' = client BY <1>1, UseAlive DEF RecvPacket, OnIncomingData, Object
<1>3. DataSound' BY <1>2, DataKept DEF IInv, RecvPacket
<1> QED BY <1>2, <1>3 DEF IInv, ClientSound, ServerSound, RecvPacket

\* A connection that ends leaves its objects where they are.
LEMMA CloseSound ==
    ASSUME NEW c, Sound(c), c.conn = "open"
    PROVE  LET d == Close(c)
           IN  /\ Sound(d) /\ d.alive = c.alive /\ d.ready_ = c.ready_
               /\ d.m_packetProcessor = c.m_packetProcessor
<1> DEFINE d == Close(c)
<1>1. c \in Side BY DEF Sound, Safe
<1>2. d = [c EXCEPT !.conn = "closed"] BY DEF Close
<1>3. /\ d \in Side /\ d.alive = c.alive /\ d.conn = "closed" /\ d.ready_ = c.ready_
      /\ d.dangling = c.dangling /\ d.channel_ = c.channel_ /\ d.notifier = c.notifier
      /\ d.alarm = c.alarm /\ d.m_packetProcessor = c.m_packetProcessor
  BY <1>1, <1>2 DEF Side
<1> HIDE DEF d
<1>4. Sound(d) BY <1>3 DEF Sound, Safe, Owned
<1> QED BY <1>3, <1>4 DEF d

\* The client's connection ends, or the client stops.
LEMMA ClientEndSound == ASSUME IInv, OnConnectionClosed \/ StopClient PROVE IInv'
<1>1. CASE OnConnectionClosed
  <2>1. /\ Sound(client') /\ client'.alive = client.alive /\ client'.ready_ = client.ready_
    BY <1>1, CloseSound DEF IInv, ClientSound, OnConnectionClosed
  <2>2. DataSound' BY <1>1, <2>1, DataKept DEF IInv, OnConnectionClosed
  <2> QED BY <1>1, <2>1, <2>2 DEF IInv, ClientSound, ServerSound, OnConnectionClosed
<1>2. CASE StopClient
  <2>1. /\ Sound(client') /\ client'.alive = {} /\ client'.ready_ = client.ready_
    BY <1>2, TearDownSound DEF IInv, ClientSound, StopClient
  <2>2. DataSound' BY <1>2, <2>1, DataKept DEF IInv, StopClient
  <2> QED BY <1>2, <2>1, <2>2 DEF IInv, ClientSound, ServerSound, StopClient
<1> QED BY <1>1, <1>2

\* The server's application starts.
LEMMA StartServerSound == ASSUME IInv, StartServer PROVE IInv'
<1>1. server \in Side /\ "engine" \in server.alive /\ "app" \notin server.alive
  BY DEF IInv, ServerSound, Sound, Safe, StartServer
<1>2. server' = [server EXCEPT !.alive = server.alive \cup {"app"}] BY DEF StartServer, Make
<1>3. /\ server' \in Side /\ server'.alive = server.alive \cup {"app"}
      /\ server'.conn = server.conn /\ server'.ready_ = server.ready_
      /\ server'.dangling = server.dangling /\ server'.alarm = server.alarm
      /\ server'.channel_ = server.channel_ /\ server'.notifier = server.notifier
      /\ server'.m_packetProcessor = server.m_packetProcessor
  BY <1>1, <1>2 DEF Side, Object
<1>4. ServerSound' BY <1>1, <1>3 DEF IInv, ServerSound, Sound, Safe, Owned
<1>5. DataSound' BY DataKept DEF IInv, StartServer
<1> QED BY <1>4, <1>5 DEF IInv, ClientSound, StartServer

\* The dispatcher makes a session without an endpoint.
LEMMA CreateSessionSound == ASSUME IInv, CreateQuicSession PROVE IInv'
<1>1. /\ server \in Side /\ "app" \in server.alive /\ server.conn = "none"
      /\ "session" \notin server.alive /\ ~server.ready_
  BY DEF IInv, ServerSound, Sound, Safe, Owned, CreateQuicSession
<1>2. server' = [server EXCEPT !.alive = server.alive \cup {"session"}, !.conn = "open"]
  BY <1>1 DEF CreateQuicSession, Make, Side
<1>3. /\ server' \in Side /\ server'.alive = server.alive \cup {"session"}
      /\ server'.conn = "open" /\ server'.ready_ = server.ready_
      /\ server'.dangling = server.dangling /\ server'.alarm = server.alarm
      /\ server'.channel_ = server.channel_ /\ server'.notifier = server.notifier
      /\ server'.m_packetProcessor = server.m_packetProcessor
  BY <1>1, <1>2, Zenon DEF Side, Object
<1>4. ServerSound' BY <1>1, <1>3 DEF IInv, ServerSound, Sound, Safe, Owned
<1>5. DataSound' BY DataKept DEF IInv, CreateQuicSession
<1> QED BY <1>4, <1>5 DEF IInv, ClientSound, CreateQuicSession

\* The first frame of the stream makes endpoint, stream and channel, in a session
\* that exists.
LEMMA IncomingSound ==
    ASSUME ServerSound, server.conn = "open", "stream" \notin server.alive
    PROVE  LET s == CreateIncomingStream(server)
           IN  /\ Sound(s) /\ ~s.m_packetProcessor /\ s.ready_ /\ {"endpoint", "channel"} \subseteq s.alive
<1> DEFINE d == IF ~server.ready_ /\ "endpoint" \notin server.alive
                THEN [Make(server, {"endpoint"}) EXCEPT !.ready_ = TRUE] ELSE server
           s == OpenChannel(Use(d, {"endpoint"}))
<1>1. /\ server \in Side /\ "session" \in server.alive /\ "channel" \notin server.alive
      /\ (server.ready_ <=> "endpoint" \in server.alive)
  BY DEF ServerSound, Sound, Safe, Owned
<1>2. Sound(d) /\ {"session", "endpoint"} \subseteq d.alive /\ d.ready_ /\ ~d.m_packetProcessor
  <2>1. CASE server.ready_ BY <1>1, <2>1 DEF ServerSound
  <2>2. CASE ~server.ready_
    <3>1. d = [server EXCEPT !.alive = server.alive \cup {"endpoint"}, !.ready_ = TRUE]
      BY <1>1, <2>2 DEF Make, Side
    <3> HIDE DEF d
    <3>2. /\ d \in Side /\ d.alive = server.alive \cup {"endpoint"} /\ d.ready_
          /\ d.conn = server.conn /\ d.dangling = server.dangling /\ d.alarm = server.alarm
          /\ d.channel_ = server.channel_ /\ d.notifier = server.notifier
          /\ d.m_packetProcessor = server.m_packetProcessor
      BY <1>1, <3>1, Zenon DEF Side, Object
    <3> QED BY <1>1, <2>2, <3>2 DEF ServerSound, Sound, Safe, Owned
  <2> QED BY <2>1, <2>2
<1>3. s = CreateIncomingStream(server) BY DEF CreateIncomingStream
<1> HIDE DEF d
<1>4. /\ Sound(s) /\ s.alive = d.alive \cup {"stream", "channel"} /\ s.ready_ = d.ready_
  BY <1>2, OpenChannelSound, Zenon
<1>5. ~s.m_packetProcessor
  <2>1. d \in Side BY <1>2 DEF Sound, Safe
  <2>2. Use(d, {"endpoint"}) = d BY <1>2, <2>1, UseAlive DEF Object
  <2>3. s = [d EXCEPT !.alive = d.alive \cup {"stream", "channel"}, !.channel_ = TRUE, !.notifier = TRUE]
    BY <2>1, <2>2, Zenon DEF OpenChannel, Make, Side
  <2> QED BY <1>2, <2>1, <2>3, Zenon DEF Side
<1> HIDE DEF s
<1>6. {"endpoint", "channel"} \subseteq s.alive /\ s.ready_ BY <1>2, <1>4
<1> QED BY <1>3, <1>4, <1>5, <1>6

\* Data reaches a stream that has its channel, which reads all there is.
LEMMA DataAvailableSound == ASSUME IInv, OnDataAvailable PROVE IInv'
<1> DEFINE s == IF "stream" \in server.alive THEN server ELSE CreateIncomingStream(server)
<1>1. PICK n \in 1 .. transit :
        /\ server.conn = "open" /\ server' = s /\ transit' = transit - n
        /\ IF "channel" \in s.alive THEN OnCanRead(n) ELSE readable' = readable + n /\ UNCHANGED read_bytes_
        /\ UNCHANGED <<client, write_bytes_, buffered>>
  BY DEF OnDataAvailable
<1>2. Sound(s) /\ ~s.m_packetProcessor /\ "channel" \in s.alive
      /\ ("session" \in s.alive /\ s.ready_ => "endpoint" \in s.alive)
      /\ (~s.ready_ => "endpoint" \notin s.alive)
  <2>1. CASE "stream" \in server.alive
    BY <2>1 DEF IInv, ServerSound, Sound, Owned
  <2>2. CASE "stream" \notin server.alive
    BY <1>1, <2>2, IncomingSound DEF IInv
  <2> QED BY <2>1, <2>2
<1>3. ServerSound'
  <2>1. server' = s BY <1>1
  <2> HIDE DEF s
  <2> QED BY <1>2, <2>1 DEF ServerSound
<1>4. DataSound'
  <2>1. /\ read_bytes_' = read_bytes_ + readable + n /\ readable' = 0 /\ transit' = transit - n
        /\ client' = client /\ write_bytes_' = write_bytes_ /\ buffered' = buffered
    BY <1>1, <1>2 DEF OnCanRead
  <2>2. /\ {write_bytes_, buffered, transit, readable, read_bytes_} \subseteq Nat
        /\ write_bytes_ = buffered + transit + readable + read_bytes_
        /\ buffered <= Threshold /\ transit <= Window
    BY DEF IInv, DataSound, BytesConserved
  <2>3. n \in Nat /\ n <= transit BY <1>1, <2>2
  <2>4. /\ transit' \in Nat /\ read_bytes_' \in Nat /\ transit' <= Window
        /\ write_bytes_' = buffered' + transit' + readable' + read_bytes_'
    BY <2>1, <2>2, <2>3, SessionConstants
  <2> QED BY <2>1, <2>2, <2>4 DEF IInv, DataSound, BytesConserved
<1> QED BY <1>1, <1>3, <1>4 DEF IInv, ClientSound

\* The server's connection ends, its session is deleted, or the server stops.
LEMMA ServerEndSound ==
    ASSUME IInv, OnServerConnectionClosed \/ DeleteSessions \/ StopServer
    PROVE  IInv'
<1>0. UNCHANGED <<client, dataVars>>
  BY DEF OnServerConnectionClosed, DeleteSessions, StopServer
<1>1. CASE OnServerConnectionClosed
  <2>1. /\ Sound(server') /\ server'.alive = server.alive /\ server'.ready_ = server.ready_
        /\ server'.m_packetProcessor = server.m_packetProcessor
    BY <1>1, CloseSound DEF IInv, ServerSound, OnServerConnectionClosed
  <2> QED BY <1>0, <2>1, DataKept DEF IInv, ClientSound, ServerSound
<1>2. CASE DeleteSessions
  <2>1. Sound(server') BY <1>2, DeletedSound DEF IInv, ServerSound, DeleteSessions
  <2>2. /\ server'.alive = server.alive \ {"session", "endpoint", "stream", "channel"}
        /\ server'.m_packetProcessor = server.m_packetProcessor
    BY <1>2, DestroySessionSound DEF IInv, ServerSound, DeleteSessions
  <2> QED BY <1>0, <2>1, <2>2, DataKept DEF IInv, ClientSound, ServerSound
<1>3. CASE StopServer
  <2>1. /\ Sound(server') /\ server'.alive = {}
    BY <1>3, TearDownSound DEF IInv, ServerSound, StopServer
  <2>2. ~server'.m_packetProcessor BY <2>1 DEF Sound, Safe
  <2> QED BY <1>0, <2>1, <2>2, DataKept DEF IInv, ClientSound, ServerSound
<1> QED BY <1>1, <1>2, <1>3

-----------------------------------------------------------------------------
\* Every step keeps the invariant.
LEMMA NextSound == ASSUME IInv, [Next]_vars PROVE IInv'
<1>1. CASE UNCHANGED vars
  BY <1>1 DEF vars, dataVars, IInv, ClientSound, ServerSound, DataSound, BytesConserved
<1> QED BY <1>1, StartClientSound, ReadySound, TimeoutSound, CanWriteSound, RecvSound, ClientEndSound,
           StartServerSound, CreateSessionSound, DataAvailableSound, ServerEndSound DEF Next

\* The objects are owned as Owned says and the bytes add up, in every behaviour.
THEOREM SessionSound == Spec => []IInv
BY InitSound, NextSound, PTL DEF Spec

\* No handler or destructor of either side ever reaches an object that was freed, in
\* whatever order the connection ends and the two applications stop.
THEOREM SessionNoUseAfterFree == Spec => []NoUseAfterFree
<1>1. IInv => NoUseAfterFree BY DEF IInv, ClientSound, ServerSound, Sound, Safe, NoUseAfterFree
<1> QED BY <1>1, SessionSound, PTL

\* What the client's channel counted as written and the server's has not read is
\* buffered, under way or readable, within the stream's limit and the window.
THEOREM SessionBytesConserved == Spec => []BytesConserved
<1>1. IInv => BytesConserved BY DEF IInv, DataSound
<1> QED BY <1>1, SessionSound, PTL
=============================================================================
