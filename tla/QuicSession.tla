------------------------------ MODULE QuicSession ------------------------------
(***************************************************************************)
(* One QUIC connection between a client and a server application: the      *)
(* objects each side creates for it, who points to whom, the order in      *)
(* which they are destroyed, and the bulk data the client's write channel  *)
(* pushes through its only stream to the server's read channel.            *)
(*                                                                         *)
(* The simulator is single threaded and every handler below runs to its    *)
(* end, so each is one action; a destructor that calls others is a         *)
(* composition of functions on the record of its side, and a use of an     *)
(* object that is no longer alive is collected in the field dangling.      *)
(*                                                                         *)
(* External is the QUIC library: it decides when the handshake completes,  *)
(* when a stream may send, when data arrives and when a connection ends.   *)
(* Data is counted in writes of 1500 bytes.                                *)
(***************************************************************************)
EXTENDS Integers, FiniteSets

CONSTANTS kWritePackets,  \* writes tried by one WriteData
          Threshold,      \* buffered writes at which a stream refuses more
          Window,         \* writes the connection may have under way
          MaxWrite        \* bound: writes made by the channel

ASSUME SessionConstants == /\ kWritePackets \in Nat \ {0} /\ Threshold \in Nat \ {0}
                           /\ Window \in Nat \ {0} /\ MaxWrite \in Nat

VARIABLES client, server,  \* the objects of the two sides: see Side
          write_bytes_,    \* of BandwidthWriteChannel
          buffered,        \* external: accepted by the stream, not yet sent
          transit,         \* external: sent, not yet received in order
          readable,        \* external: received by the server's stream, unread
          read_bytes_      \* of BandwidthReadChannel

dataVars == <<write_bytes_, buffered, transit, readable, read_bytes_>>
vars == <<client, server, dataVars>>

Smaller(a, b) == IF a < b THEN a ELSE b

\* "app" is m_quicClient of one side and m_quicServer of the other.
Object == {"engine", "backend", "app", "session", "endpoint", "stream", "channel"}

Side == [alive    : SUBSET Object,
         conn     : {"none", "open", "closed"},  \* of the QuicConnection
         ready_   : BOOLEAN,                     \* of the session
         channel_ : BOOLEAN,                     \* the endpoint's pointer is set
         notifier : BOOLEAN,                     \* the channel's pointer is set
         alarm    : BOOLEAN,                     \* the channel's alarm is set
         m_packetProcessor : BOOLEAN,            \* it points into the client
         dangling : SUBSET Object]               \* used after they were freed

\* The constructors of the applications make an engine and a backend.
NewSide == [alive |-> {"engine", "backend"}, conn |-> "none", ready_ |-> FALSE,
            channel_ |-> FALSE, notifier |-> FALSE, alarm |-> FALSE, m_packetProcessor |-> FALSE,
            dangling |-> {}]

Make(c, objs) == [c EXCEPT !.alive = @ \cup objs]
Free(c, objs) == [c EXCEPT !.alive = @ \ objs]
Use(c, objs)  == [c EXCEPT !.dangling = @ \cup (objs \ c.alive)]

-----------------------------------------------------------------------------
\* Destruction.

\* Cancelling reaches into the engine the alarm is registered with.
CancelAlarm(c) == IF c.alarm THEN [Use(c, {"engine"}) EXCEPT !.alarm = FALSE] ELSE c

\* The channel cancels its alarm and tells the endpoint, if there still is one.
OnDestroy(c) == LET d == CancelAlarm(c)
                IN  IF d.notifier THEN [Use(d, {"endpoint"}) EXCEPT !.channel_ = FALSE] ELSE d

\* ~Ns3TransportStream, then its visitor, the channel, with its own destructor.
DestroyStream(c) == IF "stream" \in c.alive
                    THEN Free(CancelAlarm(OnDestroy(c)), {"stream", "channel"})
                    ELSE c

\* Mutant of DestroyEndpoint: the channel is not told.
DestroyEndpoint_Silent(c) == Free([c EXCEPT !.channel_ = FALSE], {"endpoint"})

\* The endpoint's destructor takes itself out of its channel.
DestroyEndpoint(c) == Free(IF c.channel_
                           THEN [Use(c, {"channel"}) EXCEPT !.notifier = FALSE, !.channel_ = FALSE]
                           ELSE c, {"endpoint"})

\* The session's destructor calls the endpoint; its members, the endpoint
\* among them, go before the streams, which belong to the base class.
DestroySession(c) == LET d == IF "endpoint" \in c.alive THEN Use(c, {"endpoint"}) ELSE c
                     IN  Free(DestroyStream(DestroyEndpoint(d)), {"session"})

Close(c) == IF c.conn = "open" THEN [c EXCEPT !.conn = "closed"] ELSE c

\* The network helper takes itself out of the application, which calls it back.
UnregisterFD(c) == IF c.m_packetProcessor
                   THEN [Use(c, {"app"}) EXCEPT !.m_packetProcessor = FALSE]
                   ELSE c

\* The connection is closed, then application, backend and engine go in turn:
\* ~QuicClientAppImpl, and QuicServerAppImpl::Stop.
TearDown(c) == Free(DestroySession(UnregisterFD(Close(c))), {"app", "backend", "engine"})

-----------------------------------------------------------------------------
\* The data path.

\* Of k writes, those the stream accepts with b buffered.
Saved(b, k) == IF b < Threshold THEN Smaller(k, Threshold - b) ELSE 0

\* Mutant of WriteData: refused writes are counted as well.
WriteData_CountsAll(open, b, t) ==
    LET k      == IF open THEN Smaller(kWritePackets, MaxWrite - write_bytes_) ELSE 0
        direct == IF b = 0 THEN Smaller(k, Window - t) ELSE 0
    IN  /\ write_bytes_' = write_bytes_ + k
        /\ buffered' = b + Saved(b, k - direct)
        /\ transit' = t + direct

\* BandwidthWriteChannel::WriteData with b writes buffered and t under way: a
\* write to a stream with nothing buffered is sent at once if it may be, the
\* others are buffered, and the first that is refused ends the loop.
WriteData(open, b, t) ==
    LET k      == IF open THEN Smaller(kWritePackets, MaxWrite - write_bytes_) ELSE 0
        direct == IF b = 0 THEN Smaller(k, Window - t) ELSE 0
        saved  == Saved(b, k - direct)
    IN  /\ write_bytes_' = write_bytes_ + direct + saved
        /\ buffered' = b + saved
        /\ transit' = t + direct

-----------------------------------------------------------------------------
\* The client.

\* The client's session is created with its endpoint.
NewClientSession(c) == [Make(c, {"session", "endpoint"}) EXCEPT !.conn = "open"]

\* The network helper registers with the application for incoming packets.
RegisterFD(c) == [c EXCEPT !.m_packetProcessor = TRUE]

\* InitialAndConnect makes the client, which registers and connects
\* (Initialize, AsynConnect).
StartClient ==
    /\ client.conn = "none" /\ "engine" \in client.alive
    /\ client' = NewClientSession(RegisterFD(Make(client, {"app"})))
    /\ UNCHANGED <<server, dataVars>>

\* A stream with a channel as its visitor; endpoint and channel know each other.
OpenChannel(c) == [Make(c, {"stream", "channel"}) EXCEPT !.channel_ = TRUE, !.notifier = TRUE]

\* The channel writes for the first time and sets its alarm.
StartFillData(c) == /\ WriteData(TRUE, buffered, transit)
                    /\ client' = [c EXCEPT !.alarm = TRUE]

\* The client's endpoint opens the stream and starts to fill it.
OnSessionReady(c) == StartFillData(OpenChannel(Use(c, {"endpoint"})))

\* The handshake makes the session ready.
OnTlsHandshakeComplete ==
    /\ client.conn = "open" /\ ~client.ready_ /\ server.conn # "none"
    /\ OnSessionReady([client EXCEPT !.ready_ = TRUE])
    /\ UNCHANGED <<server, readable, read_bytes_>>

\* Mutant of Rearm: the alarm is not set again.
Rearm_Never(c) == [c EXCEPT !.alarm = FALSE]

Rearm(c) == [c EXCEPT !.alarm = TRUE]

\* The alarm fires into the channel, which writes and sets it again; a stream
\* whose connection is closed refuses the writes.
OnTimeout ==
    /\ client.alarm
    /\ client' = Rearm(Use(client, {"engine", "channel", "stream"}))
    /\ WriteData(client.conn = "open", buffered, transit)
    /\ UNCHANGED <<server, readable, read_bytes_>>

\* The library sends buffered data and, once there is room again, asks the
\* stream for more, which asks the channel (OnCanWriteNewData, OnCanWrite).
OnCanWrite ==
    LET m == Smaller(buffered, Window - transit)
    IN  /\ client.conn = "open" /\ m > 0
        /\ WriteData(buffered - m < Threshold, buffered - m, transit + m)
        /\ client' = Use(client, {"stream", "channel"})
        /\ UNCHANGED <<server, readable, read_bytes_>>

\* A packet goes to the session through the network helper, if it registered.
OnIncomingData(c) == IF c.m_packetProcessor THEN Use(c, {"app", "session"}) ELSE c

\* QuicClientApp::RecvPacket, while the application has its implementation.
RecvPacket ==
    /\ "engine" \in client.alive
    /\ client' = OnIncomingData(client)
    /\ UNCHANGED <<server, dataVars>>

\* The library reports the end of the connection: an idle timeout, the peer's
\* close, an error.  The streams stay with the session.
OnConnectionClosed ==
    /\ client.conn = "open"
    /\ client' = Close(client)
    /\ UNCHANGED <<server, dataVars>>

\* QuicClientApp::StopApplication
StopClient ==
    /\ "engine" \in client.alive
    /\ client' = TearDown(client)
    /\ UNCHANGED <<server, dataVars>>

-----------------------------------------------------------------------------
\* The server.

\* QuicServerAppImpl::Start
StartServer ==
    /\ "engine" \in server.alive /\ "app" \notin server.alive
    /\ server' = Make(server, {"app"})
    /\ UNCHANGED <<client, dataVars>>

\* The dispatcher creates the session for the client's first packet; it has no
\* endpoint yet.
CreateQuicSession ==
    /\ "app" \in server.alive /\ server.conn = "none" /\ client.conn = "open"
    /\ server' = [Make(server, {"session"}) EXCEPT !.conn = "open"]
    /\ UNCHANGED <<client, dataVars>>

\* Mutant of CreateIncomingStream: the stream is left without a visitor.
CreateIncomingStream_NoVisitor(c) ==
    LET d == IF ~c.ready_ /\ "endpoint" \notin c.alive
             THEN [Make(c, {"endpoint"}) EXCEPT !.ready_ = TRUE] ELSE c
    IN  Make(Use(d, {"endpoint"}), {"stream"})

\* The first frame of a stream makes the endpoint, the stream and its channel.
CreateIncomingStream(c) ==
    LET d == IF ~c.ready_ /\ "endpoint" \notin c.alive
             THEN [Make(c, {"endpoint"}) EXCEPT !.ready_ = TRUE] ELSE c
    IN  OpenChannel(Use(d, {"endpoint"}))

\* The read channel empties the stream, which has n more to read than before.
OnCanRead(n) == read_bytes_' = read_bytes_ + readable + n /\ readable' = 0

\* The library hands n writes, in order, to the stream, which calls its
\* visitor, if it has one.
OnDataAvailable ==
    \E n \in 1 .. transit :
        LET s == IF "stream" \in server.alive THEN server ELSE CreateIncomingStream(server)
        IN  /\ server.conn = "open"
            /\ server' = s
            /\ transit' = transit - n
            /\ IF "channel" \in s.alive
               THEN OnCanRead(n)
               ELSE readable' = readable + n /\ UNCHANGED read_bytes_
            /\ UNCHANGED <<client, write_bytes_, buffered>>

\* The dispatcher puts the session of an ended connection on its list.
OnServerConnectionClosed ==
    /\ server.conn = "open"
    /\ server' = Close(server)
    /\ UNCHANGED <<client, dataVars>>

\* The dispatcher's alarm deletes it while the server runs on.
DeleteSessions ==
    /\ server.conn = "closed" /\ "session" \in server.alive
    /\ server' = DestroySession(server)
    /\ UNCHANGED <<client, dataVars>>

\* QuicServerApp::StopApplication
StopServer ==
    /\ "engine" \in server.alive
    /\ server' = TearDown(server)
    /\ UNCHANGED <<client, dataVars>>

-----------------------------------------------------------------------------
Init == /\ client = NewSide /\ server = NewSide
        /\ write_bytes_ = 0 /\ buffered = 0 /\ transit = 0 /\ readable = 0 /\ read_bytes_ = 0

Next == \/ StartClient \/ OnTlsHandshakeComplete \/ OnTimeout \/ OnCanWrite
        \/ RecvPacket \/ OnConnectionClosed \/ StopClient
        \/ StartServer \/ CreateQuicSession \/ OnDataAvailable
        \/ OnServerConnectionClosed \/ DeleteSessions \/ StopServer

Spec == Init /\ [][Next]_vars

\* The simulator executes every scheduled event, so a set alarm fires, and the
\* library sends and delivers what it has accepted while the connection lives.
FairSpec == Spec /\ WF_vars(OnTimeout) /\ WF_vars(OnCanWrite) /\ WF_vars(OnDataAvailable)

-----------------------------------------------------------------------------
\* No handler or destructor reaches an object that was freed, in whatever order
\* the connection ends and the two applications stop.  While both exist, endpoint
\* and channel point to each other, and a pointer that is set points to a living
\* object, so that each can be destroyed first; the application passes packets on
\* only while client and session exist, and a set alarm has its channel, the
\* stream it writes to and its engine.
NoUseAfterFree == \A c \in {client, server} :
                    /\ c \in Side /\ c.dangling = {}
                    /\ c.channel_ => {"endpoint", "channel"} \subseteq c.alive
                    /\ {"endpoint", "channel"} \subseteq c.alive => c.channel_ /\ c.notifier
                    /\ c.m_packetProcessor => {"app", "session"} \subseteq c.alive
                    /\ c.alarm => {"channel", "stream", "engine"} \subseteq c.alive

\* The byte counts of the two channels differ by what is under way: nothing is
\* counted as written that the stream refused, and nothing is read twice.  However
\* often WriteData is called, the connection has no more under way than its window
\* and the stream buffers no more than its limit.
BytesConserved == /\ write_bytes_ = buffered + transit + readable + read_bytes_
                  /\ buffered <= Threshold /\ transit <= Window

\* As long as the connection lives on both sides a ready client writes on,
\* whether the last writes were all sent at once, when only the alarm brings
\* the next ones, or were refused.
KeepsFilling == \A k \in 0 .. MaxWrite - 1 :
                    (client.ready_ /\ client.conn = "open" /\ write_bytes_ = k)
                    ~> (write_bytes_ > k \/ client.conn # "open" \/ server.conn # "open")

\* Whatever the client's channel wrote is read by the server's, unless the
\* connection ends first.
AllRead == \A k \in 1 .. MaxWrite :
              (write_bytes_ >= k)
              ~> (read_bytes_ >= k \/ client.conn # "open" \/ server.conn # "open")
=============================================================================
