# Verification of the QUIC and TCP experiment

The repository compares congestion control in QUIC and TCP. It runs bulk
transfers over a dumbbell network in the ns-3 simulator, once with Google's QUIC
library (`src/quiche`) behind an ns-3 adapter, once with the TCP of ns-3, and
writes traces of rate, delay, loss and utilization. The results are only as good
as the adapter, the two hand-written senders (Vegas, Copa), the statistics, and
the reliable stream of the library under them. These are what this project
models.

Everything runs in one thread: the simulator executes events one after the other
and each runs to its end. What makes the code hard to test is therefore not
preemption but re-entrancy (a callback that calls back into the engine that is
calling it), the order of events due at one instant, the order in which objects
are destroyed, and arithmetic over long runs.

## The system

| part | source (under `src/`) | module |
| --- | --- | --- |
| alarm engine: one simulator event drives all QUIC alarms | `src/quic/model/ns3-quic-alarm-engine.*`, `quiche/.../quic_alarm.*` | `AlarmEngine`, `AlarmService` |
| windowed minimum filter used by both senders | `quiche/.../windowed_filter.h` | `WindowedFilter`, `RttFilter` |
| Vegas sender | `src/quic/model/cc-algo/vegas_sender.*` | `VegasSender` |
| Copa sender | `src/quic/model/cc-algo/copa_sender.*` | `CopaSender` |
| TCP client, server, sink | `src/tcp-client/model/tcp-{client,server,sink}.*` | `TcpExperiment` |
| TCP statistics | `src/tcp-client/model/tcp-tracer.*` | `TcpExperiment` |
| QUIC client and server applications | `src/quic/model/ns3-quic-{client,server}-app.*` | `QuicFlow`, `QuicSession` |
| QUIC server trace | `src/quic/model/ns3-quic-trace.*` | `QuicFlow` |
| packet tag | `src/quic/model/ns3-quic-tag.*` | `QuicTag` |
| sessions, endpoints, channels, streams | `src/quic/model/ns3-quic-{client-session,server-session,backend,channel}.*`, `ns3-transport-stream.*` | `QuicSession` |
| server and dispatcher | `src/quic/model/ns3-quic-{server,dispatcher}.*` | `QuicSession` |
| scenarios: flows, ports, times | `scratch/quic.cc`, `scratch/tcp.cc` | `QuicFlow`, `TcpExperiment` |
| sending half of a QUIC stream | `quiche/.../quic_stream_send_buffer.cc`, `quic_stream.cc`, `quic_session.cc` | `SendBuffer`, `StreamSender` |
| loss recovery | `quiche/.../quic_sent_packet_manager.cc`, `quic_unacked_packet_map.cc`, `general_loss_algorithm.cc` | `SentPackets` |
| acknowledgements | `quiche/.../quic_received_packet_manager.cc` | `ReceivedPackets` |
| connection: writes, timers, acks | `quiche/.../quic_connection.cc` | `Transfer`, `ByteStream` |
| receiving half of a QUIC stream | `quiche/.../quic_stream_sequencer.cc`, `quic_stream_sequencer_buffer.cc` | `ReceiveBuffer`, `FlowControl` |
| flow control | `quiche/.../quic_flow_controller.cc` | `FlowController`, `FlowControl` |
| control frames | `quiche/.../quic_control_frame_manager.cc` | `ControlFrames`, `FlowControl` |

How they interact. A scenario program builds the network and starts one client
and one server application per flow. A QUIC application owns an alarm engine, a
backend and a QUIC client or server; these own sessions, a session owns an
endpoint and its streams, a stream owns a channel (`QuicSession`). The write
channel fills its stream, driven by an alarm of the engine (`AlarmEngine`). The
library keeps what was written until it is acknowledged, repeats what is lost
(`Transfer`) and sends as far as the peer's windows (`FlowControl`) and its
congestion controller allow (`VegasSender`, `CopaSender`, both built on
`WindowedFilter`). It hands packets to the application, which tags them
(`QuicTag`), counts them and puts them on the network, where the server
application reads them and reports them to the trace (`QuicFlow`). The TCP half
is one module, `TcpExperiment`.

## The models

All modules take their bounds as constants. Variables with a trailing underscore
or an `m_` prefix have the name of the C++ member they stand for; variables
marked *external* in a module belong to ns-3 or to the QUIC library and are
modelled from how the repository's code uses them; those marked *history* only
serve the properties. A definition `X_Something` placed before `X` is a variant
of `X` with a plausible mistake, used to confirm that a property is sensitive to
that mistake; no specification uses it.

**AlarmEngine.** State: the clock, `alarm_map_` as a set of entries,
`all_alarms_`, `timer_` (when the one simulator event is due), `registered_` and
`deadline_` of every alarm, and the stack of `OnTimeout` (`pc`, the local vector
`cbs`, the running delegate). Actions: `Set`, `Cancel`, `Update` of any alarm,
from outside or from a delegate that is running; `OnTimeout` up to its first
callback, `OnAlarm`, `OnAlarmReturn`, `OnTimeoutReturn`; `Shutdown`; `Tick`.
`OnTimeout` is split at its callbacks because a delegate re-enters the engine
there. An assertion that fails or an iterator used after its entry was erased
sets `fault`, after which nothing is promised. `AlarmService` is the abstract
specification, what `quic_alarm.h` promises without an engine: a delegate never
runs before its deadline or for a cancelled alarm, and time does not pass a
deadline before its delegate has run. The mapping is the identity on clock and
deadlines; the service is open while the engine works.

**WindowedFilter, RttFilter.** The three estimates of the minimum filter as pure
operators (`UpdateFilter`, `GetBest`, `ResetTo`), and a state machine that feeds
them samples and changes the window between samples, as Copa does at each event.

**VegasSender.** One action per call of the send algorithm interface;
`OnCongestionEvent` is split at the calls its two loops make (`OnPacketLost`,
`OnPacketAcked`, `EndCongestionEvent`), since each changes the packet numbers on
which recovery depends. The environment is the library: it reports each packet
lost at most once and acknowledged at most once, and a packet declared lost may
still be acknowledged.

**CopaSender.** As Vegas, with an event as one step. The window and the velocity
have the width `Width` (64 in the code), and arithmetic wraps there.

**TcpExperiment.** Clients that register their target with the statistics,
connect, fill the socket's buffer and are called back; sinks that look the target
up when they are accepted and report the end of a session; the utilization and
loss lines. The comparison of session keys is true when *some* component is
smaller, which is no order. The lookup in the map is modelled as undefined
(it may miss) whenever the keys in use are not ordered by it.

**QuicFlow.** Client applications that number and limit packets, a network that
delivers in order or drops, servers that read one packet per callback, and the
trace dispatcher they share, until the applications stop. Undefined lookups are
treated as in `TcpExperiment`.

**QuicTag.** The variable-length integers of the tag: announced size, writer and
reader, each with its own rule for where a number ends. `QuicFlow` extends it and
every packet carries the bytes. The radix (128 in the code) is a constant.

**QuicSession.** One connection. Each side is a record: which objects are alive,
whether endpoint and channel point to each other, whether the channel's alarm is
set and whether the client is registered for incoming packets. Destructors are
compositions of functions on that record, and a use of a freed object is
collected in `dangling`. Data is counted in writes of 1500 bytes.

The modules from here on model the QUIC library. Its passive objects are records,
with one operator per method; `Transfer` and `FlowControl` hold such records in
variables and have one action per handler of the event loop, which runs to its
end. A field `ok` of each record becomes FALSE when the code would reach a
`QUIC_BUG`, a `DCHECK` or an error that closes the connection.

**Transfer** composes `StreamSender` (with its `SendBuffer`), `SentPackets` and
`ReceivedPackets` into one stream from a writing to a reading endpoint. State:
`snd`, the sending endpoint with its stream, its unacked packets, the loss
detection and the two alarms; `rcv`, what the peer received and when it will
acknowledge; the packets and acks in the network, which loses, duplicates and
reorders them. Actions: the application writes (`WriteOrBufferData`), the alarms
fire (`SendAlarm`, `LossTimeout`, `ProbeTimeout`, `AckAlarm`), packets and acks
arrive (`ReceivePacket`, `ReceiveAck`) or are lost. Sets of byte intervals are
sets of offsets. Time is abstracted: a timer is set or not, and which packets
are old enough to be lost by time is a cut through the packet numbers. The
congestion window is a constant and the pacer lets any number in `Paces` through
per step. `ByteStream` is the abstract specification: bytes arrive only if they
were written, the sender forgets them only after they arrived, and closes the
stream only after all of it arrived. The mapping takes the send buffer's set of
acked bytes as what was released.

**FlowControl** composes `ReceiveBuffer` (the ring of blocks), two windows of
`FlowController` (stream and connection) and `ControlFrames` into one stream
under flow control. The writer (`snd`) sends as far as both windows reach; the
reader (`rcv`) puts frames into the ring, hands all there is to the application,
as the bandwidth channel does, and sends WINDOW_UPDATEs. Since `Transfer` repeats
data until it is acknowledged, any part of what was sent may arrive at any time
and any number of times (`ReceiveFrame`); WINDOW_UPDATEs are followed one by one
through loss, duplication, reordering, acknowledgement, false loss and probes.

## The runs

Run one with `tlc -workers 2 -config X.cfg M`. Runs that pass:

| run | config | what it shows |
| --- | --- | --- |
| alarm_engine | `AlarmEngine.cfg` (module `MCAlarmEngine`) | Map, set, vector, flags and deadlines agree (`Registry`); no wake-up is lost though most paths leave the timer alone (`WakeUp`); the assertions on time and double registration hold (`EngineAssertions`); the engine implements `AlarmService`; every alarm set within the run settles. |
| rtt_filter | `RttFilter.cfg` | Estimates stay ordered, each is the exact minimum since it was taken, the best is inside the window. |
| vegas_safety | `VegasSender_safety.cfg` | Window above its minimum, one cut per flight, Vegas on exactly outside recovery, slow start left once. |
| copa_safety | `CopaSender_safety.cfg` | Window above its minimum, no check fails, velocity earned in one direction and applied only there. |
| tcp | `TcpExperiment.cfg` | Each sink finds its target, each flow counts once, the utilization line covers complete flows, logged loss is what was retransmitted; each flow ends, and one that is not stopped delivers all its bytes. |
| quic_flow | `QuicFlow.cfg` | The loss count is exact, tags read back as written, no packet waits unread, each byte is traced once and accounted to a goodput line. |
| session | `QuicSession.cfg` | No freed object is used in any order of ending and stopping; alarms and pointers have living targets; bytes are conserved; the write channel never stalls and everything written is read while the connection lives. |
| transfer | `Transfer.cfg` | No internal error (`NoInternalError`); what is not acked is queued, queued again or in flight (`NothingForgotten`); no endpoint sleeps with work to do (`NeverIdle`); bytes in flight and the send buffer are exact (`FlightIsExact`, `BufferIsExact`); loss detection leaves no packet behind (`HolesAreTimed`); nothing the peer is known to have is sent (`SendsOnlyUnacked`); it implements `ByteStream`, and all is acked in the end (`AllAcked`). |
| flow_control | `FlowControl.cfg` | No internal error; every byte passes the ring unharmed (`BytesIntact`); no window promises room that is not there (`WindowFits`); a window the peer does not know is on its way (`UpdateNotForgotten`); a stream that may write is listed for writing (`WriterIsListed`); all is read in the end (`AllRead`). |

Runs in which TLC finds a violation of what a line of the repository says:

| run | property | disagreement |
| --- | --- | --- |
| alarm_engine_token | `TokenIsLive` | `OnTimeout` erases all due entries before the first callback; a delegate that cancels or moves another due alarm makes the engine use an erased iterator. |
| vegas_rtt_check | `RoundMinimumAtLeastBase` | A round keeps a minimum the filter has forgotten; `QUICHE_CHECK(min_rtt_ >= base_rtt)` fails. |
| copa_reversal | `ReversalResetsVelocity` | A window held at its minimum doubles the velocity until it wraps to 0, which the reset (`> 1`) misses; the window never changes again. |

### Bounds and why they are enough

- *AlarmEngine*: three alarms are the fewest with one running, one waiting in
  `OnTimeout`'s vector and one in the map; a horizon of four instants and four
  calls let all three be set and one of them be moved or cancelled by a delegate.
  Granularities 0 and 2 cover an `Update` that is ignored and one that is not.
  The run checks liveness and so uses no symmetry; the run `alarm_engine_token`
  does, the alarms being interchangeable. The proofs remove all these bounds.
- *RttFilter*: five samples of four values over seven instants with windows 2
  and 4 reach every branch (reset, better, promote once and twice, refresh).
- *VegasSender*: a packet of two bytes, five packets, two RTTs and a filter
  window of two instants make rounds with one, two and more samples, losses
  inside and outside a flight, and a filter that forgets. Proved in general.
- *CopaSender*: seven packets allow three RTTs in one direction and a reversal.
  `copa_reversal` scales the width of the velocity to four bits: the wrap needs
  as many doublings as the width, 64 in the code.
- *TcpExperiment*: two flows of which the tracer waits for one or for both (the
  program waits for a fixed number as well) give a line before and with the last
  flow; a target of three bytes with segments of two gives a short last segment,
  and a send buffer of two makes the flow depend on the send callback.
  `Target < Width` is assumed, as the program transfers 150 MB.
- *QuicFlow*: two flows share the dispatcher; four numbers over five instants
  reach the transmit limit and several goodput lines. Radix 2 gives these numbers
  and times one to three digits, powers of the radix included. They start at 1:
  the code writes no byte for a zero and reads one, but sequence numbers start at
  1 and no packet is sent in the first millisecond.
- *QuicSession*: a window (7) just above one `WriteData` (6) and a buffer (4) below
  it make its writes end sent, buffered and refused; a `WriteData` that is sent
  whole leaves nothing buffered, so that only the alarm brings the next one.
- *Transfer*: three bytes and the fin in slices and frames of two (`StreamLength`,
  `MaxSlice`, `MaxFrame`) give frames that end inside a slice, frames that overlap
  when they are sent again, and a fin with and without data. Five packets
  (`PacketBudget`) are two more than the transfer needs, so that packets are lost
  by number, by time and falsely, and acked after that; once they are used up the
  sender stops, which `AllAcked` allows for. A window of four bytes
  (`CongestionWindow`) is filled by two packets. A reordering threshold of two,
  an ack for every second packet and one ack range reach the limits that the code
  sets at 3, 2 and 255. `MaxAcks` and `DuplicateUntil` bound what is in the
  network.
- *FlowControl*: a ring of four bytes in blocks of three (`Capacity`, `BlockSize`;
  the last block is shorter) wraps within six bytes of stream; windows of two and
  five bytes grow to limits of four and six, so that either window is the one that
  blocks. An endpoint's connection takes none, one or three frames per step
  (`Rooms`), and two WINDOW_UPDATEs are lost or late (`MaxLosses`), one of each
  controller or two of one. `Capacity = StreamLimit` as in the code. The limits on
  intervals and control frames (`MaxIntervals`, `MaxNumFrames`) are above what the
  instance reaches.

Deadlock checking is off where the system really stops: the clock ends at a
bound, all packets are used up or the applications have stopped.

### Fairness

Safety properties do not depend on fairness. Three of the runs with liveness
properties assume weak fairness: of the engine's steps and the clock
(`AlarmEngine`), since a discrete-event simulator executes every scheduled event
and a delegate returns; of the clock and of each flow's own steps
(`TcpExperiment`), where a transmission succeeds in the end because the links
lose less than all packets and TCP repeats; of the alarm, the stream's write
callback and delivery (`QuicSession`), for the same reason and while the
connection lives. Nothing is assumed of connection failures, stops, losses or
users of the alarms.

`Transfer` and `FlowControl` assume less: only that the event loops do not stop
while something is still to happen (`Runnable`). Which step is taken is open, so
the network may prefer to lose packets; progress must come from the code's own
timers. Losses are bounded in both models, by `PacketBudget` and `MaxLosses`.

## The proofs

Checked with `tlapm M.tla` for the eight modules with theorems. They hold for
every value of the constants that satisfies the named assumptions
(`ConstantsAssumption`, `FilterAssumption`, `VegasAssumption`,
`WindowAssumption`), which TLC evaluates in the runs.

**AlarmEngineProofs**: `TypeCorrect`, `RegistryHolds`, `NoLostWakeUp`,
`AssertionsHold`, and `EngineImplementsService`, the refinement. Assumed: the
horizon and the call bound are natural numbers, granularities are sets of them,
and `NoAlarm` is no alarm. The inductive invariant `IInv` adds to the stated
invariants `Entries` (no entry is behind the clock; an entry carries its alarm's
deadline, or is due now with a deadline that had passed; what waits in the vector
is due) and `Stack` (the vector is empty outside `OnTimeout`; a delegate runs
exactly in a callback). `WakeUp` alone is not inductive: `UpdateTimer` may only
be called without a past time if no entry is behind the clock. There is one lemma
per operation (register, cancel, re-register, the engine's own steps, the rest),
and the refinement follows step by step under `IInv`; the clock's step needs
`WakeUp`, which says that no alarm is overdue when time passes.

**WindowedFilterProofs, RttFilterProofs**: `UpdateKeepsOrTakes` says what one
update does to each estimate: it keeps one of the old ones or takes the new
sample. From it follow `OrderHolds`, `EstimatesAreMinima` and `BestStaysCurrent`
for any stream of positive samples and any change of the window. The strengthening
adds that no sample lies in the future and that a filter with a value has taken a
sample.

**VegasSenderProofs**: `TypeCorrect`, `MinimumHolds`, `ModeIsRecovery`,
`MeasuredRounds`, `SlowStartEndsOnce`, `GradualWindow`. Assumed: a positive
segment size, initial windows of at least four packets (the code's minimum) and
RTTs below the infinite one. The strengthening adds that during an event
`vegas_mode_` is the negation of the recovery state read before the loops, and
that the filter is in order. The lemmas bound each way the window moves (Reno,
the adjustment at the end of a round, a cut).

**ByteStreamProofs**: `StreamKept` and `StreamComplete`, a stream its sender has
closed has arrived as a whole. `Transfer` implements `ByteStream` in the run, so
this is what its reader may rely on. The inductive invariant says that released
bytes were delivered, delivered ones written, and that the end was seen only if
it was written.

**SendBufferProofs**: the counts of the send buffer, for streams and slices of any
length. `BooksSound` relates the count of outstanding bytes to the set of acked
ones and keeps what waits to be sent again within what is sent and not acked;
`NewBooks`, `ConsumedBooks`, `LostBooks`, `RetransmittedBooks` and `AckedBooks`
say that each method keeps it, for any range of bytes that was sent, repeated and
overlapping ones included. Of the slices the proofs need only that freeing them
leaves the counts alone; that no slice is freed too early is model-checked
(`BufferIsExact`).

**FlowControllerProofs**: `ConsumeKeepsSound` (a read keeps consumed, received and
promised bytes in order and the window within its limit, and never takes back
room), `ConsumeLeavesRoom` (after a read the peer may send at least half a window
more) and `ReceiveKeepsSound` (data within the promise is no violation), for any
window sizes that satisfy `WindowAssumption`.

**NatFacts**: two facts about natural numbers the others cite.

Only model-checked: liveness (`AlarmSettles`, `FlowEnds`, `KeepsFilling`,
`AllAcked`, `AllRead`), which the prover cannot reach; all properties of
`CopaSender`, `TcpExperiment`, `QuicFlow` with `QuicTag` and `QuicSession`; and
the properties of the compositions `Transfer` and `FlowControl`, whose handlers
fold over sequences of frames and packets, which the prover cannot unfold. The
other way round, the type invariants of `AlarmEngine`, `RttFilter` and
`VegasSender` and `RoundIsMeasured` of `VegasSender` are proved, and no run
repeats them.

## What the models say about the code beyond the runs

- A bandwidth endpoint always dies before its streams, so `OnChannelDestroy` is
  never reached for it: the endpoint's destructor clears the channel's notifier.
- When a client application stops, its pointer to the implementation is already
  clear while the implementation is destroyed, so the `CONNECTION_CLOSE` written
  on the way is not sent; the server learns of the end only by its idle timeout.
- `~Ns3QuicAlarmEngine` leaves the simulator event scheduled. The model has the
  step that follows (`OnTimeoutAfterShutdown`); no line of the repository
  promises the opposite, so no run states it.
- Updating the only registered alarm takes it out of the map and then fails
  `NS_ASSERT(!alarm_map_.empty())` in `ReregisterAlarm` (fault `map_empty`); in
  the scenarios another alarm is normally registered.
- `vegas_rtt_check` needs no round longer than the filter's window. When the second
  estimate equals the first and is older than a quarter of the window, it and the
  third are replaced by whatever sample comes next (`windowed_filter.h:119`): a
  smaller sample of the same round may be forgotten in this way soon after it was
  taken, and the check fails once the best estimate expires.
- `scratch/tcp.cc:97` computes the bottleneck's queue as a product of two
  `uint32_t`. With `--de=100`, which `auto-sh/auto_expriment.sh` uses, it is
  10 000 000 * 600 = 6 000 000 000, which wraps to 1 705 032 704: 142 packets of
  1500 bytes instead of 500.
- `quic_flow_controller.h:28` says that `EnsureWindowAtLeast` "ensures the flow
  control window is at least |window_size|", but the code returns early when the
  *limit* of the window is that large. The connection's limit is 24 MB and it is
  asked for 1.5 times a stream window of at most 16 MB, so it never raises
  anything.
- "A FIN with zero data payload should not be flow control blocked."
  (`quic_stream.cc:1223`), yet `QuicSession::OnCanWrite` skips a stream that is
  blocked by its own window: a fin that could not be written at once waits for the
  next WINDOW_UPDATE. The model reaches this; `AllRead` holds all the same.
- No code holds a sender's window below `max_congestion_window_`, "the largest
  value" of both headers: Vegas reads it once, as the first threshold, Copa never.
- The QUIC program's "rtt" is the delay one way, the TCP program doubles it; the
  QUIC program's loss option of 10 is 10 %, its comment says 10/1000 %.
- The keys of both maps (`operator<` with *or*) happen to be ordered in the
  scenarios because ports of clients and servers ascend together.
- `scratch/quic.cc` applies the delay option to the bottleneck, `scratch/tcp.cc`
  to all links.

## Not modelled

ns-3, except as external steps. Of the QUIC library:

- encryption, the handshake, certificates and version negotiation; `Transfer` and
  `FlowControl` begin when the handshake is complete;
- the framer and the packing of several frames into a packet: a packet carries one
  frame, and a record stands for its bytes;
- a socket that is blocked, path MTU discovery, migration, idle timeout and
  blackhole detection; the simulator's socket takes every packet;
- several streams in a session, their priorities, resets and deadlines: the
  experiment opens one stream per connection and ends it by closing;
- partial reads, `StopReading` and flushing in the sequencer, and BLOCKED frames,
  to which the peer does nothing;
- the handshake packet number spaces, STOP_WAITING and ACK_FREQUENCY frames;
- the other congestion controllers, the pacer's rates and the RTT estimate.

Of the repository's own code: the client's trace, which writes one line per call;
the congestion control factory, clock, flags and utilities, which keep no state;
the set-up of links, queues and random loss, computed once from the options; the
hello and echo endpoints, which no program selects; addresses and routing;
scripts and plots. `PROJECT.json` lists each with its reason.

`src/` holds some 236 000 lines, nearly all of it the vendored QUIC library with
its HTTP, QPACK, TLS, test and tool code, of which the experiment runs a small
part. The models cover the repository's own adapter, senders and statistics and,
of the library, the path one stream takes; by lines that is a small fraction of
`src/`.

## What could be added

- `FlowControl` and `Transfer` in one composition, so that WINDOW_UPDATEs share
  packets, loss detection and acks with data; a blocked socket.
- A composition of `QuicSession` with `AlarmEngine`, so that the channel's alarm
  is a real alarm that can be due together with the library's.
- Proofs for `CopaSender` (`WindowAboveMinimum`, `ChecksHold` without
  wrap-around), `QuicSession` (`NoUseAfterFree`, `BytesConserved`) and `QuicFlow`
  (`LossIsExact`).
