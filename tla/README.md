# kyanos in TLA+

kyanos watches the network traffic of a host with eBPF probes and reports, for
every request and response, how long it took and where the time went.  This
directory holds TLA+ models of the agent, the TLC configurations that check
them, and proofs for TLAPS.  Paths below are relative to `src/`.

## The system

```
 traced processes, network stack
        |  eBPF probes: connect/accept, close, data calls, TLS calls, packets
        v
 perf buffers (one per CPU; an event may be lost, or overtaken)   bpf/events.go
        |  one goroutine per kind of event; Processor chosen by descriptor
        v
 Processor (n goroutines)                              agent/conn/processor.go
   delay queues (100 ms) for data, packet and first packet events
   connMap, ConnectionMap  <---- sweeper (15 s)        agent/conn/conntrack.go
   Connection4             <---- delayed OnClose, one goroutine per close
     stream buffers, parser, ReqQueue/RespQueue, Match
     KernEventStream: rings of kernel events per step
        |  recordChannel (unbuffered)
        v
 RecordsProcessor (1 s ticker)                  agent/conn/record_processor.go
        |  submitRecord: filters; ReceiveRecord: annotation from KernEventStream
        v
 recordsChannel (1000)  ->  Analyzer or watch renderer
```

### Inventory

| Part | State | Operations | What makes it hard |
|---|---|---|---|
| Ring buffer (`common/ringbuffer.go`) | array, two indices, full flag | Write, Read, Peek, ReadIndex, Insert, BinarySearch, DiscardBeforeIndex, Clear, ForEach | wrap around, full against empty |
| Kernel event stream (`agent/conn/kern_event_handler.go`) | a ring per step, TLS events per direction, discard marks | add, look up, mark, discard | two goroutines, duplicates, any order, full rings |
| Record annotation (`agent/analysis/stat.go`) | a record in progress | prepareEvents, ReceiveRecord | lookups in separate critical sections |
| Stream buffer (`agent/buffer/stream_buffer.go`) | buffers, timestamps by sequence number | Add, RemovePrefix, RemoveHead, FindTimestampBySeq | gaps, reordering, wrapping numbers, two bounds |
| Stream parsing (`agent/conn/conntrack.go`, `agent/protocol/http.go`) | a buffer and a queue per direction, time of progress | addDataToBufferAndTryParse, parseStreamBuffer | losses, stuck heads, resynchronisation |
| Matching (`agent/protocol/common.go`) | ReqQueue, RespQueue | matchByTimestamp | reordering, losses, pipelining |
| Records processor (`agent/conn/record_processor.go`) | waiting records | receive, submit at a tick | sorting by one time and ageing by another |
| Connection tracking (`agent/conn/conntrack.go`, `processor.go`) | two tables, Connection4 objects, delay queues | connect, infer, close, data events; OnClose; sweep | reuse of descriptors and addresses, three kinds of goroutine without a common lock |
| Packet probes (`bpf/pktlatency.bpf.c`) | sock_xmit_map, nat_flow_map | parse_skb and the probes that call it, tcp_destroy_sock | number of a packet against the number of a system call, wrap, NAT, addresses used again |
| Connection probes (`bpf/pktlatency.bpf.c`) | conn_info_map, sock_key_conn_id_map | exit of connect, accept, close; discovery by a data call; end of a socket | handlers run after the kernel has done the work, maps shared with the agent |
| Data probes (`bpf/pktlatency.bpf.c`, `bpf/data_common.h`) | conn_info: protocol, role, trace state, counters | eleven system calls in three groups | no lock, the agent replaces the element meanwhile |
| Protocol inference (`bpf/protocol_inference.h`) | the first bytes of the call before | a cascade of seven tests | order of the tests, messages read in two calls |
| TLS uprobes (`bpf/openssl.h`, `bpf/gotls.bpf.c`) | the TLS call of a thread | entry and return of read and write | system calls inside a TLS call |
| First packet processor (`agent/conn/first_packet_processor.go`) | a queue of 50 ms | resolve a key, hand over | the address pair may have another connection by then, blocking send |
| Other protocols (DNS, Kafka, MongoDB, MySQL, RocketMQ, Redis) | queues by stream id, parser state | ParseStream, Match | correlation ids used again, multi-packet answers |
| Analyzer (`agent/analysis/analysis.go`) | aggregators, samples | receive, harvest, stop | stop while others send |
| Uprobe manager, metadata, loader, rendering, command line | | | see "Not modelled" |

`PROJECT.json` lists every part with its status, and the hazards of the code at
the lines where they bite.

## Modules

| Module | Models | Checked by |
|---|---|---|
| `BoundedQueue` | what a ring promises: a sequence of at most `size` values and the answer of each call | |
| `RingBuffer` | `common/ringbuffer.go`; one action per method that changes the ring | `MCRingBuffer` |
| `RingBufferProofs` | theorems about `RingBuffer` | TLAPS |
| `KernEventStream` | `kern_event_handler.go`, over rings as bounded queues | through the next |
| `RecordAnnotation` | composes `KernEventStream` (Processor goroutine) with `ReceiveRecord` (RecordsProcessor goroutine) | `MCRecordAnnotation` |
| `KernEventStreamProofs` | lemmas about the operators of `KernEventStream` | TLAPS |
| `RecordAnnotationProofs` | theorems about `RecordAnnotation` | TLAPS |
| `StreamBuffer` | `stream_buffer.go`, methods as operators | through the next |
| `StreamParse` | composes `StreamBuffer` with the parse loop of one direction and a lossy, reordering source | `MCStreamParse` |
| `RecordPipeline` | matching, the record channel and the records processor | `MCRecordPipeline` |
| `ConnTrack` | eBPF maps, Processor, delayed closes, sweeper | `MCConnTrack` |
| `ConnTrackInvariant` | the inductive invariant of `ConnTrack`, and the steps that leave the tables alone | TLAPS |
| `ConnTrackTables` | the steps that change a table: a new object, its search, the sweeper | TLAPS |
| `ConnTrackProofs` | `AddConnection4`, and the theorems about `ConnTrack` | TLAPS |
| `PacketProbes` | the packet probes, the map of initial sequence numbers, NAT, the first packet processor | `MCPacketProbes` |
| `ConnProbes` | the probes of connect, accept, close and the end of a socket, filters, and the agent's OnClose and write-back | `MCConnProbes` |
| `ConnProbesProofs` | theorem about `ConnProbes` | TLAPS |
| `ProtocolInference` | `protocol_inference.h`, tests as operators on byte sequences | through the next but one |
| `DataProbes` | composes `ProtocolInference` with the data and TLS probes of one connection and the agent's write-back | `MCDataProbes` |
| `DataProbesProofs` | theorems about `DataProbes` and `ProtocolInference` | TLAPS |

How state and actions correspond to the code:

- **RingBuffer.** `data`, `start`, `end` and `isFull` are the struct's fields,
  and `result` is what the last call answered.  `Write`, `Read`, `Peek`,
  `ReadIndex`, `Insert`, `DiscardBeforeIndex` and `Clear` are actions, with
  indices from one below to two above the ring's; `BinarySearch` and the order
  in which `ForEach` visits the elements are operators.
- **RecordAnnotation.** `AddKernEvent` and `AddSslEvent` run under the stream's
  write lock, so each is one action.  `prepareEvents` takes the read lock anew
  for each lookup, so each lookup is an action, in the order of `LookupOrder`;
  `FinishRecord` writes the marks.  `setup`, fixed from the start, says whether
  the connection carries TLS and which steps the tracing options record; one run
  covers all setups.  The arithmetic of durations and sizes, which changes no state,
  is left out, and so are the events' own times, which nothing here depends on.  The
  bytes that a TLS event names are an input (`SslInputs`), and those of two events may
  overlap: `data_common.h:338` takes the length of the call's own system calls from a
  counter that every call of the connection advances.
- **StreamParse.** A byte is its position in the stream.  The parser is
  abstracted to where requests begin, where their header ends, where they end,
  and after which of its bytes a header that is cut is not malformed (`Cuts`):
  `http.ReadRequest` reads a line that is cut like a whole one, so that it reports
  the end of input only after the end of a line or past the colon of a header line,
  and answers malformed for everything else (`EndsEarly`).  A position is at least
  a token: no segment begins inside the name of a method, which would pass for
  another method.  `Receive` is
  `addDataToBufferAndTryParse` up to the loop, and every case of the loop of
  `parseStreamBuffer` is an action.  Losses and reordering happen in the source
  (`Lose`, `Hold`, `ReleaseHeld`), which stands for the perf buffers.
- **RecordPipeline.** `OnSyscallEvent` parses a message, runs the whole of
  `matchByTimestamp`, and leaves the records to be sent one by one; a send and
  its receive on the unbuffered channel are one action (`ReceiveRecord`).
  `Submit` is a tick.  The sort is not stable, so any order that agrees with the
  request times is possible.
- **ConnTrack.** An action of the Processor or of the sweeper ends where the
  goroutine next touches a table that the other one uses: a connect event is
  `NewConnFromEvent` (writes `ConnectionMap`), `FindConnection4Exactly` (reads
  `connMap`) and `AddConnection4` (writes both); the sweeper is `SweepVisit` per
  entry, then `SweepLoadAndDelete` and `SweepRemoveKeys` per entry to delete.
  Time is a counter; every kernel event has a time of its own, the kernel's
  clock and the agent's being one.  Connection events wait up to `ConnLag`, which may
  be longer than the `Delay` of data.  `applied`, `dropped` (data given up at once, or
  out of time when what was held back is flushed) and `removed` are history
  for the properties; no table depends on them, only a kernel event that
  was seen before is refused by what `applied` says.
- **PacketProbes.** One address pair, used by several connections in turn; `by`
  in an entry of `sock_xmit_map` says which of them stored it.  A packet passes
  the probes of `Path` one by one, and may be lost or sent again between any two.
  `connId` and `infos` are the two connection maps at this pair.  The bytes a
  data call has moved are in `pend` until its exit probe runs.  TCP itself
  (`Receive`, `Resend`) is external.
- **ConnProbes.** The kernel's part of a call (`Open`, `Close`, `Drop`) and the
  handler at its exit are separate steps.  A handler finds the socket under the
  descriptor as it is then (`submit_new_conn`, `create_conn_info_in_data_syscall`),
  writes the record (`update_conn_info`) and writes the entry (`update_sock_key`), in
  three steps: in between the descriptor may be closed and used again, the socket
  destroyed and its addresses used again, and the agent may run.
  `process_syscall_close` is two steps, since it reads
  the addresses from an element it has deleted, which another CPU may have used
  again (`reader`).  The agent's `UpdateConnectionTraceable` is a read and a
  write of each map.  `marks` is history that the properties use to name the
  races of the code: a connection is an `heir` if it began before everything of its
  forerunners was cleared away, `untidy` if something of it may outlive its close,
  `lost` if its entry may go before it; no action depends on the marks.
  One step each are: the lookup of a socket and the reading of its addresses; the two
  lookups a data call begins with, of the record and of the socket (a record written
  between them is overwritten, as one written just after them is); `tcp_destroy_sock`,
  which deletes the entry last, so that whoever takes the descriptor or the addresses
  before it is done is an heir anyway, unless a close deletes the entry first, all
  within one run of that probe; and `OnClose`, whose deletions do not depend on each
  other.  Addresses are used again only after `tcp_destroy_sock`.
- **DataProbes.** One connection.  The tables at the top give, for every system
  call and TLS call, the direction and the way its data is read.  A handler is a
  step that looks at the element and reports, and a step that advances the
  counter (`Count`); between them other threads run, and the agent may replace
  the element (`UpdateLookup`, `UpdateWrite`), so that the counter of a dead
  element is advanced.  The system calls under a TLS call move records in either
  direction, with plain or vectored calls (`MoveRecord`); a handshake with a call of
  its own, which has no probe, moves records while no thread has a call under way, and
  the first buffer of a vectored record call is not empty.  A TLS call that succeeds
  with no bytes is an event of length 0 for the probes that do not leave it out
  (`Returned`).  `blame` is history: what happened that the code does not guard against.

## Runs

The type invariant of a module is a conjunct of the invariant about its data
structure (`RingInv`, `OrderedAndBounded`, `BuffersWellFormed`,
`MessagesUsedOnce`, `KeysMatchTracked`, `TrackedIsNumbered`,
`DataReachesItsConnection`, `SeqIsPosition`).

Passing runs.  "Bounds" names what is small, and why the case of interest still
happens.

| Run | Shows | Bounds |
|---|---|---|
| `ring_buffer` | The ring implements the bounded queue under every sequence of calls; the full flag, the cleared slots and the binary search are right. | 4 slots, 4 values: every start index, wrap and fill level |
| `annotation` | For a plain connection, one with device events and a TLS one: rings stay ordered and bounded; lookups return exactly the overlapping events; a record gets every event recorded for it although the Processor adds and discards between lookups; discards take only what was marked; repeated reports move an interface's time back, never forward. | 3 sequence numbers (2 where events carry interfaces, or TLS events overlap), rings and slices of 2, 2 records: rings fill up and a second record follows a discard |
| `stream_loss` | If nothing was lost every complete request that follows a parsed one is parsed at once; the parse loop ends; after a loss the next request is found. | 2 requests of 6 bytes in segments of 1 to 3, so that one segment can end two requests; one loss |
| `stream_reorder` | Buffers stay disjoint, consecutive and within capacity; a byte keeps its time or, when the map of times was trimmed, has none; requests are parsed at most once, dated right, and in order unless overtaken. | 3 requests of 8 bytes across the wrap of 16 sequence numbers, two overtaken segments, one loss, capacity 5, `maxBytesGap` 4, 2 timestamps kept |
| `pipeline` | Where times can tell, every request that was answered is matched, and with its own response; no message is ever used twice; records are submitted once, only overtaken ones are dropped, none waits for ever. | 2 connections of 2 exchanges, pipelined or not, one loss, overtaking by up to two messages |
| `conn_reuse` | Data of a wanted protocol finds its own connection unless the connection was removed or the event that tells its protocol is late; open connections have their socket key; trace states reach the kernel; only closed connections are marked closed; no socket key is left behind. | 3 connections on 2 descriptors and 3 socket keys, so that both are used again and `prevConn` can have two entries; two data calls each, the first of which may leave the protocol unknown |
| `conn_drain` | Data kept until the protocol is known is applied once and in order; both tables are empty in the end. | 2 connections, connection events up to 3 ticks late, no delay of data |
| `packet_probes` | A packet event has the number the system call handlers give the same byte; a followed connection has its own initial numbers; what is made packet number 1 is the first packet and names the socket. | 2 connections in turn (1 behind a NAT), 2 bytes each way, 8 sequence numbers with handshakes that make the numbers wrap and pass 0, one packet on its way at a time |
| `conn_probes` | No map entry outlives its socket, unless a handler that found the socket writes it late; data and packets reach their own connection; no open connection is reported closed; nothing is left after a close; the port filter holds. | 2 threads, 2 descriptors, the two ends of one loopback connection (IPv4 and dual-stack, ports equal up to byte order), connections, write-backs and dropped descriptors 3 together; the port of one end, and servers with that of the other |
| `data_probes` | Numbers reported are stream positions; TLS events name their records; protocol and role are the true ones; what is recognised is reported; headers precede their body; no ciphertext is reported; the trace state follows the protocol. | 2 threads, 3 calls; each connection uses some of the eleven system calls or its library's TLS calls, and together they use all of them; HTTP, Kafka, MySQL and Redis in the clear and HTTP under three kinds of TLS library, with messages of real bytes, split where servers split them; records of a handshake, and TLS calls that return nothing, before, between and after them |

Runs that end with a counterexample, each with a finding in `PROJECT.json`:

- `submission_dropped`: the records processor cuts its slice after the last
  record that is old enough, and loses a slower record that sorts before it.
- `data_vec_header`: a Kafka server reads the length with `read`, the agent notes
  that the protocol is unknown, and the body is read with `readv`.  The vectored
  handler recognises Kafka, but asks `should_trace_conn`, which still says no;
  the flag for the header stays set and the next message gets a second header.

Every exception in a property is behaviour of the code, reached in its run:

- The sweeper collects descriptors of closed connections and deletes by
  descriptor later; a connection opened in between is removed while it is open
  (`WantedDataIsKept` and `KeysMatchTracked` are about the others).
- A connection that was first taken for unknown is recognised by a later call.  If
  the event that says so waits longer in its queue than the data, the Processor
  still takes the connection for unknown and gives the data up (`NewsBefore`).
- TLS events of two records may name the same bytes; the earlier record marks them,
  and the next add discards their kernel events (`Owed`, `Disjoint`).
- A ring all of whose events are below the discard mark keeps them, since
  `DiscardBeforeIndex` refuses an index equal to the size.
- `OnClose` deletes by address pair, and so takes the entries of a later
  connection with this pair, or of the other end on the same host
  (`swept`, `cleared`).
- The exit of a close deletes the record of a descriptor that another thread has
  got meanwhile (`early`, `raced`).
- After `EINPROGRESS` the peer's number is unknown, and an entry of an earlier
  connection, which `tcp_destroy_sock` deletes for one direction only, stays.  A
  number that is 0 counts as missing.
- The agent writes back a whole `conn_info`, and sets back what the probes
  changed since it was read (`update`); the counters have no lock (`overlap`);
  `sendmmsg` and `recvmmsg` count their first message only (`mmsg`).
- The remote port of an IPv6 `connect` is compared in network order.
- A Kafka response can pass for a request, and the role is then wrong.

Three more are worth knowing.
`ParsedPairsAreMatched` is about clients that wait for each response, and fails
when both a response and the next request are lost, since times are all that
`matchByTimestamp` has.  `BytesKeepTheirTime` lets a byte be without a time once
there were more segments than `maxTimestampEntries`; the map can also exceed
that number, since `Add` does not trim it when the buffer is empty.  `Resynchronises` is about
requests whose header came in one segment: of a stale head without a complete header
`parseStreamBuffer` keeps at most as many bytes as the last event has
(`conntrack.go:644`), so that a part of a split header can go with the bytes before it.
For the same reason `NothingLeftBehind` is about requests that follow one that was
parsed, or with which the capture began.

### Deadlock

Runs of `MCConnTrack` and `MCRecordPipeline` do not check for deadlock: their
clocks are bounded and at the bound, with nothing left to do, the model stops.
Neither do those of the probes: connections, calls and bytes are bounded, and a
traced process may stop.

### Fairness

- `StreamParse`: the loop of `parseStreamBuffer` runs to its end (weak fairness
  of `ParseStep`: it is one call in one goroutine); time passes; events of the
  other direction keep coming, since each of them runs the parser again and
  without any event no parser runs; an event held in a perf buffer is read in
  the end (strong fairness, as the Processor may be parsing at times).
- `RecordPipeline`: the two goroutines run, the ticker ticks and time passes.
  The traced program may stop at any time.
- `ConnTrack`: the Processor, the delayed closes and the sweeper run, and time
  passes.  Nothing is assumed of the traced process: `TablesDrain` is about
  behaviours in which its connections end.
- The models of the probes state safety only, and assume no fairness: a probe
  waits for nothing.

### Mutants

For each property of each passing run `PROJECT.json` names a mutant: a
definition changed the way a bug in the code would change it (in the modules,
the definitions under a comment that begins with "Mutant:").  With it TLC finds
the property violated.

## Proofs

`RingBufferProofs` proves for every `size` and every set of values:

- `RingSafe`: `Spec => []RingInv`, where `RingInv` is
  `TypeOK /\ FullMeansClosed /\ OnlyLiveSlotsHoldValues`.
- `RingImplementsQueue`: `Spec => ImplementsBoundedQueue`, so every method has
  the effect and the answer of the bounded queue's.

The assumptions are that `size` is a positive number and that nil is not one of
the values.  The inductive invariant is the
type invariant together with the two statements about the shape of the ring:
the indices agree with the number of live slots, and a slot that is not live
holds nil.  Neither is inductive alone: `Insert` shifts slots and is right only
if the live slots are the ones between the indices.  The refinement maps the ring
to the sequence of its elements from `start` on.  Every method has a lemma that
gives this sequence after the call; the lemmas about indices modulo `size` are
stated once, with `%` replaced by a comparison and a subtraction.

`DataProbesProofs` proves about the cascade, for every payload, length and history:

- `OnlyTraced`: with one protocol asked for, no other is ever inferred.
- `BinaryRocketMQIsMissed`: what passes for RocketMQ has the JSON form.  The code
  of the binary form is 16 bits wide and converted with `bpf_ntohl`, of which 16
  bits are 0, so the test `request_code < 10` always refuses it.

About the data probes it proves `StateMatches`, `Spec => []StateMatchesProtocol`, for
any threads, calls, messages and wanted protocols.  The property speaks only of
states in which the agent is idle.  The inductive invariant therefore says what
the agent will have written in the end (`Due`): the state for the last event if
there are events, else the last step of its plan, else what it has written; and
that this is the state for the protocol in the element.  While the agent
writes, its view is ahead of the map by the first step of its plan, and the copy
it holds already has this state (`Writing`): this is what makes the map agree with
the agent again once the write is done.

Two more theorems of `DataProbesProofs` are about the counters, for any threads,
calls, messages and libraries: `ReportedAtPosition`, `Spec => []SeqIsPosition`, and
`EventNamesRecords`, `Spec => []TlsRange`.  The inductive invariant `PInv` says that
unfinished calls of a direction have moved disjoint ranges of it (`Apart`); that,
unless the history names something that upset the counters, a direction has one
unfinished call and the counter stands where it began (`Exact`); and that the
system calls inside a TLS call lie in its range (`Inside`, `Records`), while one of a
handshake without a probe has the connection to itself (`Alone`).  None of this
is inductive without a bound that holds even when the counters are upset, since the
element an update brings back may hold an old count: no count in the map, in the
agent's copy or in a handler's hand exceeds the number of bytes whose calls are
finished (`Behind`).  The bound is a cardinality (`Settled`), so that it needs no sum
over calls.  The assumptions say that messages and records are sequences of bytes,
and that a Kafka or MySQL request has its four bytes of header.

`RecordAnnotationProofs` proves for any steps, setups, sequence numbers, times, sizes
of rings and numbers of records:

- `StreamStaysOrdered`: `Spec => []OrderedAndBounded`.
- `LookupIsExact`: `Spec => []FindsExactlyOverlaps`.  The loop of
  `FindEventsBySeqAndLen` stops at the first event that lies beyond the range; on
  an ordered ring nothing that overlaps comes after it.
- `DiscardsOnlyMarked`: `Spec => UnmarkedEventsStay`, an action property.
- `AnnotationIsComplete`: `Spec => []AnnotatedWithAllOwed`.

The last one needs the most.  Between the lookups of a record the Processor adds
events, and every add discards below the marks, so the marks must stay below the
record's bytes: they are where bytes of finished records end (`Marks`), and the next
record begins there or later.  With TLS the marks count cipher text and the messages
plain text.  Where the bytes that TLS events name do not overlap (`Disjoint`), the
marks are still below them; where they do, the record is owed the events above the
marks.  What a record is owed is in its ring as long as it has not been looked up, and
among what was found afterwards (`OwedIsKept`); and the lookups are made in their order
(`InOrder`), as the range of a TLS record is known only after the first two.
`KernEventStreamProofs` has the lemmas about one ring: where a binary search leads, and
what insertion, discard and the update of an interface's time do to an ordered ring.

`ConnTrackProofs` proves for any descriptors, addresses, protocols, delays and
numbers of connections and events:

- `ClosedMeansClosed`: `Spec => []ClosedOnlyAfterClose`.
- `TraceReachesKernel`: `Spec => []TraceStateReachesKernel`.
- `KeysMatch`: `Spec => []KeysMatchTracked`.

The invariant, `IInv` of `ConnTrackInvariant`, has to say what the three kinds of
goroutine may find when they go on after the others ran.  A descriptor's events
are about its connections in their order (`EventsInOrder`) and later than those the
objects were made from (`EventsToCome`): a late event never finds an object of a
later connection in its place.  Between `NewConnFromEvent` and `AddConnection4` the
Processor has the newest object in hand, which only the socket table has, and the
sweeper may meanwhile have taken the object that is to be replaced (`InHand`, `Lost`).
And every socket key leads to an object that a descriptor, the Processor or the
sweeper still reaches, itself or through `prevConn` (`Keys`, `KeysHeld`): this is what
becomes of `KeysMatchTracked` in the middle of a removal.  The proofs go by what a
step leaves of the tables (`Settles`, `Added`, `Replaced`), not by its text.

`ConnProbesProofs` proves `EntriesEndWithSockets`, `Spec => EntriesHaveSockets`, an
action property, for any threads, descriptors, addresses, filters and bounds: a step
that leaves an entry without a socket is the last one of a handler whose socket went
after it was found.  The strengthening is that an open descriptor refers to an open
connection that knows its descriptor, that the addresses a handler has read are those
of the connection it found as long as that is alive (`FoundIsAlive`), and that
connections are numbered without gaps (so a new one replaces none).  Most steps only
mark connections and add no entry (`QuietKeeps`); the others are the writing of an
entry, a new connection, a close, and the end of a socket, which deletes the entry of
its key.

Only model-checked:

- Liveness under fairness: `ParsingEnds`, `Resynchronises`, `RecordsLeave`,
  `TablesDrain`.  TLAPS has no rules for it.
- What a loop or a recursion computes: `SearchFindsRank` (the binary search),
  `AppliedInOrder`, `AppliedToItsConnection` and `WantedDataIsKept` (events held back and
  applied one by one, `Applied` and `SelectSeq`), the properties of `StreamParse`
  (the buffers are a fold over what is fused) and those of `RecordPipeline` (the
  loop of `matchByTimestamp`).  They need induction over data.
- `InferredIsSpoken`, `KnownIsReported`, `HeaderBelongsToBody` and `NoCiphertext`
  are about the bytes of the traffic of the instance; for other bytes they need
  not hold, since the tests of the cascade are heuristics.
- `WantedPortsOnly` is about the ports of the instance: with other filters a port
  can equal the swapped form of another.
- The other properties of `ConnProbes` and those of `PacketProbes`.

## Not modelled

- Payload parsing in the agent (pure functions of bytes): its result is an input.
- The generated headers (`vmlinux*.h`), by far the most lines of C in the
  repository, are declarations of kernel types; the `openssl_*.bpf.c` files are
  tables of structure offsets.  Neither has behaviour.
- Rendering, command line, container metadata, ELF and DWARF reading, loading of
  eBPF programs: I/O without a protocol of their own.
- In the connection probes: the process filter (`match_trace_tgid`), filters on
  local ports and remote addresses, a local port of 0, processes that begin and
  end; unconnected sockets (`process_implicit_conn`), for which the record of the
  first peer stays under the descriptor; a close of an accepted descriptor before
  accept returns; arguments left over when an exit probe was missed; and the
  per-CPU record that is not cleared between two discoveries.
- In the data probes: calls with `MSG_PEEK` and out-of-band data, for which no
  arguments are stored; the return of a nested OpenSSL call reads the length from
  an element it has deleted; payloads copied in chunks.
- In the packet probes: link and IP headers, segments split or merged on the way.
- In `ConnTrack`: the limit of the delay queues, connection
  events that overtake each other, the trace state "other".
- In `RecordAnnotation`: a connection that switches to TLS after plain records.
- In `StreamParse`: the direction whose role is not known yet, and responses.

## Plan

1. The limit of the Processor's delay queues; the blocking send of the first
   packet processor; connection events that overtake each other.
2. Unconnected sockets and the process filter in `ConnProbes`.
3. Role inference and `resetParseProgress` in `StreamParse`; responses.
4. Matchers by stream id: DNS, Kafka, RocketMQ, MongoDB; MySQL's commands.
5. Analyzer, renderer and stop of the agent.
6. Uprobe manager.
7. Proofs: lemmas on `StreamBuffer` (fusing keeps bytes, `BuffersWellFormed`);
   `MessagesUsedOnce`; `NumbersAgree` of the packet probes;
   `PacketsReachTheirConnection` of the connection probes.
