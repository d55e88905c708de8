----------------------------- MODULE DataProbes -----------------------------
(***************************************************************************)
(* The data probes of bpf/pktlatency.bpf.c, bpf/data_common.h,             *)
(* bpf/openssl.h and bpf/gotls.bpf.c, for the bytes of one connection that *)
(* the probes found in mid-life.                                           *)
(*                                                                         *)
(* The threads of the process move messages over the connection, in the    *)
(* open or by way of a TLS library whose calls make system calls of their  *)
(* own.  The handler of a returning call learns the protocol, reports the  *)
(* bytes with their position in the stream, and counts them, all in the    *)
(* element of conn_info_map it has looked up.  The agent hears of the      *)
(* protocol and writes its trace state into that element by replacing it.  *)
(***************************************************************************)
EXTENDS ProtocolInference, FiniteSets

CONSTANTS Threads,
          Traffic,     \* connections: [proto, request, response, role, lib, calls]
          Cipher,      \* a TLS record
          Wanted,      \* the protocols the agent wants
          Traced,      \* the protocol the probes try, "unset" for all
          MaxCalls     \* bound on the calls of the process

\* The system calls: the direction of the bytes, and what the handler of the return
\* does with the arguments that the handler of the entry has put aside.  "buf" is
\* process_syscall_data, "vec" is process_syscall_data_vecs, "mmsg" is the same for the
\* first message of several.  (A call that only peeks puts nothing aside.)
recvfrom == [dir |-> "in", kind |-> "buf"]
read == [dir |-> "in", kind |-> "buf"]
recvmmsg == [dir |-> "in", kind |-> "mmsg"]
recvmsg == [dir |-> "in", kind |-> "vec"]
readv == [dir |-> "in", kind |-> "vec"]
sendfile64 == [dir |-> "out", kind |-> "sendfile"]
sendto == [dir |-> "out", kind |-> "buf"]
write == [dir |-> "out", kind |-> "buf"]
sendmmsg == [dir |-> "out", kind |-> "mmsg"]
sendmsg == [dir |-> "out", kind |-> "vec"]
writev == [dir |-> "out", kind |-> "vec"]

ReadCalls == {recvfrom, read, recvmmsg, recvmsg, readv}
WriteCalls == {sendfile64, sendto, write, sendmmsg, sendmsg, writev}

\* The calls of the TLS libraries: OpenSSL with and without the offset of the
\* descriptor, and crypto/tls of Go.
SSL_read == [lib |-> "nested", dir |-> "in"]
SSL_write == [lib |-> "nested", dir |-> "out"]
SSL_read_offset == [lib |-> "offset", dir |-> "in"]
SSL_write_offset == [lib |-> "offset", dir |-> "out"]
tls_conn_write == [lib |-> "go", dir |-> "out"]
tls_conn_read == [lib |-> "go", dir |-> "in"]

TlsCalls == {SSL_read, SSL_write, SSL_read_offset, SSL_write_offset, tls_conn_write, tls_conn_read}

ASSUME DataProbesAssumption ==
    /\ \A c \in Traffic : /\ c.role \in {"client", "server"}
                          /\ c.lib \in {"none", "nested", "offset", "go"}
                          /\ c.calls \subseteq ReadCalls \cup WriteCalls
                          /\ c.request \in Seq(0 .. 255) /\ c.response \in Seq(0 .. 255)
                          /\ c.proto \in {"kafka", "mysql"} => Len(c.request) >= 4
    /\ Cipher \in Seq(0 .. 255)
    /\ MaxCalls \in Nat

Dirs == {"out", "in"}

VARIABLES conn,     \* what the connection carries
          moved,    \* bytes moved so far
          part,     \* what the next call of a direction begins with
          calls,    \* calls made so far
          call,     \* the system call, or the return of a TLS call, of a thread
          tls,      \* the TLS call of a thread
          info,     \* the element of conn_info_map
          events,   \* protocol events on their way to the agent
          agent,    \* the agent's view and its update under way
          blame,    \* what has gone on that upsets the counters
          known     \* whether some call was recognised

process == <<conn, moved, part, calls>>
probes == <<call, tls, info, events>>
history == <<blame, known>>
vars == <<process, probes, agent, history>>

Idle == [stage |-> "idle", dir |-> "out", kind |-> "buf", part |-> "msg", at |-> 0,
         buf |-> << >>, first |-> 0, held |-> TRUE, seq |-> 0, report |-> "none", hdr |-> << >>,
         from |-> 0, len |-> 0, due |-> FALSE]
NoTls == [on |-> FALSE, dir |-> "out", len |-> 0, at |-> 0]
NewInfo == [protocol |-> "unset", role |-> "unknown", no_trace |-> "unset", ssl |-> FALSE,
            bytes |-> [d \in Dirs |-> 0], ssl_bytes |-> [d \in Dirs |-> 0],
            prev |-> NoPrev, prepend |-> FALSE]
NoAgent == [tracable |-> "unset", role |-> "unknown", plan |-> << >>,
            busy |-> FALSE, copy |-> NewInfo]

Init ==
    /\ conn \in Traffic
    /\ moved = [d \in Dirs |-> 0]
    /\ part = [d \in Dirs |-> "msg"]
    /\ calls = 0
    /\ call = [t \in Threads |-> Idle]
    /\ tls = [t \in Threads |-> NoTls]
    /\ info = NewInfo
    /\ events = << >>
    /\ agent = NoAgent
    /\ blame = {}
    /\ known = FALSE
-----------------------------------------------------------------------------
(* The process.                                                            *)

Message(d) == IF (d = "out") = (conn.role = "client") THEN conn.request ELSE conn.response

\* The peers of these protocols read the header and the body of a request apart.
Splits(d) == conn.proto \in {"kafka", "mysql"} /\ d = "in" /\ conn.role = "server"

Header(buf) == SubSeq(buf, 1, 4)
Body(buf) == SubSeq(buf, 5, Len(buf))

Piece(d, p) ==
    CASE p = "msg" -> Message(d)
      [] p = "header" -> Header(Message(d))
      [] p = "body" -> Body(Message(d))

Overlaps(t, d) == \E u \in Threads \ {t} : call[u].stage # "idle" /\ call[u].dir = d

\* The lengths the first of the buffers of a vectored call may have.
Firsts(kind, buf) ==
    IF kind \in {"vec", "mmsg"} THEN {0, Len(buf)} \cup ({4} \cap 1 .. Len(buf)) ELSE {Len(buf)}

Begin(t, d, kind, p, buf, first, total) ==
    /\ call[t] = Idle
    /\ calls < MaxCalls
    /\ calls' = calls + 1
    /\ moved' = [moved EXCEPT ![d] = @ + total]
    /\ call' = [call EXCEPT ![t] =
          [Idle EXCEPT !.stage = "exit", !.dir = d, !.kind = kind, !.part = p,
                       !.at = moved[d], !.buf = buf, !.first = first]]
    /\ blame' = blame \cup (IF Overlaps(t, d) THEN {"overlap"} ELSE {})
                      \cup (IF total # Len(buf) THEN {"mmsg"} ELSE {})
                      \cup (IF tls[t].on /\ tls[t].dir # d THEN {"mixed"} ELSE {})
                      \cup (IF kind \in {"vec", "mmsg"} /\ ~known THEN {"vec"} ELSE {})
    /\ UNCHANGED <<conn, tls, info, events, agent, known>>

\* A call moves a message, the header of one, its body, or, with sendmmsg and
\* recvmmsg, two messages.
Move(t, s, p) ==
    LET d == s.dir
        kind == s.kind
        buf == Piece(d, p)
    IN
    /\ conn.lib = "none"
    /\ kind = "mmsg" => p = "msg"
    /\ p \in (IF part[d] = "body" THEN {"body"}
              ELSE IF Splits(d) THEN {"msg", "header"} ELSE {"msg"})
    /\ part' = [part EXCEPT ![d] = IF p = "header" THEN "body" ELSE "msg"]
    /\ \E first \in Firsts(kind, buf) :
          Begin(t, d, kind, p, buf, first, IF kind = "mmsg" THEN 2 * Len(buf) ELSE Len(buf))

\* A call inside a TLS call moves a record.  It may go the other way, in a handshake.
\* A handshake with a call of its own, which has no probe, is made while no thread uses
\* the connection.  The first buffer of a vectored call is not empty.
MoveRecord(t, d, kind) ==
    /\ conn.lib # "none"
    /\ tls[t].on \/ \A u \in Threads : ~tls[u].on /\ call[u] = Idle
    /\ \E first \in Firsts(kind, Cipher) \ {0} :
          Begin(t, d, kind, "msg", Cipher, first, Len(Cipher))
    /\ UNCHANGED part
-----------------------------------------------------------------------------
(* The handlers of system calls.                                           *)

Role(d, type) == IF (d = "out") # (type = "response") THEN "client" ELSE "server"

\* infer_protocol, and what is done with its result: the new element, and whether
\* the protocol has changed.
Infer(i, d, buf, total) ==
    LET m == infer_protocol(buf, total, i.prev, Traced)
        changed == m.protocol # i.protocol
        prepend == /\ m.protocol = "kafka" /\ i.protocol = "unknown"
                   /\ kafka_prev(buf, total, i.prev)
    IN [changed |-> changed,
        info |-> [i EXCEPT !.protocol = m.protocol,
                           !.role = IF changed /\ @ = "unknown" /\ m.type # "unknown"
                                    THEN Role(d, m.type) ELSE @,
                           !.prev = NextPrev(buf, @),
                           !.prepend = prepend]]

Untold(i) == i.protocol \in {"unset", "unknown"}
Same(i) == [changed |-> FALSE, info |-> i]

should_trace_conn(i) == i.protocol # "unknown" /\ i.no_trace \in {"unset", "traceable"}

\* Mutant: without the second condition.
ReportsTraceable(r) ==
    /\ r.info.protocol # "unknown"
    /\ r.changed \/ r.info.no_trace \in {"unset", "traceable"}

\* The condition of process_syscall_data_with_conn_info.
Reports(r) ==
    /\ r.info.protocol # "unknown"
    /\ r.changed \/ r.info.no_trace \in {"unset", "traceable", "protocol_unknown"}

\* What a handler leaves behind: the element, the event of a changed protocol, and
\* the call, about to be counted.
Handled(t, r, c) ==
    /\ info' = r.info
    /\ events' = IF r.changed
                 THEN Append(events, [protocol |-> r.info.protocol, role |-> r.info.role])
                 ELSE events
    /\ known' = (known \/ ~Untold(r.info))
    /\ call' = [call EXCEPT ![t] = [c EXCEPT !.due = known']]
    /\ UNCHANGED <<process, agent, blame>>

\* propagate_fd_to_uprobe: the bytes count for the TLS call they are moved in.  A
\* call of the Go library is known for one at once.
propagate_fd_to_uprobe(t) ==
    tls' = [tls EXCEPT ![t].len = IF tls[t].on /\ conn.lib \in {"nested", "go"}
                                  THEN @ + Len(call[t].buf) ELSE @]

Looked(t) == [info EXCEPT !.ssl = @ \/ (tls[t].on /\ conn.lib = "go")]

\* Mutant: the bytes of a TLS connection too.
WithDataAlways(i) == TRUE

WithData(i) == ~i.ssl

\* What is reported: nothing, the length, or the bytes, with a header if one is due.
Data(c, r, reports, first) ==
    [c EXCEPT !.stage = "count", !.seq = info.bytes[c.dir] + 1,
              !.report = IF ~reports THEN "none" ELSE IF WithData(r.info) THEN "data" ELSE "bare",
              !.hdr = IF reports /\ WithData(r.info) /\ r.info.prepend /\ first > 0
                      THEN r.info.prev.prev_buf ELSE << >>]

\* Mutant: the header stays for the next report.
UnprependedNever(r, reports) == r

Unprepended(r, reports) ==
    IF reports /\ WithData(r.info) THEN [r EXCEPT !.info.prepend = FALSE] ELSE r

process_syscall_data(t) ==
    LET c == call[t]
        i == Looked(t)
        r == IF ~i.ssl /\ Untold(i) THEN Infer(i, c.dir, c.buf, Len(c.buf)) ELSE Same(i)
    IN
    /\ c.stage = "exit" /\ c.kind = "buf"
    /\ propagate_fd_to_uprobe(t)
    /\ Handled(t, Unprepended(r, Reports(r)), Data(c, r, Reports(r), Len(c.buf)))

\* Only the first buffer is tried, if it is not empty.
process_syscall_data_vecs(t) ==
    LET c == call[t]
        i == Looked(t)
        r == IF ~i.ssl /\ Untold(i) /\ c.first # 0
             THEN Infer(i, c.dir, SubSeq(c.buf, 1, c.first), Len(c.buf)) ELSE Same(i)
        reports == i.ssl \/ should_trace_conn(r.info)
    IN
    /\ c.stage = "exit" /\ c.kind \in {"vec", "mmsg"}
    /\ propagate_fd_to_uprobe(t)
    /\ Handled(t, Unprepended(r, reports), Data(c, r, reports, c.first))

process_syscall_sendfile(t) ==
    LET c == call[t] IN
    /\ c.stage = "exit" /\ c.kind = "sendfile"
    /\ Handled(t, Same(info), [Data(c, Same(info), should_trace_conn(info), 0) EXCEPT
                                  !.report = IF @ = "data" THEN "bare" ELSE @])
    /\ UNCHANGED tls

\* Mutant: what is not reported is not counted.
AddedIfReported(base, c) == IF c.report = "none" THEN base ELSE base + Len(c.buf)

Added(base, c) == base + Len(c.buf)

\* The counter of the element that was looked up.  It is read, added to and written
\* without a lock, so that the sum may be with what was read for the position.
Count(t) ==
    LET c == call[t] IN
    /\ c.stage = "count" /\ c.kind # "tls"
    /\ \E base \in {info.bytes[c.dir], c.seq - 1} :
          info' = IF c.held THEN [info EXCEPT !.bytes[c.dir] = Added(base, c)] ELSE info
    /\ call' = [call EXCEPT ![t] = Idle]
    /\ UNCHANGED <<process, tls, events, agent, history>>
-----------------------------------------------------------------------------
(* The probes of the TLS libraries.                                        *)

\* The entry probes, after a handshake.  With "offset" the descriptor is known and the
\* connection marked at once.
TlsEnter(t, s) ==
    LET d == s.dir IN
    /\ conn.lib = s.lib
    /\ call[t] = Idle /\ ~tls[t].on
    /\ \A u \in Threads : tls[u].on => tls[u].dir # d
    /\ \A u \in Threads : call[u] = Idle \/ tls[u].on \/ call[u].kind = "tls"
    /\ calls < MaxCalls
    /\ calls' = calls + 1
    /\ tls' = [tls EXCEPT ![t] = [on |-> TRUE, dir |-> d, len |-> 0, at |-> moved[d]]]
    /\ info' = [info EXCEPT !.ssl = @ \/ s.lib = "offset"]
    /\ UNCHANGED <<conn, moved, part, call, events, agent, history>>

\* Mutant: the records that come next.
SyscallSeqNext(d, len) == info.bytes[d] + 1

SyscallSeq(d, len) == info.bytes[d] + 1 - len

\* What a TLS call that succeeds may return.  The probes by offsets leave out a count
\* of 0, those of Go and of the calls that return their count by reference do not.
Returned(d) == {Message(d)} \cup (IF conn.lib = "offset" THEN {} ELSE {<< >>})

\* The return probes: process_ssl_data, and its like for Go.  seq is the position of the
\* plain bytes, from and len are the records that carried them.  There is no event for
\* no bytes.
process_ssl_data(t, buf) ==
    LET d == tls[t].dir
        i == [info EXCEPT !.ssl = TRUE]
        r == IF Untold(i) THEN Infer(i, d, buf, Len(buf)) ELSE Same(i)
        len == tls[t].len
    IN
    /\ tls[t].on /\ call[t] = Idle
    /\ tls' = [tls EXCEPT ![t] = NoTls]
    /\ Handled(t, r, [Idle EXCEPT !.stage = "count", !.kind = "tls", !.dir = d, !.buf = buf,
                                  !.report = IF Reports(r) /\ buf # << >> THEN "data" ELSE "none",
                                  !.at = tls[t].at,
                                  !.seq = info.ssl_bytes[d] + 1,
                                  !.from = SyscallSeq(d, len), !.len = len])

\* A TLS call that fails, or whose count is left out.
TlsFail(t) ==
    /\ tls[t].on /\ call[t] = Idle
    /\ tls' = [tls EXCEPT ![t] = NoTls]
    /\ UNCHANGED <<process, call, info, events, agent, history>>

CountTls(t) ==
    LET c == call[t] IN
    /\ c.stage = "count" /\ c.kind = "tls"
    /\ info' = IF c.held THEN [info EXCEPT !.ssl_bytes[c.dir] = @ + Len(c.buf)] ELSE info
    /\ call' = [call EXCEPT ![t] = Idle]
    /\ UNCHANGED <<process, tls, events, agent, history>>
-----------------------------------------------------------------------------
(* The agent.                                                              *)

TraceState(p) ==
    IF p \in Wanted THEN "traceable"
    ELSE IF p = "unknown" THEN "protocol_unknown" ELSE "protocol_not_matched"

\* Mutant: the role has the last word.
PlanRoleLast(ev, newRole) ==
    IF newRole THEN <<TraceState(ev.protocol), "traceable">> ELSE <<TraceState(ev.protocol)>>

\* The states the agent goes through: that of onRoleChanged, then the protocol's.
Plan(ev, newRole) ==
    IF newRole THEN <<"traceable", TraceState(ev.protocol)>> ELSE <<TraceState(ev.protocol)>>

\* The agent takes in a protocol event.
ProtocolInfer ==
    LET ev == Head(events)
        newRole == agent.role = "unknown" /\ ev.role # "unknown"
    IN
    /\ events # << >>
    /\ agent.plan = << >>
    /\ events' = Tail(events)
    /\ agent' = [agent EXCEPT !.role = IF newRole THEN ev.role ELSE @,
                              !.plan = Plan(ev, newRole)]
    /\ UNCHANGED <<process, call, tls, info, history>>

\* UpdateConnectionTraceable: nothing if the state is the same, otherwise the
\* element is read.
UpdateLookup ==
    LET state == Head(agent.plan) IN
    /\ agent.plan # << >> /\ ~agent.busy
    /\ IF agent.tracable = state
       THEN agent' = [agent EXCEPT !.plan = Tail(@)]
       ELSE agent' = [agent EXCEPT !.tracable = state, !.busy = TRUE,
                                   !.copy = [info EXCEPT !.no_trace = state]]
    /\ UNCHANGED <<process, probes, history>>

\* The element is replaced by the copy.  What handlers add to the old one is lost.
UpdateWrite ==
    /\ agent.busy
    /\ info' = agent.copy
    /\ call' = [t \in Threads |-> [call[t] EXCEPT !.held = call[t].stage # "count"]]
    /\ agent' = [agent EXCEPT !.plan = Tail(@), !.busy = FALSE, !.copy = NewInfo]
    /\ blame' = IF \/ [info EXCEPT !.no_trace = agent.copy.no_trace] # agent.copy
                   \/ \E t \in Threads : call[t].stage = "count"
                THEN blame \cup {"update"} ELSE blame
    /\ UNCHANGED <<process, tls, events, known>>
-----------------------------------------------------------------------------
Handler(t) ==
    \/ process_syscall_data(t)
    \/ process_syscall_data_vecs(t)
    \/ process_syscall_sendfile(t)
    \/ Count(t)
    \/ \E buf \in Returned(tls[t].dir) : process_ssl_data(t, buf)
    \/ CountTls(t)

Process(t) ==
    \/ \E s \in conn.calls, p \in {"msg", "header", "body"} : Move(t, s, p)
    \/ \E d \in Dirs, kind \in {"buf", "vec"} : MoveRecord(t, d, kind)
    \/ \E s \in TlsCalls : TlsEnter(t, s)
    \/ TlsFail(t)

Agent == ProtocolInfer \/ UpdateLookup \/ UpdateWrite

Next == Agent \/ \E t \in Threads : Process(t) \/ Handler(t)

Spec == Init /\ [][Next]_vars
-----------------------------------------------------------------------------
(* Properties.                                                             *)

\* The variables keep their types, and no counter is ahead of the bytes moved.
TypeOK ==
    /\ moved \in [Dirs -> Nat]
    /\ \A d \in Dirs : info.bytes[d] \in 0 .. moved[d]
    /\ \A t \in Threads : call[t].stage \in {"idle", "exit", "count"}
    /\ blame \subseteq {"overlap", "mmsg", "mixed", "update", "vec"}

Reported(t) == call[t].stage = "count" /\ call[t].report # "none"

\* The variables keep their types.  The sequence number reported for a system call
\* is the position of its bytes in
\* the stream, reported or not what came before them.  The exceptions are two calls
\* of one direction at a time, sendmmsg and recvmmsg of several messages, and an
\* element replaced by the agent while a handler was at work.
SeqIsPosition ==
    /\ TypeOK
    /\ blame \subseteq {"mixed", "vec"} =>
        \A t \in Threads : Reported(t) /\ call[t].kind # "tls" => call[t].seq = call[t].at + 1

\* A TLS event names the records that were moved in the TLS call, and no others:
\* syscall_seq is the first of them and syscall_len their length.  (A call in which
\* records went both ways is excepted; the probes that go by offsets name none.)
TlsRange ==
    blame \subseteq {"vec"} =>
        \A t \in Threads : Reported(t) /\ call[t].kind = "tls" /\ conn.lib # "offset" =>
            call[t].from = call[t].at + 1 /\ call[t].from + call[t].len = moved[call[t].dir] + 1

\* The protocol a connection is taken for is the one it speaks: no test that comes
\* earlier in infer_protocol claims its requests, its responses, a body without its
\* header, the first buffer of a vectored call, or TLS records.
\* The role learnt from a message is the true one, whichever of the two directions
\* is seen first.  (A Kafka response can pass for a request.)
InferredIsSpoken ==
    /\ info.protocol \in {"unset", "unknown", conn.proto}
    /\ conn.proto # "kafka" => info.role \in {"unknown", conn.role}

\* Once a wanted protocol is recognised, no bytes go unreported, whatever the agent
\* has written about the connection so far: it may still say that the protocol is
\* unknown.  (Vectored calls and sendfile do not have this, see HeaderBelongs.)
KnownIsReported ==
    conn.proto \in Wanted /\ "update" \notin blame =>
        \A t \in Threads : call[t].due /\ call[t].kind \in {"buf", "tls"} /\ call[t].buf # << >> =>
            call[t].report # "none"

\* A length header is put before the body that it came with, and before no other
\* bytes: it is set when Kafka has just been recognised from a body whose header
\* was read before.
HeaderBelongs ==
    \A t \in Threads : call[t].hdr # << >> =>
        call[t].part = "body" /\ call[t].hdr = Header(Message(call[t].dir))

\* The same, if no vectored call came before the protocol was known.
HeaderBelongsToBody == "vec" \notin blame => HeaderBelongs

\* The records of a TLS connection are never reported as the bytes of a protocol,
\* not even those of a handshake or of the first TLS call, which come before a probe
\* marks the connection, read or written with plain or vectored calls.
NoCiphertext ==
    \A t \in Threads : call[t].report = "data" => call[t].kind = "tls" \/ conn.lib = "none"

\* When the agent has nothing left to do, the trace state in the map is that of the
\* protocol in the map, in whatever order roles and protocols were learnt.
StateMatchesProtocol ==
    /\ events = << >> /\ agent.plan = << >>
    /\ "update" \notin blame
    /\ info.protocol # "unset"
    => info.no_trace = TraceState(info.protocol)
=============================================================================
