-------------------------- MODULE DataProbesProofs --------------------------
(***************************************************************************)
(* What infer_protocol answers for every buffer, previous header and       *)
(* protocol asked for; and that the trace state that the agent writes and  *)
(* the protocol that the probes have learnt agree in the end, for any      *)
(* number of threads and calls, any traffic and any set of wanted          *)
(* protocols (StateMatchesProtocol); and that what is reported names its   *)
(* place in the stream (SeqIsPosition, TlsRange).                          *)
(***************************************************************************)
EXTENDS DataProbes, FiniteSetTheorems, TLAPS

-----------------------------------------------------------------------------
(* Protocol inference.                                                     *)

Protocols == {"http", "mongo", "mysql", "rocketmq", "kafka", "dns", "redis", "unset", "unknown"}

\* The cascade of infer_protocol has seven tests.
LEMMA CascadeDomain ==
    /\ DOMAIN Cascade = 1 .. 7
    /\ \A i \in 1 .. 7 : Cascade[i] \in Protocols \ {"unset", "unknown"}
BY DEF Cascade, Protocols

\* One of the tests that hold comes first.
LEMMA HasFirst ==
    ASSUME NEW found \in SUBSET (1 .. 7), found # {}
    PROVE  \E i \in found : \A j \in found : i <= j
<1>1. \A j \in found : j \in {1, 2, 3, 4, 5, 6, 7}
    OBVIOUS
<1>2. CASE 1 \in found
    BY <1>1, <1>2
<1>3. CASE 1 \notin found /\ 2 \in found
    BY <1>1, <1>3
<1>4. CASE 1 \notin found /\ 2 \notin found /\ 3 \in found
    BY <1>1, <1>4
<1>5. CASE 1 \notin found /\ 2 \notin found /\ 3 \notin found /\ 4 \in found
    BY <1>1, <1>5
<1>6. CASE found \subseteq {5, 6, 7} /\ 5 \in found
    BY <1>1, <1>6
<1>7. CASE found \subseteq {6, 7} /\ 6 \in found
    BY <1>1, <1>7
<1>8. CASE found \subseteq {7} /\ 7 \in found
    BY <1>1, <1>8
<1> QED
    BY <1>1, <1>2, <1>3, <1>4, <1>5, <1>6, <1>7, <1>8, Zenon

\* infer_protocol answers the protocol of the first test in the cascade that holds,
\* and "unknown" if there is none.
LEMMA FirstClaimant ==
    ASSUME NEW buf, NEW total, NEW prev, NEW traced
    PROVE  LET found == Claimants(buf, total, prev, traced)
               m == infer_protocol(buf, total, prev, traced)
           IN \/ found = {} /\ m.protocol = "unknown" /\ m.type = "unknown"
              \/ \E i \in found : /\ \A j \in found : i <= j
                                  /\ m.protocol = Cascade[i]
                                  /\ m.type = MessageType(Cascade[i], buf, total, prev)
<1> DEFINE found == Claimants(buf, total, prev, traced)
           first == CHOOSE i \in found : \A j \in found : i <= j
           m == infer_protocol(buf, total, prev, traced)
<1>1. CASE found = {}
    BY <1>1, Zenon DEF infer_protocol
<1>2. CASE found # {}
    <2>1. found \in SUBSET (1 .. 7)
        BY CascadeDomain, Zenon DEF Claimants
    <2>2. \E i \in found : \A j \in found : i <= j
        BY <2>1, <1>2, HasFirst, Zenon
    <2>3. first \in found /\ \A j \in found : first <= j
        BY <2>2, Zenon
    <2>4. m.protocol = Cascade[first]
        BY <1>2, Zenon DEF infer_protocol
    <2>5. m.type = MessageType(Cascade[first], buf, total, prev)
        BY <1>2, Zenon DEF infer_protocol
    <2> QED
        BY <2>3, <2>4, <2>5, Zenon
<1> QED
    BY <1>1, <1>2, Zenon

\* The answer is a protocol or "unknown".
LEMMA InferredProtocol ==
    ASSUME NEW buf, NEW total, NEW prev, NEW traced
    PROVE  infer_protocol(buf, total, prev, traced).protocol \in Protocols \ {"unset"}
<1>1. \A i \in Claimants(buf, total, prev, traced) : Cascade[i] \in Protocols \ {"unset", "unknown"}
    BY CascadeDomain, Zenon DEF Claimants
<1> QED
    BY <1>1, FirstClaimant DEF Protocols

\* When the agent asks for one protocol, no connection is taken for another.
THEOREM OnlyTraced ==
    ASSUME NEW buf, NEW total, NEW prev, NEW traced, traced # "unset"
    PROVE  infer_protocol(buf, total, prev, traced).protocol \in {traced, "unknown"}
<1>1. \A i \in Claimants(buf, total, prev, traced) : Cascade[i] = traced
    BY Zenon DEF Claimants
<1> QED
    BY <1>1, FirstClaimant

\* A number of 16 bits has no high half.
LEMMA NoHighHalf ==
    ASSUME NEW v \in Nat, v < 65536
    PROVE  bpf_ntohl16(v) = 0
<1>1. v \div 65536 = 0
    OBVIOUS
<1> QED
    BY <1>1 DEF bpf_ntohl16

Bytes == 0 .. 255

\* A byte of a buffer is a number from 0 to 255, and two of them have 16 bits.
LEMMA ByteRange ==
    ASSUME NEW buf \in Seq(Bytes), NEW i \in Nat, i < Len(buf)
    PROVE  Byte(buf, i) \in Bytes
BY DEF Byte

\* A number of two bytes is less than 65536.
LEMMA TwoBytes ==
    ASSUME NEW low \in Bytes, NEW high \in Bytes
    PROVE  high * 256 + low \in Nat /\ high * 256 + low < 65536
<1>1. low \in Int /\ 0 <= low /\ low <= 255 /\ high \in Int /\ 0 <= high /\ high <= 255
    BY DEF Bytes
<1> QED
    BY <1>1

\* A message of RocketMQ is recognised in its JSON form only: the request code of the
\* binary form is 16 bits long and is converted with bpf_ntohl, which leaves 0 of it.
THEOREM BinaryRocketMQIsMissed ==
    ASSUME NEW buf \in Seq(Bytes), is_rocketmq_protocol(buf)
    PROVE  Byte(buf, 4) = 0
<1>1. Len(buf) >= 16
    BY DEF is_rocketmq_protocol
<1>2. Byte(buf, 8) \in Bytes
    BY <1>1, ByteRange
<1>3. Byte(buf, 8 + 1) \in Bytes
    BY <1>1, ByteRange
<1>4. le16(buf, 8) \in Nat /\ le16(buf, 8) < 65536
    BY <1>2, <1>3, TwoBytes DEF le16
<1>5. bpf_ntohl16(le16(buf, 8)) = 0
    BY <1>4, NoHighHalf
<1> QED
    BY <1>5 DEF is_rocketmq_protocol

-----------------------------------------------------------------------------
(* The invariant of the probes and the agent.                              *)

Roles == {"client", "server", "unknown"}
States == {"unset", "traceable", "protocol_unknown", "protocol_not_matched"}

IsInfo(i) ==
    /\ i = [protocol |-> i.protocol, role |-> i.role, no_trace |-> i.no_trace, ssl |-> i.ssl,
            bytes |-> i.bytes, ssl_bytes |-> i.ssl_bytes, prev |-> i.prev, prepend |-> i.prepend]
    /\ i.protocol \in Protocols /\ i.role \in Roles /\ i.no_trace \in States

IsAgent(a) ==
    /\ a = [tracable |-> a.tracable, role |-> a.role, plan |-> a.plan, busy |-> a.busy,
            copy |-> a.copy]
    /\ a.tracable \in States /\ a.plan \in Seq(States) /\ a.busy \in BOOLEAN /\ IsInfo(a.copy)

Event == [protocol : Protocols, role : Roles]

TypeInv == IsInfo(info) /\ IsAgent(agent) /\ events \in Seq(Event)

\* The state that the agent will have written when it has done all that it has to do:
\* that of the last event, of the last step of its plan, or the one it has written.
Due ==
    IF events # << >> THEN TraceState(events[Len(events)].protocol)
    ELSE IF agent.plan # << >> THEN agent.plan[Len(agent.plan)]
    ELSE agent.tracable

\* While the agent writes, its view is ahead of the map by the first step of its plan.
Writing ==
    agent.busy => /\ agent.plan # << >>
                  /\ agent.tracable = Head(agent.plan)
                  /\ agent.copy.no_trace = agent.tracable

Settles ==
    "update" \notin blame =>
        /\ ~agent.busy => info.no_trace = agent.tracable
        /\ info.protocol # "unset" => Due = TraceState(info.protocol)

IInv == TypeInv /\ Writing /\ Settles
-----------------------------------------------------------------------------
LEMMA TraceStateType == \A p : TraceState(p) \in States
BY Zenon DEF TraceState, States

\* A result of the handlers: the element and whether its protocol has changed.
Result(i, r) ==
    /\ IsInfo(r.info)
    /\ r.changed \in BOOLEAN
    /\ r = [changed |-> r.changed, info |-> r.info]
    /\ r.info.no_trace = i.no_trace
    /\ r.info.bytes = i.bytes /\ r.info.ssl_bytes = i.ssl_bytes
    /\ ~r.changed => r.info.protocol = i.protocol

\* Infer leaves the trace state alone and says when it changes the protocol.
LEMMA InferResult ==
    ASSUME NEW i, IsInfo(i), NEW d, NEW buf, NEW total
    PROVE  Result(i, Infer(i, d, buf, total))
<1> DEFINE m == infer_protocol(buf, total, i.prev, Traced)
<1>1. m.protocol \in Protocols
    BY InferredProtocol, Zenon
<1>2. \A type : Role(d, type) \in Roles
    BY Zenon DEF Role, Roles
<1> QED
    BY <1>1, <1>2, Zenon DEF Infer, Result, IsInfo, Roles

\* A handler that infers nothing.
LEMMA SameResult ==
    ASSUME NEW i, IsInfo(i)
    PROVE  Result(i, Same(i))
BY Zenon DEF Same, Result

\* The header that is prepended is no part of what matters here.
LEMMA UnprependedResult ==
    ASSUME NEW i, NEW r, Result(i, r), NEW reports
    PROVE  Result(i, Unprepended(r, reports))
BY Zenon DEF Unprepended, Result, IsInfo

\* The handler of a call keeps the invariant.
LEMMA HandledKeeps ==
    ASSUME IInv, NEW i, IsInfo(i), i.no_trace = info.no_trace, i.protocol = info.protocol,
           NEW r, Result(i, r), NEW t, NEW c, Handled(t, r, c)
    PROVE  IInv'
<1> USE DEF IInv, Handled
<1>1. info' = r.info /\ agent' = agent /\ blame' = blame
    BY Zenon
<1>2. CASE r.changed
    <2> DEFINE ev == [protocol |-> r.info.protocol, role |-> r.info.role]
    <2>1. events' = Append(events, ev)
        BY <1>2, Zenon
    <2>2. ev \in Event
        BY Zenon DEF Result, IsInfo, Event
    <2>3. events' \in Seq(Event) /\ events' # << >> /\ events'[Len(events')] = ev
        BY <2>1, <2>2 DEF TypeInv
    <2>4. TypeInv'
        BY <1>1, <2>3, Zenon DEF TypeInv, Result, IsInfo, IsAgent
    <2>5. Writing'
        BY <1>1, Zenon DEF Writing
    <2>6. Due' = TraceState(info'.protocol)
        BY <1>1, <2>3 DEF Due, TraceState
    <2> QED
        BY <1>1, <2>4, <2>5, <2>6, Zenon DEF Settles, Result
<1>3. CASE ~r.changed
    <2>1. events' = events /\ r.info.protocol = info.protocol
        BY <1>3, Zenon DEF Result
    <2>2. TypeInv'
        BY <1>1, <2>1, Zenon DEF TypeInv, Result, IsInfo, IsAgent
    <2>3. Writing'
        BY <1>1 DEF Writing
    <2>4. Due' = Due
        BY <1>1, <2>1, Zenon DEF Due, TraceState
    <2> QED
        BY <1>1, <2>1, <2>2, <2>3, <2>4, Zenon DEF Settles, Result, TraceState
<1> QED
    BY <1>2, <1>3, Zenon DEF Result
\* A step that leaves protocol, trace state, events and agent alone keeps it too.
LEMMA OtherKeeps ==
    ASSUME IInv, IsInfo(info'), info'.no_trace = info.no_trace, info'.protocol = info.protocol,
           events' = events, agent' = agent, blame \subseteq blame'
    PROVE  IInv'
<1>1. TypeInv' /\ Writing'
    BY Zenon DEF IInv, TypeInv, Writing, IsAgent, IsInfo
<1>2. Due' = Due
    BY Zenon DEF Due, TraceState
<1>3. "update" \notin blame' => "update" \notin blame
    BY Zenon
<1> QED
    BY <1>1, <1>2, <1>3, Zenon DEF IInv, Settles, TraceState

\* Marking the connection as one with TLS.
LEMMA MarkedInfo ==
    ASSUME IInv, NEW ssl
    PROVE  LET i == [info EXCEPT !.ssl = ssl] IN
           IsInfo(i) /\ i.no_trace = info.no_trace /\ i.protocol = info.protocol
BY DEF IInv, TypeInv, IsInfo

\* What a handler finds.
LEMMA LookedInfo ==
    ASSUME IInv, NEW t
    PROVE  /\ IsInfo(Looked(t))
           /\ Looked(t).no_trace = info.no_trace /\ Looked(t).protocol = info.protocol
BY MarkedInfo, Zenon DEF Looked

\* The process moves data and enters and leaves the TLS library.
LEMMA ProcessKeeps ==
    ASSUME IInv, NEW t \in Threads, Process(t)
    PROVE  IInv'
<1>1. ASSUME NEW s, NEW p, Move(t, s, p)
      PROVE  IInv'
    BY <1>1, OtherKeeps, Zenon DEF Move, Begin, IInv, TypeInv
<1>2. ASSUME NEW d, NEW kind, MoveRecord(t, d, kind)
      PROVE  IInv'
    BY <1>2, OtherKeeps, Zenon DEF MoveRecord, Begin, IInv, TypeInv
<1>3. ASSUME NEW s, TlsEnter(t, s)
      PROVE  IInv'
    <2>1. IsInfo(info') /\ info'.no_trace = info.no_trace /\ info'.protocol = info.protocol
        BY <1>3, Zenon DEF TlsEnter, IInv, TypeInv, IsInfo
    <2> QED
        BY <1>3, <2>1, OtherKeeps, Zenon DEF TlsEnter, history
<1>4. ASSUME TlsFail(t)
      PROVE  IInv'
    BY <1>4, OtherKeeps, Zenon DEF TlsFail, history, IInv, TypeInv
<1> QED
    BY <1>1, <1>2, <1>3, <1>4, Zenon DEF Process

\* The handlers of the system calls and of the TLS libraries.
LEMMA HandlerKeeps ==
    ASSUME IInv, NEW t \in Threads, Handler(t)
    PROVE  IInv'
<1>1. CASE process_syscall_data(t)
    <2> DEFINE c == call[t]
               i == Looked(t)
               r == IF ~i.ssl /\ Untold(i) THEN Infer(i, c.dir, c.buf, Len(c.buf)) ELSE Same(i)
    <2>1. Result(i, r)
        BY LookedInfo, InferResult, SameResult, Zenon
    <2>2. Result(i, Unprepended(r, Reports(r)))
        BY <2>1, UnprependedResult, Zenon
    <2>3. Handled(t, Unprepended(r, Reports(r)), Data(c, r, Reports(r), Len(c.buf)))
        BY <1>1, Zenon DEF process_syscall_data
    <2> QED
        BY <2>2, <2>3, LookedInfo, HandledKeeps, Zenon
<1>2. CASE process_syscall_data_vecs(t)
    <2> DEFINE c == call[t]
               i == Looked(t)
               r == IF ~i.ssl /\ Untold(i) /\ c.first # 0
                    THEN Infer(i, c.dir, SubSeq(c.buf, 1, c.first), Len(c.buf)) ELSE Same(i)
               reports == i.ssl \/ should_trace_conn(r.info)
    <2>1. Result(i, r)
        BY LookedInfo, InferResult, SameResult, Zenon
    <2>2. Result(i, Unprepended(r, reports))
        BY <2>1, UnprependedResult, Zenon
    <2>3. Handled(t, Unprepended(r, reports), Data(c, r, reports, c.first))
        BY <1>2, Zenon DEF process_syscall_data_vecs
    <2> QED
        BY <2>2, <2>3, LookedInfo, HandledKeeps, Zenon
<1>3. CASE process_syscall_sendfile(t)
    <2>1. IsInfo(info) /\ Result(info, Same(info))
        BY SameResult, Zenon DEF IInv, TypeInv
    <2>2. PICK c : Handled(t, Same(info), c)
        BY <1>3, Zenon DEF process_syscall_sendfile
    <2> QED
        BY <2>1, <2>2, HandledKeeps, Zenon
<1>4. CASE Count(t)
    <2>1. PICK b : info' = info \/ info' = [info EXCEPT !.bytes = b]
        BY <1>4, Zenon DEF Count
    <2>2. IsInfo(info') /\ info'.no_trace = info.no_trace /\ info'.protocol = info.protocol
        BY <2>1, Zenon DEF IInv, TypeInv, IsInfo
    <2> QED
        BY <1>4, <2>2, OtherKeeps, Zenon DEF Count, history
<1>5. ASSUME NEW buf, process_ssl_data(t, buf) PROVE IInv'
    <2> DEFINE i == [info EXCEPT !.ssl = TRUE]
               r == IF Untold(i) THEN Infer(i, tls[t].dir, buf, Len(buf)) ELSE Same(i)
    <2>1. IsInfo(i) /\ i.no_trace = info.no_trace /\ i.protocol = info.protocol
        BY MarkedInfo, Zenon
    <2>2. Result(i, r)
        BY <2>1, InferResult, SameResult, Zenon
    <2>3. PICK c : Handled(t, r, c)
        BY <1>5, Zenon DEF process_ssl_data
    <2> QED
        BY <2>1, <2>2, <2>3, HandledKeeps, Zenon
<1>6. CASE CountTls(t)
    <2>1. IsInfo(info') /\ info'.no_trace = info.no_trace /\ info'.protocol = info.protocol
        BY <1>6, Zenon DEF CountTls, IInv, TypeInv, IsInfo
    <2> QED
        BY <1>6, <2>1, OtherKeeps, Zenon DEF CountTls, history
<1> QED
    BY <1>1, <1>2, <1>3, <1>4, <1>5, <1>6, Zenon DEF Handler
\* Taking the head off a sequence leaves its last element, if any is left.
LEMMA LastOfTail ==
    ASSUME NEW S, NEW s \in Seq(S), s # << >>
    PROVE  /\ Head(s) \in S /\ Tail(s) \in Seq(S)
           /\ Tail(s) = << >> => s[Len(s)] = Head(s)
           /\ Tail(s) # << >> => Tail(s)[Len(Tail(s))] = s[Len(s)]
<1>1. Len(s) \in Nat \ {0} /\ Head(s) = s[1] /\ Head(s) \in S /\ Tail(s) \in Seq(S)
    OBVIOUS
<1>2. Len(Tail(s)) = Len(s) - 1
    BY <1>1
<1>3. \A i \in 1 .. Len(s) - 1 : Tail(s)[i] = s[i + 1]
    BY <1>1
<1>4. Tail(s) = << >> => Len(s) = 1
    BY <1>1, <1>2
<1>5. Tail(s) # << >> => Len(s) - 1 \in 1 .. Len(s) - 1
    BY <1>1, <1>2
<1> QED
    BY <1>1, <1>2, <1>3, <1>4, <1>5

\* The agent takes events, chooses trace states and writes them.
LEMMA AgentKeeps ==
    ASSUME IInv, Agent
    PROVE  IInv'
<1> DEFINE plan == agent.plan
<1>1. plan \in Seq(States) /\ IsInfo(info) /\ IsAgent(agent) /\ events \in Seq(Event)
    BY Zenon DEF IInv, TypeInv, IsAgent
<1>2. plan # << >> => /\ Head(plan) \in States
                      /\ Tail(plan) \in Seq(States)
                      /\ Tail(plan) = << >> => plan[Len(plan)] = Head(plan)
                      /\ Tail(plan) # << >> => Tail(plan)[Len(Tail(plan))] = plan[Len(plan)]
    BY <1>1, LastOfTail, Zenon
<1>3. CASE ProtocolInfer
    <2> DEFINE ev == Head(events)
               newRole == agent.role = "unknown" /\ ev.role # "unknown"
    <2>1. events # << >> /\ plan = << >> /\ events' = Tail(events) /\ info' = info /\ blame' = blame
        BY <1>3, Zenon DEF ProtocolInfer, history
    <2>2. ev \in Event /\ events' \in Seq(Event)
        BY <2>1, <1>1
    <2>3. /\ events' = << >> => events[Len(events)] = ev
          /\ events' # << >> => events'[Len(events')] = events[Len(events)]
        BY <2>1, <1>1, LastOfTail, Zenon
    <2>4. Plan(ev, newRole) \in Seq(States)
        <3>1. "traceable" \in States /\ TraceState(ev.protocol) \in States
            BY TraceStateType, Zenon DEF States
        <3>2. \A x, y \in States : <<x, y>> \in Seq(States) /\ <<y>> \in Seq(States)
            OBVIOUS
        <3> QED
            BY <3>1, <3>2, Zenon DEF Plan
    <2>5. /\ Plan(ev, newRole) # << >>
          /\ Plan(ev, newRole)[Len(Plan(ev, newRole))] = TraceState(ev.protocol)
        BY Zenon DEF Plan
    <2>6. /\ agent'.plan = Plan(ev, newRole) /\ agent'.tracable = agent.tracable
          /\ agent'.busy = agent.busy /\ agent'.copy = agent.copy
          /\ agent' = [tracable |-> agent'.tracable, role |-> agent'.role, plan |-> agent'.plan,
                       busy |-> agent'.busy, copy |-> agent'.copy]
        BY <1>1, <1>3, Zenon DEF ProtocolInfer, IsAgent
    <2>7. ~agent.busy
        BY <2>1, <1>1, Zenon DEF IInv, Writing, IsAgent
    <2>8. TypeInv' /\ Writing'
        BY <1>1, <2>1, <2>2, <2>4, <2>6, <2>7, Zenon DEF TypeInv, IsAgent, IsInfo, Writing
    <2>9. Due' = Due
        BY <2>1, <2>3, <2>5, <2>6, Zenon DEF Due, TraceState
    <2> QED
        BY <2>1, <2>6, <2>7, <2>8, <2>9, Zenon DEF IInv, Settles, TraceState
<1>4. CASE UpdateLookup
    <2> DEFINE state == Head(plan)
    <2>1. plan # << >> /\ ~agent.busy /\ info' = info /\ events' = events /\ blame' = blame
        BY <1>4, Zenon DEF UpdateLookup, probes, history
    <2>2. CASE agent.tracable = state
        <3>1. agent' = [agent EXCEPT !.plan = Tail(@)]
            BY <1>4, <2>2, Zenon DEF UpdateLookup
        <3>2. TypeInv' /\ Writing'
            BY <1>1, <1>2, <2>1, <3>1, Zenon DEF TypeInv, IsAgent, IsInfo, Writing
        <3>3. Due' = Due /\ agent'.tracable = agent.tracable /\ agent'.busy = agent.busy
            BY <1>1, <1>2, <2>1, <2>2, <3>1, Zenon DEF Due, TraceState, IsAgent
        <3> QED
            BY <2>1, <3>2, <3>3, Zenon DEF IInv, Settles, TraceState
    <2>3. CASE agent.tracable # state
        <3> DEFINE copy == [info EXCEPT !.no_trace = state]
        <3>1. agent' = [agent EXCEPT !.tracable = state, !.busy = TRUE, !.copy = copy]
            BY <1>4, <2>3, Zenon DEF UpdateLookup
        <3>2. IsInfo(copy) /\ copy.no_trace = state
            BY <1>1, <1>2, <2>1 DEF IsInfo
        <3>3. agent'.tracable = state /\ agent'.busy /\ agent'.copy = copy /\ agent'.plan = plan
            BY <1>1, <3>1, Zenon DEF IsAgent
        <3>4. IsAgent(agent')
            BY <1>1, <1>2, <2>1, <3>1, <3>2, <3>3, Zenon DEF IsAgent
        <3>5. TypeInv' /\ Writing'
            BY <1>1, <2>1, <3>2, <3>3, <3>4, Zenon DEF TypeInv, Writing
        <3>6. Due' = Due
            BY <2>1, <3>3, Zenon DEF Due, TraceState
        <3> QED
            BY <2>1, <3>3, <3>5, <3>6, Zenon DEF IInv, Settles, TraceState
    <2> QED
        BY <2>2, <2>3, Zenon
<1>5. CASE UpdateWrite
    <2>1. /\ agent.busy /\ info' = agent.copy /\ events' = events
          /\ agent' = [agent EXCEPT !.plan = Tail(@), !.busy = FALSE, !.copy = NewInfo]
        BY <1>5, Zenon DEF UpdateWrite
    <2>2. IsInfo(NewInfo)
        BY Zenon DEF NewInfo, IsInfo, Protocols, Roles, States
    <2>3. plan # << >> /\ agent.tracable = Head(plan) /\ agent.copy.no_trace = agent.tracable
        BY <2>1, Zenon DEF IInv, Writing
    <2>4. /\ agent'.plan = Tail(plan) /\ agent'.busy = FALSE /\ agent'.copy = NewInfo
          /\ agent'.tracable = agent.tracable
        BY <1>1, <2>1, Zenon DEF IsAgent
    <2>5. IsAgent(agent')
        BY <1>1, <1>2, <2>1, <2>2, <2>3, <2>4, Zenon DEF IsAgent
    <2>6. TypeInv' /\ Writing'
        BY <1>1, <2>1, <2>4, <2>5, Zenon DEF TypeInv, IsAgent, Writing
    <2>7. Due' = Due
        BY <1>2, <2>1, <2>3, <2>4, Zenon DEF Due, TraceState
    <2>8. ASSUME "update" \notin blame'
          PROVE  "update" \notin blame /\ info'.protocol = info.protocol
        BY <1>1, <1>5, <2>8, Zenon DEF UpdateWrite, IsInfo
    <2> QED
        BY <2>1, <2>3, <2>4, <2>6, <2>7, <2>8, Zenon DEF IInv, Settles, TraceState
<1> QED
    BY <1>3, <1>4, <1>5, Zenon DEF Agent

\* Nothing is inferred at first.
LEMMA InitHolds == Init => IInv
<1> SUFFICES ASSUME Init PROVE IInv
    BY Zenon
<1>1. info = NewInfo /\ agent = NoAgent /\ events = << >>
    BY Zenon DEF Init
<1>2. IsInfo(NewInfo)
    BY Zenon DEF NewInfo, IsInfo, Protocols, Roles, States
<1>3. IsAgent(NoAgent)
    BY <1>2 DEF NoAgent, IsAgent, States
<1> QED
    BY <1>1, <1>2, <1>3 DEF IInv, TypeInv, Writing, Settles, NewInfo, NoAgent

\* The invariant is inductive.
LEMMA NextKeeps == IInv /\ [Next]_vars => IInv'
<1> SUFFICES ASSUME IInv, [Next]_vars PROVE IInv'
    BY Zenon
<1>1. CASE Next
    BY <1>1, ProcessKeeps, HandlerKeeps, AgentKeeps, Zenon DEF Next
<1>2. CASE UNCHANGED vars
    <2>1. info' = info /\ events' = events /\ agent' = agent /\ blame' = blame
        BY <1>2, Zenon DEF vars, probes, history
    <2> QED
        BY <2>1, OtherKeeps, Zenon DEF IInv, TypeInv
<1> QED
    BY <1>1, <1>2, Zenon

\* When the agent has nothing left to do, the trace state it has written into
\* conn_info_map is that of the protocol the probes have recognised there.
THEOREM StateMatches == Spec => []StateMatchesProtocol
<1>1. IInv => StateMatchesProtocol
    BY Zenon DEF IInv, TypeInv, Writing, Settles, Due, StateMatchesProtocol, IsAgent
<1> QED
    BY InitHolds, NextKeeps, <1>1, PTL DEF Spec
-----------------------------------------------------------------------------
(* The positions in the stream.                                            *)

\* A system call whose bytes are not counted yet, and the bytes it has moved.
Pending(t, d) == call[t].stage # "idle" /\ call[t].kind # "tls" /\ call[t].dir = d
Span(t) == call[t].at + 1 .. call[t].at + Len(call[t].buf)

\* The bytes of the calls that are counted, or that are never counted.
Settled(d) == {b \in 1 .. moved[d] : \A t \in Threads : Pending(t, d) => b \notin Span(t)}

\* The return of a TLS call that is not counted yet.
Returning(t, d) == call[t].stage = "count" /\ call[t].kind = "tls" /\ call[t].dir = d

IsCall(c) ==
    /\ c = [stage |-> c.stage, dir |-> c.dir, kind |-> c.kind, part |-> c.part, at |-> c.at,
            buf |-> c.buf, first |-> c.first, held |-> c.held, seq |-> c.seq,
            report |-> c.report, hdr |-> c.hdr, from |-> c.from, len |-> c.len, due |-> c.due]
    /\ c.stage \in {"idle", "exit", "count"} /\ c.dir \in Dirs
    /\ c.at \in Nat /\ Len(c.buf) \in Nat /\ c.held \in BOOLEAN /\ c.seq \in Nat
    /\ c.from \in Int /\ c.len \in Nat
    /\ c.stage = "idle" => c = Idle
    /\ c.stage = "exit" => c.held
    /\ c.kind = "tls" => c.stage = "count"

TlsRecord == [on : BOOLEAN, dir : Dirs, len : Nat, at : Nat]

Shape ==
    /\ conn \in Traffic
    /\ moved \in [Dirs -> Nat] /\ part \in [Dirs -> {"msg", "body"}]
    /\ \A d \in Dirs : part[d] = "body" => Splits(d)
    /\ call = [t \in Threads |-> call[t]] /\ \A t \in Threads : IsCall(call[t])
    /\ tls \in [Threads -> TlsRecord]
    /\ info.bytes \in [Dirs -> Nat] /\ info.ssl_bytes \in [Dirs -> Nat]
    /\ agent.copy.bytes \in [Dirs -> Nat] /\ agent.copy.ssl_bytes \in [Dirs -> Nat]
    /\ blame \subseteq {"overlap", "mmsg", "mixed", "update", "vec"}

\* Calls of one direction have moved different bytes, all of them moved.
Apart ==
    \A d \in Dirs : \A t \in Threads : Pending(t, d) =>
        /\ call[t].at + Len(call[t].buf) <= moved[d]
        /\ \A u \in Threads \ {t} : Pending(u, d) =>
              \/ call[t].at + Len(call[t].buf) <= call[u].at
              \/ call[u].at + Len(call[u].buf) <= call[t].at

\* No count that is in the map, that a handler has read for its position, or that the
\* agent has copied is ahead of the bytes that are settled.
Behind ==
    \A d \in Dirs :
        /\ info.bytes[d] <= Cardinality(Settled(d))
        /\ agent.copy.bytes[d] <= Cardinality(Settled(d))
        /\ \A t \in Threads : Pending(t, d) /\ call[t].stage = "count" =>
              call[t].seq >= 1 /\ call[t].seq - 1 <= Cardinality(Settled(d))

\* Unless something upset the counters, a direction has one call at a time, which
\* begins where the counter stands.
Exact ==
    blame \subseteq {"mixed", "vec"} =>
        \A d \in Dirs :
            /\ (\A t \in Threads : ~Pending(t, d)) => info.bytes[d] = moved[d]
            /\ \A t \in Threads : Pending(t, d) =>
                  /\ \A u \in Threads \ {t} : ~Pending(u, d)
                  /\ info.bytes[d] = call[t].at
                  /\ moved[d] = call[t].at + Len(call[t].buf)
                  /\ call[t].stage = "count" => call[t].held /\ call[t].seq = call[t].at + 1

\* No other thread uses the connection, which no TLS call is under way on.
Alone(t) == \A u \in Threads : ~tls[u].on /\ (u # t => call[u] = Idle)

\* Only a thread that is inside a TLS call, or alone in a handshake, moves the records of
\* a connection with TLS, and a direction has one TLS call at a time.
Inside ==
    /\ \A t \in Threads : tls[t].on =>
          /\ conn.lib # "none" /\ call[t].kind # "tls"
          /\ \A u \in Threads \ {t} : tls[u].on => tls[u].dir # tls[t].dir
    /\ conn.lib # "none" => \A d \in Dirs, t \in Threads : Pending(t, d) =>
          /\ call[t].kind \in {"buf", "vec"}
          /\ \/ Alone(t)
             \/ tls[t].on /\ ("mixed" \notin blame => tls[t].dir = d)

\* The records of a TLS call are those moved since it began: the ones that handlers
\* have counted for it, and the one whose handler is still to come.
Records ==
    blame \subseteq {"vec"} /\ conn.lib # "offset" => \A t \in Threads :
        /\ tls[t].on => moved[tls[t].dir] =
              tls[t].at + tls[t].len + (IF call[t].stage = "exit" THEN Len(call[t].buf) ELSE 0)
        /\ \A d \in Dirs : Returning(t, d) =>
              call[t].from = call[t].at + 1 /\ call[t].from + call[t].len = moved[d] + 1

PInv == Shape /\ Apart /\ Behind /\ Exact /\ Inside /\ Records
-----------------------------------------------------------------------------
LEMMA SettledFinite ==
    ASSUME Shape, NEW d \in Dirs
    PROVE  IsFiniteSet(Settled(d)) /\ Cardinality(Settled(d)) \in 0 .. moved[d]
<1>1. moved[d] \in Nat
    BY Zenon DEF Shape
<1>2. IsFiniteSet(1 .. moved[d]) /\ Cardinality(1 .. moved[d]) = moved[d]
    BY <1>1, FS_Interval
<1>3. Settled(d) \in SUBSET (1 .. moved[d])
    BY Zenon DEF Settled
<1>4. IsFiniteSet(Settled(d)) /\ Cardinality(Settled(d)) <= moved[d]
    BY <1>2, <1>3, FS_Subset, Zenon
<1> QED
    BY <1>1, <1>4, FS_CardinalityType

\* The bytes a call has moved are settled when the call is.
LEMMA SettledGrows ==
    ASSUME Shape, Shape', NEW d \in Dirs, Settled(d) \subseteq Settled(d)'
    PROVE  /\ Cardinality(Settled(d)) \in Nat /\ Cardinality(Settled(d)') \in Nat
           /\ Cardinality(Settled(d)) <= Cardinality(Settled(d)')
<1>0. moved'[d] \in Int
    BY DEF Shape
<1>1. IsFiniteSet(1 .. moved'[d])
    BY <1>0, FS_Interval
<1>2. Settled(d)' \in SUBSET (1 .. moved'[d])
    BY Zenon DEF Settled
<1>3. IsFiniteSet(Settled(d)')
    BY <1>1, <1>2, FS_Subset, Zenon
<1> QED
    BY <1>3, SettledFinite, FS_CardinalityType, FS_Subset, Zenon

\* The handler of a system call reads its position in the stream and is about to
\* count the bytes.  Inside a TLS call they count for that call.
Reads(t, c) ==
    /\ call[t].stage = "exit" /\ call' = [call EXCEPT ![t] = c]
    /\ IsCall(c) /\ c.stage = "count" /\ c.held /\ c.seq = info.bytes[c.dir] + 1
    /\ c.kind = call[t].kind /\ c.dir = call[t].dir /\ c.at = call[t].at /\ c.buf = call[t].buf
    /\ conn' = conn /\ moved' = moved /\ part' = part /\ blame' = blame /\ agent' = agent
    /\ info'.bytes = info.bytes /\ info'.ssl_bytes = info.ssl_bytes
    /\ IF tls[t].on /\ conn.lib # "offset"
       THEN tls' = [tls EXCEPT ![t].len = @ + Len(call[t].buf)] ELSE tls' = tls

LEMMA ReadsKeeps ==
    ASSUME PInv, NEW t \in Threads, NEW c, Reads(t, c)
    PROVE  PInv'
<1> USE DEF PInv
<1>1. /\ IsCall(call[t]) /\ call'[t] = c /\ call' = [u \in Threads |-> call'[u]]
      /\ \A u \in Threads \ {t} : call'[u] = call[u]
    BY Zenon DEF Reads, Shape
<1>2. \A u \in Threads : IsCall(call'[u])
    BY <1>1, Zenon DEF Reads, Shape
<1>3. /\ tls' \in [Threads -> TlsRecord]
      /\ \A u \in Threads : tls'[u].on = tls[u].on /\ tls'[u].dir = tls[u].dir
                            /\ tls'[u].at = tls[u].at /\ (u # t => tls'[u].len = tls[u].len)
      /\ tls[t].on /\ conn.lib # "offset" => tls'[t].len = tls[t].len + Len(call[t].buf)
    <2>1. Len(call[t].buf) \in Nat /\ tls \in [Threads -> TlsRecord]
        BY <1>1, Zenon DEF IsCall, Shape
    <2>2. CASE tls[t].on /\ conn.lib # "offset"
        BY <2>1, <2>2 DEF Reads, TlsRecord
    <2>3. CASE ~(tls[t].on /\ conn.lib # "offset")
        BY <2>1, <2>3, Zenon DEF Reads
    <2> QED
        BY <2>2, <2>3, Zenon
<1>4. Shape'
    BY <1>1, <1>2, <1>3, Zenon DEF Reads, Shape, Splits
<1>5. \A d \in Dirs, u \in Threads : /\ Pending(u, d)' <=> Pending(u, d)
                                     /\ call'[u].at = call[u].at /\ call'[u].buf = call[u].buf
    BY <1>1 DEF Pending, Reads, IsCall
<1>6. Apart'
    BY <1>5 DEF Apart, Reads
<1>7. \A d \in Dirs : Settled(d)' = Settled(d)
    BY <1>5, Zenon DEF Settled, Span, Reads
<1>8. Behind'
    <2> SUFFICES ASSUME NEW d \in Dirs, NEW u \in Threads
                 PROVE  /\ info'.bytes[d] <= Cardinality(Settled(d))
                        /\ agent'.copy.bytes[d] <= Cardinality(Settled(d))
                        /\ Pending(u, d)' /\ call'[u].stage = "count" =>
                              call'[u].seq >= 1 /\ call'[u].seq - 1 <= Cardinality(Settled(d))
        BY <1>7, Zenon DEF Behind
    <2>1. CASE u = t
        BY <2>1, <1>1, <1>5 DEF Behind, Reads, Pending, Shape
    <2>2. CASE u # t
        BY <2>2, <1>1, <1>5, Zenon DEF Behind, Reads
    <2> QED
        BY <2>1, <2>2, Zenon
<1>9. Exact'
    BY <1>1, <1>5 DEF Exact, Reads, Pending
<1>10. Inside'
    <2>1. /\ conn' = conn /\ blame' = blame /\ c.kind = call[t].kind /\ call[t].stage = "exit"
          /\ call[t] # Idle
        BY DEF Reads, Idle
    <2>2. ASSUME NEW u \in Threads, tls'[u].on
          PROVE  /\ conn.lib # "none" /\ call'[u].kind # "tls"
                 /\ \A v \in Threads \ {u} : tls'[v].on => tls'[v].dir # tls'[u].dir
        BY <1>1, <1>3, <2>1, <2>2 DEF Inside
    <2>3. ASSUME conn.lib # "none", NEW e \in Dirs, NEW u \in Threads, Pending(u, e)'
          PROVE  /\ call'[u].kind \in {"buf", "vec"}
                 /\ Alone(u)' \/ (tls'[u].on /\ ("mixed" \notin blame => tls'[u].dir = e))
        <3>1. Pending(u, e) /\ call'[u].kind = call[u].kind
            BY <1>1, <1>5, <2>1, <2>3, Zenon
        <3>2. Alone(u) => Alone(u)'
            BY <1>1, <1>3, <2>1, Zenon DEF Alone
        <3> QED
            BY <1>3, <2>3, <3>1, <3>2, Zenon DEF Inside
    <2> QED
        BY <2>1, <2>2, <2>3, Zenon DEF Inside
<1>11. Records'
    <2>1. /\ c.kind # "tls" /\ Len(call[t].buf) \in Nat
          /\ tls[t].at \in Nat /\ tls[t].len \in Nat
        BY <1>1 DEF Reads, IsCall, Shape, TlsRecord
    <2> SUFFICES ASSUME blame \subseteq {"vec"}, conn.lib # "offset", NEW u \in Threads
                 PROVE  /\ tls[u].on => moved[tls[u].dir] = tls[u].at + tls'[u].len
                              + (IF call'[u].stage = "exit" THEN Len(call'[u].buf) ELSE 0)
                        /\ \A d \in Dirs : Returning(u, d)' =>
                              /\ call'[u].from = call'[u].at + 1
                              /\ call'[u].from + call'[u].len = moved[d] + 1
        BY <1>3 DEF Records, Reads
    <2>2. CASE u = t
        BY <1>1, <1>3, <2>1, <2>2 DEF Records, Reads, Returning
    <2>3. CASE u # t
        BY <1>1, <1>3, <2>3 DEF Records, Returning
    <2> QED
        BY <2>2, <2>3, Zenon
<1> QED
    BY <1>4, <1>6, <1>8, <1>9, <1>10, <1>11, Zenon

\* What becomes of a call when its position is read.
Read(c, seq, n) ==
    /\ IsCall(n) /\ n.stage = "count" /\ n.seq = seq /\ n.held = c.held
    /\ n.kind = c.kind /\ n.dir = c.dir /\ n.at = c.at /\ n.buf = c.buf

\* The handler that only reports the length overrules what would be reported.
Updated(c, seq, n) ==
    \E report, again, hdr, due :
        n = [c EXCEPT !.stage = "count", !.seq = seq, !.report = report, !.hdr = hdr,
                      !.report = again, !.due = due]

LEMMA ReadCall ==
    ASSUME NEW c, IsCall(c), c.stage # "idle", NEW seq \in Nat, NEW n, Updated(c, seq, n)
    PROVE  Read(c, seq, n)
<1>0. PICK report, again, hdr, due :
          n = [c EXCEPT !.stage = "count", !.seq = seq, !.report = report, !.hdr = hdr,
                        !.report = again, !.due = due]
    BY Zenon DEF Updated
<1>1. /\ n.stage = "count" /\ n.seq = seq /\ n.held = c.held
      /\ n.kind = c.kind /\ n.dir = c.dir /\ n.at = c.at /\ n.buf = c.buf
      /\ n.from = c.from /\ n.len = c.len
      /\ n = [stage |-> n.stage, dir |-> n.dir, kind |-> n.kind, part |-> n.part, at |-> n.at,
              buf |-> n.buf, first |-> n.first, held |-> n.held, seq |-> n.seq,
              report |-> n.report, hdr |-> n.hdr, from |-> n.from, len |-> n.len,
              due |-> n.due]
    BY <1>0, Zenon DEF IsCall
<1> QED
    BY <1>1, Zenon DEF Read, IsCall

\* The three handlers of system calls are such readers.
LEMMA SyscallKeeps ==
    ASSUME IInv, PInv, NEW t \in Threads,
           process_syscall_data(t) \/ process_syscall_data_vecs(t) \/ process_syscall_sendfile(t)
    PROVE  PInv'
<1> DEFINE c == call[t]
<1>1. IsCall(c) /\ conn \in Traffic
    BY Zenon DEF PInv, Shape
<1>2. conn.lib \in {"none", "nested", "offset", "go"}
    BY <1>1, DataProbesAssumption, Zenon
<1>3. info.bytes[c.dir] \in Nat /\ info.bytes[c.dir] + 1 \in Nat
    BY <1>1 DEF PInv, Shape, IsCall
<1>4. ASSUME NEW i, NEW r, NEW reports, NEW first,
             i.bytes = info.bytes /\ i.ssl_bytes = info.ssl_bytes, Result(i, r),
             c.stage = "exit", c.kind # "sendfile", propagate_fd_to_uprobe(t),
             Handled(t, Unprepended(r, reports), Data(c, r, reports, first))
      PROVE  PInv'
    <2>0. PICK n : n = [Data(c, r, reports, first) EXCEPT !.due = known']
        BY Zenon
    <2>1. Result(i, Unprepended(r, reports))
        BY <1>4, UnprependedResult, Zenon
    <2>2. info'.bytes = info.bytes /\ info'.ssl_bytes = info.ssl_bytes
        BY <1>4, <2>1, Zenon DEF Handled, Result
    <2>3. Updated(c, info.bytes[c.dir] + 1, n)
        <3>1. PICK k : k = c
            BY Zenon
        <3>2. PICK report, hdr, due, e :
                  /\ e = [k EXCEPT !.stage = "count", !.seq = info.bytes[c.dir] + 1,
                                   !.report = report, !.hdr = hdr]
                  /\ n = [e EXCEPT !.due = due]
            BY <2>0, <3>1, Zenon DEF Data
        <3>3. e.report = report /\ e = [e EXCEPT !.report = report]
            BY <1>1, <3>1, <3>2, Zenon DEF IsCall
        <3>4. n = [[e EXCEPT !.report = report] EXCEPT !.due = due]
            BY <3>2, <3>3, Zenon
        <3>5. n = [k EXCEPT !.stage = "count", !.seq = info.bytes[c.dir] + 1, !.report = report,
                            !.hdr = hdr, !.report = report, !.due = due]
            BY <3>2, <3>4, Zenon
        <3> QED
            BY <3>1, <3>5, Zenon DEF Updated
    <2>4. Read(c, info.bytes[c.dir] + 1, n)
        <3>1. c.stage # "idle"
            BY <1>4, Zenon
        <3> QED
            BY <1>1, <1>3, <2>3, <3>1, ReadCall, Zenon
    <2>5. call' = [call EXCEPT ![t] = n]
        BY <1>4, <2>0, Zenon DEF Handled
    <2>6. IF tls[t].on /\ conn.lib # "offset"
          THEN tls' = [tls EXCEPT ![t].len = @ + Len(call[t].buf)] ELSE tls' = tls
        <3>1. conn.lib \in {"nested", "go"} \/ ~tls[t].on \/ conn.lib = "offset"
            BY <1>2, Zenon DEF PInv, Inside
        <3> QED
            BY <1>4, <3>1 DEF propagate_fd_to_uprobe, PInv, Shape, TlsRecord
    <2>7. Reads(t, n)
        BY <1>1, <1>4, <2>2, <2>4, <2>5, <2>6, Zenon DEF Reads, Read, Handled, process, IsCall
    <2> QED
        BY <2>7, ReadsKeeps, Zenon
<1>5. CASE process_syscall_data(t)
    <2> DEFINE i == Looked(t)
               r == IF ~i.ssl /\ Untold(i) THEN Infer(i, c.dir, c.buf, Len(c.buf)) ELSE Same(i)
    <2>1. Result(i, r)
        BY LookedInfo, InferResult, SameResult, Zenon
    <2>2. i.bytes = info.bytes /\ i.ssl_bytes = info.ssl_bytes
        BY Zenon DEF Looked, IInv, TypeInv, IsInfo
    <2>3. /\ Handled(t, Unprepended(r, Reports(r)), Data(c, r, Reports(r), Len(c.buf)))
          /\ c.stage = "exit" /\ c.kind # "sendfile" /\ propagate_fd_to_uprobe(t)
        BY <1>5, Zenon DEF process_syscall_data
    <2> QED
        BY <1>4, <2>1, <2>2, <2>3, Zenon
<1>6. CASE process_syscall_data_vecs(t)
    <2> DEFINE i == Looked(t)
               r == IF ~i.ssl /\ Untold(i) /\ c.first # 0
                    THEN Infer(i, c.dir, SubSeq(c.buf, 1, c.first), Len(c.buf)) ELSE Same(i)
               reports == i.ssl \/ should_trace_conn(r.info)
    <2>1. Result(i, r)
        BY LookedInfo, InferResult, SameResult, Zenon
    <2>2. i.bytes = info.bytes /\ i.ssl_bytes = info.ssl_bytes
        BY DEF Looked, IInv, TypeInv, IsInfo
    <2>3. /\ Handled(t, Unprepended(r, reports), Data(c, r, reports, c.first))
          /\ c.stage = "exit" /\ c.kind # "sendfile" /\ propagate_fd_to_uprobe(t)
        BY <1>6, Zenon DEF process_syscall_data_vecs
    <2> QED
        BY <1>4, <2>1, <2>2, <2>3, Zenon
<1>7. CASE process_syscall_sendfile(t)
    <2> DEFINE e == [Data(c, Same(info), should_trace_conn(info), 0) EXCEPT
                        !.report = IF @ = "data" THEN "bare" ELSE @]
    <2>0. PICK n : n = [e EXCEPT !.due = known']
        BY Zenon
    <2>1. c.stage = "exit" /\ c.kind = "sendfile" /\ tls' = tls /\ Handled(t, Same(info), e)
        BY <1>7, Zenon DEF process_syscall_sendfile
    <2>2. Updated(c, info.bytes[c.dir] + 1, n)
        BY <2>0, Zenon DEF Data, Updated
    <2>3. Read(c, info.bytes[c.dir] + 1, n)
        <3>1. c.stage # "idle"
            BY <2>1, Zenon
        <3> QED
            BY <1>1, <1>3, <2>2, <3>1, ReadCall, Zenon
    <2>4. call' = [call EXCEPT ![t] = n] /\ info' = info
        BY <2>0, <2>1, Zenon DEF Handled, Same
    <2>5. ~tls[t].on
        BY <1>1, <2>1, Zenon DEF PInv, Inside, Pending, IsCall
    <2>6. Reads(t, n)
        BY <1>1, <2>1, <2>3, <2>4, <2>5, Zenon DEF Reads, Read, Handled, process, IsCall
    <2> QED
        BY <2>6, ReadsKeeps
<1> QED
    BY <1>5, <1>6, <1>7, Zenon

\* A system call begins: it moves bytes, of which one buffer is seen.
Begins(t, d, c, total) ==
    /\ call[t] = Idle /\ call' = [call EXCEPT ![t] = c]
    /\ IsCall(c) /\ c.stage = "exit" /\ c.kind # "tls" /\ c.dir = d /\ c.at = moved[d]
    /\ total \in Nat /\ Len(c.buf) <= total /\ moved' = [moved EXCEPT ![d] = @ + total]
    /\ conn' = conn /\ info' = info /\ agent' = agent /\ tls' = tls
    /\ part' \in [Dirs -> {"msg", "body"}] /\ \A e \in Dirs : part'[e] = "body" => Splits(e)
    /\ blame \subseteq blame' /\ blame' \subseteq {"overlap", "mmsg", "mixed", "update", "vec"}
    /\ Overlaps(t, d) => "overlap" \in blame'
    /\ total # Len(c.buf) => "mmsg" \in blame'
    /\ tls[t].on /\ tls[t].dir # d => "mixed" \in blame'
    /\ conn.lib # "none" => c.kind \in {"buf", "vec"} /\ (tls[t].on \/ Alone(t))

LEMMA BeginsKeeps ==
    ASSUME PInv, NEW t \in Threads, NEW d \in Dirs, NEW c, NEW total, Begins(t, d, c, total)
    PROVE  PInv'
<1> USE DEF PInv
<1>1. /\ call'[t] = c /\ call' = [u \in Threads |-> call'[u]]
      /\ \A u \in Threads \ {t} : call'[u] = call[u]
    BY Zenon DEF Begins, Shape
<1>2. /\ moved' \in [Dirs -> Nat] /\ moved[d] \in Nat /\ moved'[d] = moved[d] + total
      /\ \A e \in Dirs : e # d => moved'[e] = moved[e]
    BY DEF Begins, Shape
<1>3. Shape'
    BY <1>1, <1>2, Zenon DEF Begins, Shape, Splits
<1>4. /\ Pending(t, d)' /\ ~Pending(t, d) /\ \A e \in Dirs : Pending(t, e)' => e = d
      /\ \A e \in Dirs : ~Pending(t, e)
      /\ \A u \in Threads \ {t} : \A e \in Dirs : Pending(u, e)' <=> Pending(u, e)
    BY <1>1 DEF Pending, Begins, Idle
<1>5. /\ total \in Nat /\ Len(c.buf) \in Nat /\ Len(c.buf) <= total /\ c.at = moved[d]
      /\ \A u \in Threads : IsCall(call[u])
    BY Zenon DEF Begins, IsCall, Shape
<1>6. Apart'
    <2> SUFFICES ASSUME NEW e \in Dirs, NEW u \in Threads, Pending(u, e)'
                 PROVE  /\ call'[u].at + Len(call'[u].buf) <= moved'[e]
                        /\ \A v \in Threads \ {u} : Pending(v, e)' =>
                              \/ call'[u].at + Len(call'[u].buf) <= call'[v].at
                              \/ call'[v].at + Len(call'[v].buf) <= call'[u].at
        BY Zenon DEF Apart
    <2>1. \A v \in Threads : Pending(v, e) => call[v].at + Len(call[v].buf) <= moved[e]
        BY Zenon DEF Apart
    <2>2. moved[e] \in Nat /\ \A v \in Threads : call[v].at \in Nat /\ Len(call[v].buf) \in Nat
        BY <1>5, Zenon DEF Shape, IsCall
    <2>3. CASE u = t
        BY <1>1, <1>2, <1>4, <1>5, <2>1, <2>2, <2>3
    <2>4. CASE u # t
        <3>1. Pending(u, e) /\ call'[u] = call[u]
            BY <1>1, <1>4, <2>4, Zenon
        <3>2. call[u].at + Len(call[u].buf) <= moved'[e]
            BY <1>2, <1>5, <2>1, <2>2, <3>1, SMTT(20)
        <3>3. ASSUME NEW v \in Threads \ {u}, Pending(v, e)'
              PROVE  \/ call'[u].at + Len(call'[u].buf) <= call'[v].at
                     \/ call'[v].at + Len(call'[v].buf) <= call'[u].at
            <4>1. CASE v = t
                BY <1>1, <1>4, <1>5, <2>1, <3>1, <3>3, <4>1, Zenon
            <4>2. CASE v # t
                <5>1. Pending(v, e) /\ call'[v] = call[v]
                    BY <1>1, <1>4, <3>3, <4>2, Zenon
                <5> QED
                    BY <3>1, <5>1, Zenon DEF Apart
            <4> QED
                BY <4>1, <4>2, Zenon
        <3> QED
            BY <3>1, <3>2, <3>3, Zenon
    <2> QED
        BY <2>3, <2>4, Zenon
<1>7. \A e \in Dirs : Settled(e) \subseteq Settled(e)'
    <2> SUFFICES ASSUME NEW e \in Dirs, NEW b \in Settled(e) PROVE b \in Settled(e)'
        BY Zenon
    <2>1. b \in 1 .. moved[e] /\ \A u \in Threads : Pending(u, e) => b \notin Span(u)
        BY Zenon DEF Settled
    <2>2. moved[e] \in Nat /\ b \in 1 .. moved'[e]
        <3>1. moved[e] \in Nat /\ moved'[e] \in Nat
            BY <1>2, Zenon DEF Shape
        <3>2. moved[e] <= moved'[e]
            BY <1>2, <1>5, <3>1
        <3> QED
            BY <2>1, <3>1, <3>2
    <2>3. ASSUME NEW u \in Threads, Pending(u, e)' PROVE b \notin Span(u)'
        <3>1. CASE u = t
            BY <1>1, <1>4, <1>5, <2>1, <2>2, <2>3, <3>1 DEF Span
        <3>2. CASE u # t
            BY <1>1, <1>4, <2>1, <2>3, <3>2, Zenon DEF Span
        <3> QED
            BY <3>1, <3>2, Zenon
    <2> QED
        BY <2>2, <2>3, Zenon DEF Settled
<1>8. Behind'
    <2> SUFFICES ASSUME NEW e \in Dirs, NEW u \in Threads
                 PROVE  /\ info'.bytes[e] <= Cardinality(Settled(e)')
                        /\ agent'.copy.bytes[e] <= Cardinality(Settled(e)')
                        /\ Pending(u, e)' /\ call'[u].stage = "count" =>
                              call'[u].seq >= 1 /\ call'[u].seq - 1 <= Cardinality(Settled(e)')
        BY Zenon DEF Behind
    <2>1. PICK x, y \in Nat : x = Cardinality(Settled(e)) /\ y = Cardinality(Settled(e)') /\ x <= y
        BY <1>3, <1>7, SettledGrows, Zenon
    <2>2. /\ info'.bytes[e] = info.bytes[e] /\ info.bytes[e] \in Nat
          /\ agent'.copy.bytes[e] = agent.copy.bytes[e] /\ agent.copy.bytes[e] \in Nat
          /\ call[u].seq \in Nat
        BY <1>5 DEF Begins, Shape, IsCall
    <2>3. info.bytes[e] <= x /\ agent.copy.bytes[e] <= x
        BY <2>1, Zenon DEF Behind
    <2>4. CASE u = t
        BY <1>1, <2>1, <2>2, <2>3, <2>4 DEF Begins
    <2>5. CASE u # t
        BY <1>1, <1>4, <2>1, <2>2, <2>3, <2>5 DEF Behind
    <2> QED
        BY <2>4, <2>5, Zenon
<1>9. Exact'
    <2> SUFFICES ASSUME blame' \subseteq {"mixed", "vec"}, NEW e \in Dirs
                 PROVE  /\ (\A u \in Threads : ~Pending(u, e)') => info.bytes[e] = moved'[e]
                        /\ \A u \in Threads : Pending(u, e)' =>
                              /\ \A v \in Threads \ {u} : ~Pending(v, e)'
                              /\ info.bytes[e] = call'[u].at
                              /\ moved'[e] = call'[u].at + Len(call'[u].buf)
                              /\ call'[u].stage = "count" =>
                                    call'[u].held /\ call'[u].seq = call'[u].at + 1
        BY DEF Exact, Begins
    <2>1. blame \subseteq {"mixed", "vec"} /\ ~Overlaps(t, d) /\ total = Len(c.buf)
        BY Zenon DEF Begins
    <2>2. \A u \in Threads : ~Pending(u, d)
        BY <1>4, <2>1, Zenon DEF Overlaps, Pending
    <2>3. CASE e = d
        BY <1>1, <1>2, <1>4, <2>1, <2>2, <2>3 DEF Exact, Begins
    <2>4. CASE e # d
        BY <1>1, <1>2, <1>4, <2>1, <2>4 DEF Exact
    <2> QED
        BY <2>3, <2>4, Zenon
<1>10. Inside'
    <2>1. /\ conn' = conn /\ tls' = tls /\ ("mixed" \notin blame' => "mixed" \notin blame)
          /\ c.kind # "tls"
        BY Zenon DEF Begins
    <2>2. ASSUME NEW u \in Threads, tls[u].on
          PROVE  /\ conn.lib # "none" /\ call'[u].kind # "tls"
                 /\ \A v \in Threads \ {u} : tls[v].on => tls[v].dir # tls[u].dir
        BY <1>1, <2>1, <2>2, Zenon DEF Inside
    <2>3. ASSUME conn.lib # "none", NEW e \in Dirs, NEW u \in Threads, Pending(u, e)'
          PROVE  /\ call'[u].kind \in {"buf", "vec"}
                 /\ Alone(u)' \/ (tls[u].on /\ ("mixed" \notin blame' => tls[u].dir = e))
        <3>1. CASE u = t
            BY <1>1, <1>4, <2>1, <2>3, <3>1, Zenon DEF Begins, Alone
        <3>2. CASE u # t
            <4>1. Pending(u, e) /\ call'[u] = call[u] /\ call[u] # Idle
                BY <1>1, <1>4, <2>3, <3>2 DEF Pending, Idle
            <4>2. ~Alone(u)
                BY <2>3, <3>2, <4>1, Zenon DEF Begins, Alone
            <4> QED
                BY <2>1, <2>3, <4>1, <4>2, Zenon DEF Inside
        <3> QED
            BY <3>1, <3>2, Zenon
    <2> QED
        BY <2>1, <2>2, <2>3, Zenon DEF Inside
<1>11. Records'
    <2> SUFFICES ASSUME blame' \subseteq {"vec"}, conn.lib # "offset", NEW u \in Threads
                 PROVE  /\ tls[u].on => moved'[tls[u].dir] = tls[u].at + tls[u].len
                              + (IF call'[u].stage = "exit" THEN Len(call'[u].buf) ELSE 0)
                        /\ \A e \in Dirs : Returning(u, e)' =>
                              /\ call'[u].from = call'[u].at + 1
                              /\ call'[u].from + call'[u].len = moved'[e] + 1
        BY DEF Records, Begins
    <2>1. blame \subseteq {"vec"} /\ ~Overlaps(t, d) /\ total = Len(c.buf) /\ (tls[t].on => tls[t].dir = d)
        BY Zenon DEF Begins
    <2>2. tls[u] \in TlsRecord /\ tls[u].dir \in Dirs /\ tls[u].at \in Nat /\ tls[u].len \in Nat
        BY Zenon DEF Shape, TlsRecord
    <2>5. /\ tls[u].on => moved[tls[u].dir] = tls[u].at + tls[u].len
                              + (IF call[u].stage = "exit" THEN Len(call[u].buf) ELSE 0)
          /\ \A e \in Dirs : Returning(u, e) =>
                /\ call[u].from = call[u].at + 1 /\ call[u].from + call[u].len = moved[e] + 1
        BY <2>1, Zenon DEF Records
    <2>3. CASE u = t
        <3>1. call[t].stage = "idle" /\ c.stage = "exit"
            BY DEF Begins, Idle
        <3> QED
            BY <1>1, <1>2, <1>5, <2>1, <2>2, <2>5, <2>3, <3>1 DEF Returning
    <2>4. CASE u # t
        <3>1. ~Returning(u, d)
            BY <2>1, <2>4, Zenon DEF Overlaps, Returning
        <3>2. tls[u].on => tls[u].dir # d
            <4> SUFFICES ASSUME tls[u].on PROVE tls[u].dir # d
                BY Zenon
            <4>1. tls[t].on
                BY Zenon DEF Inside, Begins, Alone
            <4> QED
                BY <2>1, <2>4, <4>1, Zenon DEF Inside
        <3> QED
            BY <1>1, <1>2, <2>2, <2>5, <2>4, <3>1, <3>2 DEF Returning
    <2> QED
        BY <2>3, <2>4, Zenon
<1> QED
    BY <1>3, <1>6, <1>8, <1>9, <1>10, <1>11, Zenon

LEMMA BeginKeeps ==
    ASSUME PInv, NEW t \in Threads, NEW d \in Dirs, NEW kind, kind # "tls", NEW p, NEW buf,
           NEW first, NEW total \in Nat, Len(buf) \in Nat, Len(buf) <= total,
           Begin(t, d, kind, p, buf, first, total),
           part' \in [Dirs -> {"msg", "body"}], \A e \in Dirs : part'[e] = "body" => Splits(e),
           conn.lib # "none" => kind \in {"buf", "vec"} /\ (tls[t].on \/ Alone(t))
    PROVE  PInv'
<1>1. PICK c : c = [Idle EXCEPT !.stage = "exit", !.dir = d, !.kind = kind, !.part = p,
                                !.at = moved[d], !.buf = buf, !.first = first]
    BY Zenon
<1>2. c = [stage |-> "exit", dir |-> d, kind |-> kind, part |-> p, at |-> moved[d], buf |-> buf,
           first |-> first, held |-> TRUE, seq |-> 0, report |-> "none", hdr |-> << >>,
           from |-> 0, len |-> 0, due |-> FALSE]
    BY <1>1, Zenon DEF Idle
<1>3. moved[d] \in Nat
    BY Zenon DEF PInv, Shape
<1>4. IsCall(c) /\ c.stage = "exit" /\ c.kind = kind /\ c.dir = d /\ c.at = moved[d] /\ c.buf = buf
    BY <1>2, <1>3 DEF IsCall
<1>5. blame \subseteq {"overlap", "mmsg", "mixed", "update", "vec"}
    BY Zenon DEF PInv, Shape
<1>6. Begins(t, d, c, total)
    BY <1>1, <1>4, <1>5, Zenon DEF Begins, Begin
<1> QED
    BY <1>6, BeginsKeeps, Zenon

LEMMA PieceLength ==
    ASSUME PInv, NEW d \in Dirs, NEW p \in {"msg", "header", "body"}, p # "msg" => Splits(d)
    PROVE  Len(Piece(d, p)) \in Nat
<1>1. /\ conn.request \in Seq(0 .. 255) /\ conn.response \in Seq(0 .. 255)
      /\ conn.proto \in {"kafka", "mysql"} => Len(conn.request) >= 4
    BY DataProbesAssumption, Zenon DEF PInv, Shape
<1>2. CASE p = "msg"
    BY <1>1, <1>2 DEF Piece, Message
<1>3. CASE p # "msg"
    <2>1. Message(d) = conn.request /\ Len(conn.request) >= 4 /\ Len(conn.request) \in Nat
        BY <1>1, <1>3 DEF Splits, Message
    <2>2. Len(SubSeq(conn.request, 1, 4)) = 4
        BY <1>1, <2>1
    <2>3. Len(SubSeq(conn.request, 5, Len(conn.request))) = Len(conn.request) - 4
        BY <1>1, <2>1
    <2> QED
        BY <1>3, <2>1, <2>2, <2>3 DEF Piece, Header, Body
<1> QED
    BY <1>2, <1>3, Zenon

LEMMA MoveKeeps ==
    ASSUME PInv, NEW t \in Threads, NEW s \in conn.calls, NEW p \in {"msg", "header", "body"},
           Move(t, s, p)
    PROVE  PInv'
<1>1. s \in ReadCalls \cup WriteCalls
    BY DataProbesAssumption, Zenon DEF PInv, Shape
<1>2. s.dir \in Dirs /\ s.kind # "tls"
    BY <1>1 DEF ReadCalls, WriteCalls, recvfrom, read, recvmmsg, recvmsg, readv, sendfile64, sendto,
                write, sendmmsg, sendmsg, writev, Dirs
<1>3a. PICK d \in Dirs : d = s.dir
    BY <1>2, Zenon
<1>3. PICK kind, buf : d = s.dir /\ kind = s.kind /\ kind # "tls" /\ buf = Piece(d, p)
    BY <1>2, <1>3a, Zenon
<1>4. p # "msg" => Splits(d)
    BY <1>3, Zenon DEF Move, PInv, Shape
<1>5. Len(buf) \in Nat
    BY <1>3, <1>4, PieceLength, Zenon
<1>6. PICK total : total = IF kind = "mmsg" THEN 2 * Len(buf) ELSE Len(buf)
    BY Zenon
<1>7. total \in Nat /\ Len(buf) <= total
    BY <1>5, <1>6
<1>8. PICK first : Begin(t, d, kind, p, buf, first, total)
    BY <1>3, <1>6, Zenon DEF Move
<1>9. /\ part' \in [Dirs -> {"msg", "body"}] /\ \A e \in Dirs : part'[e] = "body" => Splits(e)
      /\ conn.lib = "none"
    BY <1>3, <1>4, Zenon DEF Move, PInv, Shape
<1> QED
    BY <1>3, <1>5, <1>7, <1>8, <1>9, BeginKeeps, Zenon

LEMMA MoveRecordKeeps ==
    ASSUME PInv, NEW t \in Threads, NEW d \in Dirs, NEW kind \in {"buf", "vec"},
           MoveRecord(t, d, kind)
    PROVE  PInv'
<1>1. Len(Cipher) \in Nat
    BY DataProbesAssumption
<1>2. PICK n \in Nat : n = Len(Cipher) /\ n <= n
    BY <1>1
<1>3. PICK first : Begin(t, d, kind, "msg", Cipher, first, n)
    BY <1>2, Zenon DEF MoveRecord
<1>4. part' \in [Dirs -> {"msg", "body"}] /\ \A e \in Dirs : part'[e] = "body" => Splits(e)
    BY Zenon DEF MoveRecord, PInv, Shape
<1>5. kind # "tls" /\ (tls[t].on \/ Alone(t))
    BY DEF MoveRecord, Alone
<1> QED
    BY <1>1, <1>2, <1>3, <1>4, <1>5, BeginKeeps, Zenon

\* A call that is counted leaves its bytes settled: they were its own.
LEMMA CountSettles ==
    ASSUME PInv, NEW t \in Threads, NEW d \in Dirs, Pending(t, d), moved' = moved,
           call' = [call EXCEPT ![t] = Idle], Shape'
    PROVE  /\ Cardinality(Settled(d)) \in Nat
           /\ Cardinality(Settled(d)') = Cardinality(Settled(d)) + Len(call[t].buf)
           /\ \A e \in Dirs : e # d => Settled(e)' = Settled(e)
<1>1. /\ call'[t] = Idle /\ \A u \in Threads \ {t} : call'[u] = call[u]
      /\ moved[d] \in Nat /\ \A u \in Threads : call[u].at \in Nat /\ Len(call[u].buf) \in Nat
    BY Zenon DEF PInv, Shape, IsCall
<1>2. /\ \A e \in Dirs : ~Pending(t, e)' /\ (e # d => ~Pending(t, e))
      /\ \A u \in Threads \ {t} : \A e \in Dirs : Pending(u, e)' <=> Pending(u, e)
    BY <1>1 DEF Pending, Idle
<1>3. \A e \in Dirs : e # d => Settled(e)' = Settled(e)
    BY <1>1, <1>2, Zenon DEF Settled, Span
<1>4. /\ Span(t) \subseteq 1 .. moved[d]
      /\ \A u \in Threads \ {t} : Pending(u, d) => \A b \in Span(t) : b \notin Span(u)
    <2>1. call[t].at + Len(call[t].buf) <= moved[d]
        BY Zenon DEF PInv, Apart
    <2>2. \A u \in Threads \ {t} : Pending(u, d) => \/ call[t].at + Len(call[t].buf) <= call[u].at
                                                   \/ call[u].at + Len(call[u].buf) <= call[t].at
        BY Zenon DEF PInv, Apart
    <2>3. Span(t) \subseteq 1 .. moved[d]
        BY <1>1, <2>1 DEF Span
    <2>4. ASSUME NEW u \in Threads \ {t}, Pending(u, d), NEW b \in Span(t), b \in Span(u)
          PROVE  FALSE
        <3>1. PICK a, n, i, m \in Nat : /\ a = call[t].at /\ n = Len(call[t].buf)
                                        /\ i = call[u].at /\ m = Len(call[u].buf)
            BY <1>1, Zenon
        <3>2. a + n <= i \/ i + m <= a
            BY <2>2, <2>4, <3>1, Zenon
        <3>3. b \in a + 1 .. a + n /\ b \in i + 1 .. i + m
            BY <2>4, <3>1, Zenon DEF Span
        <3> QED
            BY <3>2, <3>3
    <2> QED
        BY <2>3, <2>4, Zenon
<1>5. Settled(d)' = Settled(d) \cup Span(t) /\ Settled(d) \cap Span(t) = {}
    <2>1. ASSUME NEW b \in Settled(d)' PROVE b \in Settled(d) \cup Span(t)
        BY <1>1, <1>2, <2>1, Zenon DEF Settled, Span
    <2>2. ASSUME NEW b \in Settled(d) PROVE b \in Settled(d)' /\ b \notin Span(t)
        BY <1>1, <1>2, <2>2, Zenon DEF Settled, Span
    <2>3. ASSUME NEW b \in Span(t) PROVE b \in Settled(d)'
        <3>1. b \in 1 .. moved[d] /\ \A u \in Threads \ {t} : Pending(u, d) => b \notin Span(u)
            BY <1>4, <2>3, Zenon
        <3>2. \A u \in Threads \ {t} : Span(u)' = Span(u)
            BY <1>1, Zenon DEF Span
        <3> QED
            BY <1>2, <3>1, <3>2, Zenon DEF Settled
    <2> QED
        BY <2>1, <2>2, <2>3, Zenon
<1>6. IsFiniteSet(Settled(d)) /\ Cardinality(Settled(d)) \in Nat
    BY SettledFinite, FS_CardinalityType, Zenon DEF PInv
<1>7. IsFiniteSet(Span(t)) /\ Cardinality(Span(t)) = Len(call[t].buf)
    <2>1. PICK a, n \in Nat : a = call[t].at /\ n = Len(call[t].buf)
        BY <1>1, Zenon
    <2>2. IsFiniteSet(a + 1 .. a + n) /\ Cardinality(a + 1 .. a + n) = n
        BY FS_Interval
    <2> QED
        BY <2>1, <2>2, Zenon DEF Span
<1>8. Cardinality({}) = 0
    BY FS_EmptySet, Zenon
<1>9. Cardinality(Settled(d) \cup Span(t)) = Cardinality(Settled(d)) + Cardinality(Span(t))
    <2>1. Cardinality(Settled(d) \cup Span(t)) =
              Cardinality(Settled(d)) + Cardinality(Span(t)) - Cardinality(Settled(d) \cap Span(t))
        BY <1>6, <1>7, FS_Union, Zenon
    <2>2. Cardinality(Settled(d) \cap Span(t)) = 0
        BY <1>5, <1>8, Zenon
    <2> QED
        BY <1>1, <1>6, <1>7, <2>1, <2>2
<1> QED
    BY <1>3, <1>5, <1>6, <1>7, <1>9, Zenon

LEMMA CountKeeps ==
    ASSUME IInv, PInv, NEW t \in Threads, Count(t)
    PROVE  PInv'
<1> USE DEF PInv
<1>1. PICK d \in Dirs : d = call[t].dir
    BY Zenon DEF Shape, IsCall
<1>2. PICK n \in Nat : n = Len(call[t].buf)
    BY Zenon DEF Shape, IsCall
<1>3. /\ Pending(t, d) /\ call[t].stage = "count"
      /\ call' = [call EXCEPT ![t] = Idle] /\ conn' = conn /\ moved' = moved /\ part' = part
      /\ tls' = tls /\ agent' = agent /\ blame' = blame
    BY <1>1, Zenon DEF Count, Pending, process, history
<1>4. PICK base \in {info.bytes[d], call[t].seq - 1} :
          info' = IF call[t].held THEN [info EXCEPT !.bytes[d] = base + n] ELSE info
    BY <1>1, <1>2, Zenon DEF Count, Added
<1>5. /\ info.bytes \in [Dirs -> Nat] /\ info.ssl_bytes \in [Dirs -> Nat]
      /\ base \in Nat /\ base + n \in Nat /\ agent.copy.bytes \in [Dirs -> Nat]
    <2>1. info.bytes \in [Dirs -> Nat] /\ info.ssl_bytes \in [Dirs -> Nat]
          /\ agent.copy.bytes \in [Dirs -> Nat]
        BY Zenon DEF Shape
    <2>2. call[t].seq \in Nat /\ call[t].seq >= 1
        BY <1>3, Zenon DEF Shape, Behind, IsCall
    <2> QED
        BY <1>4, <2>1, <2>2
<1>6. /\ info'.ssl_bytes = info.ssl_bytes /\ info'.bytes \in [Dirs -> Nat]
      /\ \A e \in Dirs : e # d => info'.bytes[e] = info.bytes[e]
      /\ call[t].held => info'.bytes[d] = base + n
      /\ ~call[t].held => info'.bytes[d] = info.bytes[d]
    <2>1. CASE call[t].held
        <3>1. info' = [info EXCEPT !.bytes = [info.bytes EXCEPT ![d] = base + n]]
            BY <1>4, <2>1, Zenon
        <3>2. info'.bytes = [info.bytes EXCEPT ![d] = base + n] /\ info'.ssl_bytes = info.ssl_bytes
            BY <3>1, Zenon DEF IInv, TypeInv, IsInfo
        <3> QED
            BY <1>5, <2>1, <3>2, Zenon
    <2>2. CASE ~call[t].held
        BY <1>4, <1>5, <2>2, Zenon
    <2> QED
        BY <2>1, <2>2, Zenon
<1>7. /\ call'[t] = Idle /\ call' = [u \in Threads |-> call'[u]]
      /\ \A u \in Threads \ {t} : call'[u] = call[u]
    BY <1>3, Zenon DEF Shape
<1>8. IsCall(Idle)
    BY DEF IsCall, Idle, Dirs
<1>9. Shape'
    BY <1>3, <1>6, <1>7, <1>8, Zenon DEF Shape, Splits
<1>10. /\ \A e \in Dirs : ~Pending(t, e)' /\ (e # d => ~Pending(t, e))
       /\ \A u \in Threads \ {t} : \A e \in Dirs : Pending(u, e)' <=> Pending(u, e)
    BY <1>1, <1>7 DEF Pending, Idle
<1>11. Apart'
    BY <1>3, <1>7, <1>10 DEF Apart
<1>12. /\ Cardinality(Settled(d)) \in Nat /\ Cardinality(Settled(d)') = Cardinality(Settled(d)) + n
       /\ \A e \in Dirs : e # d => Settled(e)' = Settled(e)
    BY <1>2, <1>3, <1>9, CountSettles, Zenon
<1>13. Behind'
    <2>1. PICK x \in Nat : x = Cardinality(Settled(d)) /\ Cardinality(Settled(d)') = x + n
        BY <1>12, Zenon
    <2>2. base <= x /\ info.bytes[d] <= x /\ agent.copy.bytes[d] <= x
        BY <1>3, <1>4, <2>1, Zenon DEF Behind
    <2>3. info'.bytes[d] <= x + n /\ agent'.copy.bytes[d] <= x + n
        BY <1>3, <1>5, <1>6, <2>2
    <2>4. \A u \in Threads \ {t} : Pending(u, d) /\ call[u].stage = "count" =>
              call[u].seq >= 1 /\ call[u].seq - 1 <= x + n
        BY <2>1 DEF Behind, Shape, IsCall
    <2>5. ASSUME NEW e \in Dirs, e # d
          PROVE  /\ info'.bytes[e] <= Cardinality(Settled(e)')
                 /\ agent'.copy.bytes[e] <= Cardinality(Settled(e)')
                 /\ \A u \in Threads : Pending(u, e)' /\ call'[u].stage = "count" =>
                       call'[u].seq >= 1 /\ call'[u].seq - 1 <= Cardinality(Settled(e)')
        BY <1>3, <1>6, <1>7, <1>10, <1>12, <2>5, Zenon DEF Behind
    <2> QED
        BY <1>7, <1>10, <2>1, <2>3, <2>4, <2>5, Zenon DEF Behind
<1>14. Exact'
    <2> SUFFICES ASSUME blame \subseteq {"mixed", "vec"}, NEW e \in Dirs
                 PROVE  /\ (\A u \in Threads : ~Pending(u, e)') => info'.bytes[e] = moved[e]
                        /\ \A u \in Threads : Pending(u, e)' =>
                              /\ \A v \in Threads \ {u} : ~Pending(v, e)'
                              /\ info'.bytes[e] = call'[u].at
                              /\ moved[e] = call'[u].at + Len(call'[u].buf)
                              /\ call'[u].stage = "count" =>
                                    call'[u].held /\ call'[u].seq = call'[u].at + 1
        BY <1>3 DEF Exact
    <2>1. CASE e = d
        <3>1. /\ call[t].held /\ call[t].seq = call[t].at + 1 /\ info.bytes[d] = call[t].at
              /\ moved[d] = call[t].at + n /\ \A u \in Threads \ {t} : ~Pending(u, d)
            BY <1>2, <1>3, Zenon DEF Exact
        <3>2. call[t].at \in Nat
            BY Zenon DEF Shape, IsCall
        <3>3. info'.bytes[d] = moved[d]
            BY <1>4, <1>6, <3>1, <3>2
        <3> QED
            BY <1>10, <2>1, <3>1, <3>3, Zenon
    <2>2. CASE e # d
        BY <1>6, <1>7, <1>10, <2>2 DEF Exact
    <2> QED
        BY <2>1, <2>2, Zenon
<1>15. Inside'
    BY <1>3, <1>7, <1>10 DEF Inside, Idle, Alone
<1>16. Records'
    BY <1>3, <1>7 DEF Records, Returning, Idle
<1> QED
    BY <1>9, <1>11, <1>13, <1>14, <1>15, <1>16, Zenon

\* A step that neither begins, reads nor counts a system call.
StillPending ==
    /\ conn' = conn /\ moved' = moved /\ part' = part
    /\ \A d \in Dirs : \A u \in Threads :
          /\ Pending(u, d)' <=> Pending(u, d)
          /\ Pending(u, d) => /\ call'[u].at = call[u].at /\ call'[u].buf = call[u].buf
                              /\ call'[u].seq = call[u].seq /\ call'[u].stage = call[u].stage
                              /\ call'[u].kind = call[u].kind
    /\ \A d \in Dirs : /\ info'.bytes[d] \in {info.bytes[d], agent.copy.bytes[d]}
                       /\ agent'.copy.bytes[d] \in {info.bytes[d], agent.copy.bytes[d], 0}

LEMMA StillBehind ==
    ASSUME PInv, StillPending
    PROVE  Apart' /\ Behind'
<1> USE DEF PInv
<1>1. \A d \in Dirs : Settled(d)' = Settled(d)
    BY Zenon DEF StillPending, Settled, Span
<1>2. Apart'
    BY DEF Apart, StillPending
<1>3. \A d \in Dirs : Cardinality(Settled(d)) >= 0
    BY SettledFinite DEF Shape
<1>4. Behind'
    BY <1>1, <1>3, Zenon DEF Behind, StillPending
<1> QED
    BY <1>2, <1>4, Zenon

\* Such a step, if it also leaves the counters alone.
LEMMA StillExact ==
    ASSUME PInv, StillPending,
           blame' \subseteq {"mixed", "vec"} =>
               /\ blame \subseteq {"mixed", "vec"}
               /\ \A d \in Dirs : info'.bytes[d] = info.bytes[d]
               /\ \A t \in Threads : call[t].stage = "count" /\ call[t].held => call'[t].held
    PROVE  Exact'
<1> SUFFICES ASSUME blame' \subseteq {"mixed", "vec"}, NEW d \in Dirs
             PROVE  /\ (\A t \in Threads : ~Pending(t, d)') => info'.bytes[d] = moved'[d]
                    /\ \A t \in Threads : Pending(t, d)' =>
                          /\ \A u \in Threads \ {t} : ~Pending(u, d)'
                          /\ info'.bytes[d] = call'[t].at
                          /\ moved'[d] = call'[t].at + Len(call'[t].buf)
                          /\ call'[t].stage = "count" =>
                                call'[t].held /\ call'[t].seq = call'[t].at + 1
    BY Zenon DEF Exact
<1>1. blame \subseteq {"mixed", "vec"} /\ info'.bytes[d] = info.bytes[d] /\ moved' = moved
    BY Zenon DEF StillPending
<1>2. (\A t \in Threads : ~Pending(t, d)') => info'.bytes[d] = moved'[d]
    BY <1>1, Zenon DEF Exact, PInv, StillPending
<1>3. ASSUME NEW t \in Threads, Pending(t, d)'
      PROVE  /\ \A u \in Threads \ {t} : ~Pending(u, d)'
             /\ info'.bytes[d] = call'[t].at
             /\ moved'[d] = call'[t].at + Len(call'[t].buf)
             /\ call'[t].stage = "count" => call'[t].held /\ call'[t].seq = call'[t].at + 1
    BY <1>1, <1>3 DEF Exact, PInv, StillPending
<1> QED
    BY <1>2, <1>3, Zenon

LEMMA TlsEnterKeeps ==
    ASSUME IInv, PInv, NEW t \in Threads, NEW s \in TlsCalls, TlsEnter(t, s)
    PROVE  PInv'
<1> USE DEF PInv
<1>1. s.dir \in Dirs /\ s.lib # "none"
    BY DEF TlsCalls, SSL_read, SSL_write, SSL_read_offset, SSL_write_offset, tls_conn_write,
           tls_conn_read, Dirs
<1>2. PICK d \in Dirs : d = s.dir
    BY <1>1, Zenon
<1>3. /\ conn.lib # "none" /\ call[t] = Idle /\ ~tls[t].on
      /\ \A u \in Threads : tls[u].on => tls[u].dir # d
      /\ \A u \in Threads : call[u] = Idle \/ tls[u].on \/ call[u].kind = "tls"
      /\ tls' = [tls EXCEPT ![t] = [on |-> TRUE, dir |-> d, len |-> 0, at |-> moved[d]]]
      /\ conn' = conn /\ moved' = moved /\ part' = part /\ call' = call /\ agent' = agent
      /\ blame' = blame /\ info' = [info EXCEPT !.ssl = @ \/ s.lib = "offset"]
    BY <1>1, <1>2, Zenon DEF TlsEnter, history
<1>4. info'.bytes = info.bytes /\ info'.ssl_bytes = info.ssl_bytes
    BY <1>3, Zenon DEF IInv, TypeInv, IsInfo
<1>5. /\ tls'[t] = [on |-> TRUE, dir |-> d, len |-> 0, at |-> moved[d]]
      /\ \A u \in Threads \ {t} : tls'[u] = tls[u]
      /\ tls' \in [Threads -> TlsRecord] /\ moved[d] \in Nat
    BY <1>3, Zenon DEF Shape, TlsRecord
<1>6. Shape'
    BY <1>3, <1>4, <1>5, Zenon DEF Shape, Splits
<1>7. StillPending
    BY <1>3, <1>4, Zenon DEF StillPending, Pending
<1>8. Exact'
    BY <1>3, <1>4, <1>7, StillExact, Zenon
<1>9. call[t].stage = "idle" /\ call[t].kind = "buf"
    BY <1>3 DEF Idle
<1>10. Inside'
    BY <1>3, <1>5, <1>9 DEF Inside, Pending, Alone
<1>11. Records'
    <2> SUFFICES ASSUME blame \subseteq {"vec"}, conn.lib # "offset", NEW u \in Threads
                 PROVE  /\ tls'[u].on => moved[tls'[u].dir] = tls'[u].at + tls'[u].len
                              + (IF call[u].stage = "exit" THEN Len(call[u].buf) ELSE 0)
                        /\ \A e \in Dirs : Returning(u, e) =>
                              /\ call[u].from = call[u].at + 1
                              /\ call[u].from + call[u].len = moved[e] + 1
        BY <1>3, Zenon DEF Records, Returning
    <2>1. CASE u = t
        BY <1>5, <1>9, <2>1 DEF Returning
    <2>2. CASE u # t
        BY <1>5, <2>2, Zenon DEF Records
    <2> QED
        BY <2>1, <2>2, Zenon
<1> QED
    BY <1>6, <1>7, <1>8, <1>10, <1>11, StillBehind, Zenon

LEMMA TlsFailKeeps ==
    ASSUME PInv, NEW t \in Threads, TlsFail(t)
    PROVE  PInv'
<1> USE DEF PInv
<1>1. /\ tls' = [tls EXCEPT ![t] = NoTls] /\ call[t] = Idle
      /\ conn' = conn /\ moved' = moved /\ part' = part /\ call' = call /\ agent' = agent
      /\ blame' = blame /\ info' = info
    BY Zenon DEF TlsFail, process, history
<1>2. ~tls'[t].on /\ (\A u \in Threads \ {t} : tls'[u] = tls[u]) /\ tls' \in [Threads -> TlsRecord]
    BY <1>1, Zenon DEF Shape, TlsRecord, NoTls, Dirs
<1>3. Shape'
    BY <1>1, <1>2, Zenon DEF Shape, Splits
<1>4. StillPending
    BY <1>1, Zenon DEF StillPending, Pending
<1>5. Exact'
    BY <1>1, <1>4, StillExact, Zenon
<1>6. call[t].stage = "idle"
    BY <1>1 DEF Idle
<1>7. Inside'
    BY <1>1, <1>2, <1>6 DEF Inside, Pending, Alone
<1>8. Records'
    BY <1>1, <1>2, <1>6, Zenon DEF Records, Returning
<1> QED
    BY <1>3, <1>4, <1>5, <1>7, <1>8, StillBehind, Zenon

\* No system call is under way in the direction of a TLS call that returns, so the
\* counter stands at the end of its records.
LEMMA SslKeeps ==
    ASSUME IInv, PInv, NEW t \in Threads, NEW buf \in Returned(tls[t].dir),
           process_ssl_data(t, buf)
    PROVE  PInv'
<1> USE DEF PInv
<1>1. PICK d \in Dirs : d = tls[t].dir
    BY Zenon DEF Shape, TlsRecord
<1>2. PICK len, at \in Nat : len = tls[t].len /\ at = tls[t].at
    BY Zenon DEF Shape, TlsRecord
<1>3. Len(buf) \in Nat
    <2>1. Len(Message(d)) \in Nat /\ Len(<< >>) \in Nat
        BY PieceLength DEF Piece
    <2> QED
        BY <1>1, <2>1, Zenon DEF Returned
<1>5. PICK i, r, report :
                  /\ Result(i, r) /\ i.bytes = info.bytes /\ i.ssl_bytes = info.ssl_bytes
                  /\ Handled(t, r, [Idle EXCEPT !.stage = "count", !.kind = "tls", !.dir = d,
                         !.buf = buf, !.report = report,
                         !.at = at, !.seq = info.ssl_bytes[d] + 1,
                         !.from = SyscallSeq(d, len), !.len = len])
    <2> DEFINE i == [info EXCEPT !.ssl = TRUE]
               r == IF Untold(i) THEN Infer(i, d, buf, Len(buf)) ELSE Same(i)
               report == IF Reports(r) /\ buf # << >> THEN "data" ELSE "none"
    <2>1. IsInfo(i)
        BY MarkedInfo, Zenon
    <2>2. i.bytes = info.bytes /\ i.ssl_bytes = info.ssl_bytes
        BY Zenon DEF IInv, TypeInv, IsInfo
    <2>3. Result(i, r)
        BY <2>1, InferResult, SameResult, Zenon
    <2>4. Handled(t, r, [Idle EXCEPT !.stage = "count", !.kind = "tls", !.dir = d,
                         !.buf = buf, !.report = report,
                         !.at = at, !.seq = info.ssl_bytes[d] + 1,
                         !.from = SyscallSeq(d, len), !.len = len])
        BY <1>1, <1>2, Zenon DEF process_ssl_data
    <2> QED
        BY <2>2, <2>3, <2>4, Zenon
<1>6. PICK c : c = [Idle EXCEPT !.stage = "count", !.kind = "tls", !.dir = d,
                         !.buf = buf, !.report = report,
                         !.at = at, !.seq = info.ssl_bytes[d] + 1,
                         !.from = SyscallSeq(d, len), !.len = len, !.due = known']
    BY Zenon
<1>7. /\ c.stage = "count" /\ c.kind = "tls" /\ c.dir = d /\ c.at = at /\ c.buf = buf
      /\ c.from = SyscallSeq(d, len) /\ c.len = len /\ c.seq = info.ssl_bytes[d] + 1 /\ c.held
      /\ c = [stage |-> c.stage, dir |-> c.dir, kind |-> c.kind, part |-> c.part, at |-> c.at,
              buf |-> c.buf, first |-> c.first, held |-> c.held, seq |-> c.seq,
              report |-> c.report, hdr |-> c.hdr, from |-> c.from, len |-> c.len, due |-> c.due]
    BY <1>6, Zenon DEF Idle
<1>8. /\ call' = [call EXCEPT ![t] = c] /\ info' = r.info
      /\ conn' = conn /\ moved' = moved /\ part' = part /\ agent' = agent /\ blame' = blame
      /\ tls[t].on /\ call[t] = Idle /\ tls' = [tls EXCEPT ![t] = NoTls]
    BY <1>5, <1>6, Zenon DEF process_ssl_data, Handled, process
<1>9. info'.bytes = info.bytes /\ info'.ssl_bytes = info.ssl_bytes
    BY <1>5, <1>8, Zenon DEF Result
<1>10. /\ info.ssl_bytes[d] \in Nat /\ info.bytes[d] \in Nat
       /\ SyscallSeq(d, len) = info.bytes[d] + 1 - len
    BY Zenon DEF Shape, SyscallSeq
<1>11. IsCall(c)
    BY <1>3, <1>7, <1>10 DEF IsCall
<1>12. /\ call'[t] = c /\ call' = [u \in Threads |-> call'[u]]
       /\ \A u \in Threads \ {t} : call'[u] = call[u]
    BY <1>8, Zenon DEF Shape
<1>13. ~tls'[t].on /\ (\A u \in Threads \ {t} : tls'[u] = tls[u]) /\ tls' \in [Threads -> TlsRecord]
    BY <1>8, Zenon DEF Shape, TlsRecord, NoTls, Dirs
<1>14. Shape'
    BY <1>8, <1>9, <1>11, <1>12, <1>13, Zenon DEF Shape, Splits
<1>15. \A e \in Dirs : ~Pending(t, e) /\ ~Pending(t, e)'
    BY <1>7, <1>8, <1>12 DEF Pending, Idle
<1>16. StillPending
    BY <1>8, <1>9, <1>12, <1>15 DEF StillPending, Pending
<1>17. Exact'
    BY <1>7, <1>8, <1>9, <1>12, <1>16, StillExact, Zenon DEF Idle
<1>18. Inside'
    BY <1>8, <1>12, <1>13, <1>15 DEF Inside, Pending, Alone
<1>19. Records'
    <2> SUFFICES ASSUME blame \subseteq {"vec"}, conn.lib # "offset", NEW u \in Threads
                 PROVE  /\ tls'[u].on => moved[tls'[u].dir] = tls'[u].at + tls'[u].len
                              + (IF call'[u].stage = "exit" THEN Len(call'[u].buf) ELSE 0)
                        /\ \A e \in Dirs : Returning(u, e)' =>
                              /\ call'[u].from = call'[u].at + 1
                              /\ call'[u].from + call'[u].len = moved[e] + 1
        BY <1>8 DEF Records
    <2>1. CASE u = t
        <3>1. conn.lib # "none"
            BY <1>8, Zenon DEF Inside
        <3>2. ASSUME NEW v \in Threads, Pending(v, d) PROVE FALSE
            <4>1. v # t
                BY <1>15, <3>2, Zenon
            <4>2. tls[v].on /\ tls[v].dir = d
                BY <1>8, <3>1, <3>2, Zenon DEF Inside, Alone
            <4> QED
                BY <1>1, <1>8, <4>1, <4>2 DEF Inside
        <3>3. info.bytes[d] = moved[d]
            BY <3>2, Zenon DEF Exact
        <3>4. moved[d] = at + len
            BY <1>1, <1>2, <1>8 DEF Records, Idle
        <3>5. c.from = at + 1 /\ c.from + c.len = moved[d] + 1
            BY <1>7, <1>10, <3>3, <3>4
        <3> QED
            BY <1>7, <1>12, <1>13, <2>1, <3>5, Zenon DEF Returning
    <2>2. CASE u # t
        BY <1>12, <1>13, <2>2 DEF Records, Returning
    <2> QED
        BY <2>1, <2>2, Zenon
<1> QED
    BY <1>14, <1>16, <1>17, <1>18, <1>19, StillBehind, Zenon

LEMMA CountTlsKeeps ==
    ASSUME IInv, PInv, NEW t \in Threads, CountTls(t)
    PROVE  PInv'
<1> USE DEF PInv
<1>1. PICK d \in Dirs, n \in Nat : d = call[t].dir /\ n = Len(call[t].buf)
    BY Zenon DEF Shape, IsCall
<1>2. /\ call[t].stage = "count" /\ call[t].kind = "tls" /\ call' = [call EXCEPT ![t] = Idle]
      /\ conn' = conn /\ moved' = moved /\ part' = part /\ tls' = tls /\ agent' = agent
      /\ blame' = blame
      /\ info' = IF call[t].held THEN [info EXCEPT !.ssl_bytes[d] = @ + n] ELSE info
    BY <1>1, Zenon DEF CountTls, process, history
<1>3. info'.bytes = info.bytes /\ info'.ssl_bytes \in [Dirs -> Nat]
    <2>1. PICK b \in [Dirs -> Nat] : info' = [info EXCEPT !.ssl_bytes = b] \/ info' = info
        <3>1. [info.ssl_bytes EXCEPT ![d] = @ + n] \in [Dirs -> Nat]
            BY DEF Shape
        <3> QED
            BY <1>2, <3>1, Zenon
    <2> QED
        BY <2>1, Zenon DEF Shape, IInv, TypeInv, IsInfo
<1>4. /\ call'[t] = Idle /\ call' = [u \in Threads |-> call'[u]]
      /\ \A u \in Threads \ {t} : call'[u] = call[u]
    BY <1>2, Zenon DEF Shape
<1>5. IsCall(Idle)
    BY DEF IsCall, Idle, Dirs
<1>6. Shape'
    BY <1>2, <1>3, <1>4, <1>5, Zenon DEF Shape, Splits
<1>7. \A e \in Dirs : ~Pending(t, e) /\ ~Pending(t, e)'
    BY <1>2, <1>4, Zenon DEF Pending, Idle
<1>8. StillPending
    BY <1>2, <1>3, <1>4, <1>7, Zenon DEF StillPending, Pending
<1>9. Exact'
    BY <1>2, <1>3, <1>4, <1>8, StillExact, Zenon DEF Idle
<1>10. Inside'
    BY <1>2, <1>4, <1>7 DEF Inside, Pending, Idle, Alone
<1>11. Records'
    BY <1>2, <1>4 DEF Records, Returning, Idle, Inside
<1> QED
    BY <1>6, <1>8, <1>9, <1>10, <1>11, StillBehind, Zenon

\* The agent takes an event or reads the element; or nothing happens.
LEMMA AgentReadsKeeps ==
    ASSUME PInv, conn' = conn, moved' = moved, part' = part, call' = call, tls' = tls,
           info' = info, blame' = blame,
           \/ agent'.copy = agent.copy
           \/ agent'.copy.bytes = info.bytes /\ agent'.copy.ssl_bytes = info.ssl_bytes
    PROVE  PInv'
<1> USE DEF PInv
<1>1. Shape'
    BY Zenon DEF Shape, Splits
<1>2. StillPending
    BY Zenon DEF StillPending, Pending
<1>3. Exact'
    BY <1>2, StillExact, Zenon
<1>4. Inside' /\ Records'
    BY DEF Inside, Records, Pending, Returning, Alone
<1> QED
    BY <1>1, <1>2, <1>3, <1>4, StillBehind, Zenon

\* The agent replaces the element.  Nothing is upset if no handler was at work and
\* the copy is no older than what it replaces.
LEMMA UpdateWriteKeeps ==
    ASSUME IInv, PInv, UpdateWrite
    PROVE  PInv'
<1> USE DEF PInv
<1>1. /\ info' = agent.copy /\ conn' = conn /\ moved' = moved /\ part' = part /\ tls' = tls
      /\ call' = [t \in Threads |-> [call[t] EXCEPT !.held = call[t].stage # "count"]]
      /\ agent' = [agent EXCEPT !.plan = Tail(@), !.busy = FALSE, !.copy = NewInfo]
    BY Zenon DEF UpdateWrite, process
<1>2. \A t \in Threads : IsCall(call[t])
    BY Zenon DEF Shape
<1>3. ASSUME NEW t \in Threads
      PROVE  /\ IsCall(call'[t]) /\ call'[t].stage = call[t].stage /\ call'[t].kind = call[t].kind
             /\ call'[t].dir = call[t].dir /\ call'[t].at = call[t].at
             /\ call'[t].buf = call[t].buf /\ call'[t].seq = call[t].seq
             /\ call'[t].from = call[t].from /\ call'[t].len = call[t].len
    <2>1. PICK c : c = call[t] /\ IsCall(c)
        BY <1>2, Zenon
    <2>2. PICK n : n = [c EXCEPT !.held = c.stage # "count"]
        BY Zenon
    <2>3. call'[t] = n
        BY <1>1, <2>1, <2>2, Zenon
    <2>4. /\ n = [stage |-> n.stage, dir |-> n.dir, kind |-> n.kind, part |-> n.part, at |-> n.at,
                  buf |-> n.buf, first |-> n.first, held |-> n.held, seq |-> n.seq,
                  report |-> n.report, hdr |-> n.hdr, from |-> n.from, len |-> n.len,
                  due |-> n.due]
          /\ n.stage = c.stage /\ n.kind = c.kind /\ n.dir = c.dir /\ n.at = c.at /\ n.buf = c.buf
          /\ n.seq = c.seq /\ n.from = c.from /\ n.len = c.len /\ n.held = (c.stage # "count")
        BY <2>1, <2>2, Zenon DEF IsCall
    <2>5. c.stage = "idle" => n = Idle
        BY <2>1, <2>2 DEF IsCall, Idle
    <2>6. IsCall(n)
        BY <2>1, <2>4, <2>5, Zenon DEF IsCall
    <2> QED
        BY <2>1, <2>3, <2>4, <2>6, Zenon
<1>4. /\ agent'.copy = NewInfo /\ NewInfo.bytes = [d \in Dirs |-> 0]
      /\ NewInfo.ssl_bytes = [d \in Dirs |-> 0]
    BY <1>1, Zenon DEF IInv, TypeInv, IsAgent, NewInfo
<1>5. blame \subseteq blame' /\ blame' \subseteq {"overlap", "mmsg", "mixed", "update", "vec"}
    BY Zenon DEF UpdateWrite, Shape
<1>6. Shape'
    <2>1. call' = [t \in Threads |-> call'[t]]
        BY <1>1, Zenon
    <2>2. agent'.copy.bytes \in [Dirs -> Nat] /\ agent'.copy.ssl_bytes \in [Dirs -> Nat]
        BY <1>4
    <2>3. info'.bytes \in [Dirs -> Nat] /\ info'.ssl_bytes \in [Dirs -> Nat]
        BY <1>1, Zenon DEF Shape
    <2>4. /\ conn' = conn /\ moved' = moved /\ part' = part /\ tls' = tls
          /\ \A t \in Threads : IsCall(call'[t])
        BY <1>1, <1>3, Zenon
    <2> QED
        BY <1>5, <2>1, <2>2, <2>3, <2>4, Zenon DEF Shape, Splits
<1>7. StillPending
    BY <1>1, <1>3, <1>4 DEF StillPending, Pending
<1>8. ASSUME "update" \notin blame'
      PROVE  info'.bytes = info.bytes /\ \A t \in Threads : call[t].stage # "count"
    <2>1. /\ [info EXCEPT !.no_trace = agent.copy.no_trace] = agent.copy
          /\ \A t \in Threads : call[t].stage # "count"
        BY <1>8, Zenon DEF UpdateWrite
    <2> QED
        BY <1>1, <2>1, Zenon DEF IInv, TypeInv, IsInfo
<1>9. Exact'
    BY <1>5, <1>7, <1>8, StillExact, Zenon
<1>10. Inside'
    <2>1. /\ conn' = conn /\ tls' = tls /\ ("mixed" \notin blame' => "mixed" \notin blame)
          /\ \A t \in Threads : call'[t].kind = call[t].kind
          /\ \A d \in Dirs : \A t \in Threads : Pending(t, d)' => Pending(t, d)
        BY <1>1, <1>3, <1>5, Zenon DEF Pending
    <2> QED
        <3>1. \A t \in Threads : Alone(t) => Alone(t)'
            <4>1. \A t \in Threads : call[t] = Idle => call'[t] = Idle
                BY <1>1, <1>3 DEF IsCall, Idle
            <4> QED
                BY <2>1, <4>1, Zenon DEF Alone
        <3>2. ASSUME NEW t \in Threads, tls'[t].on
              PROVE  /\ conn'.lib # "none" /\ call'[t].kind # "tls"
                     /\ \A u \in Threads \ {t} : tls'[u].on => tls'[u].dir # tls'[t].dir
            BY <2>1, <3>2, Zenon DEF Inside
        <3>3. ASSUME conn'.lib # "none", NEW d \in Dirs, NEW t \in Threads, Pending(t, d)'
              PROVE  /\ call'[t].kind \in {"buf", "vec"}
                     /\ Alone(t)' \/ (tls'[t].on /\ ("mixed" \notin blame' => tls'[t].dir = d))
            BY <2>1, <3>1, <3>3, Zenon DEF Inside
        <3> QED
            BY <3>2, <3>3, Zenon DEF Inside
<1>11. Records'
    BY <1>1, <1>3, <1>5 DEF Records, Returning
<1> QED
    BY <1>6, <1>7, <1>9, <1>10, <1>11, StillBehind, Zenon

LEMMA PositionsInit == Init => PInv
<1> SUFFICES ASSUME Init PROVE PInv
    OBVIOUS
<1>1. IsCall(Idle) /\ NoTls \in TlsRecord
    BY DEF IsCall, Idle, Dirs, TlsRecord, NoTls
<1>2. Shape
    BY <1>1, Zenon DEF Init, Shape, NewInfo, NoAgent
<1>3. \A t \in Threads, d \in Dirs : ~Pending(t, d) /\ ~Returning(t, d)
    BY Zenon DEF Init, Pending, Returning, Idle
<1>4. \A d \in Dirs : Cardinality(Settled(d)) >= 0
    BY <1>2, SettledFinite DEF Shape
<1>5. Apart /\ Behind
    BY <1>3, <1>4, Zenon DEF Apart, Behind, Init, NewInfo, NoAgent
<1>6. Exact
    BY <1>3, Zenon DEF Exact, Init, NewInfo
<1>7. Inside /\ Records
    BY <1>3, Zenon DEF Inside, Records, Init, NoTls
<1> QED
    BY <1>2, <1>5, <1>6, <1>7, Zenon DEF PInv

LEMMA PositionsNext == IInv /\ PInv /\ [Next]_vars => PInv'
<1> SUFFICES ASSUME IInv, PInv, [Next]_vars PROVE PInv'
    BY Zenon
<1>1. ASSUME NEW t \in Threads, Process(t) PROVE PInv'
    BY <1>1, MoveKeeps, MoveRecordKeeps, TlsEnterKeeps, TlsFailKeeps, Zenon DEF Process
<1>2. ASSUME NEW t \in Threads, Handler(t) PROVE PInv'
    BY <1>2, SyscallKeeps, CountKeeps, SslKeeps, CountTlsKeeps, Zenon DEF Handler
<1>3. CASE ProtocolInfer
    <2>1. agent'.copy = agent.copy
        BY <1>3, Zenon DEF ProtocolInfer, IInv, TypeInv, IsAgent
    <2> QED
        BY <1>3, <2>1, AgentReadsKeeps, Zenon DEF ProtocolInfer, process, history
<1>4. CASE UpdateLookup
    <2>1. \/ agent'.copy = agent.copy
          \/ agent'.copy.bytes = info.bytes /\ agent'.copy.ssl_bytes = info.ssl_bytes
        BY <1>4, Zenon DEF UpdateLookup, IInv, TypeInv, IsAgent, IsInfo
    <2> QED
        BY <1>4, <2>1, AgentReadsKeeps, Zenon DEF UpdateLookup, process, probes, history
<1>5. CASE UpdateWrite
    BY <1>5, UpdateWriteKeeps, Zenon
<1>6. CASE UNCHANGED vars
    BY <1>6, AgentReadsKeeps, Zenon DEF vars, process, probes, history
<1> QED
    BY <1>1, <1>2, <1>3, <1>4, <1>5, <1>6, Zenon DEF Next, Agent

\* The sequence number reported for a system call is the position of its bytes in the
\* stream, and no counter in conn_info_map is ever ahead of the bytes moved, however
\* many threads there are and whatever the agent replaces.
THEOREM ReportedAtPosition == Spec => []SeqIsPosition
<1>1. IInv /\ PInv => SeqIsPosition
    <2> SUFFICES ASSUME PInv PROVE SeqIsPosition
        BY Zenon
    <2>1. ASSUME NEW d \in Dirs PROVE info.bytes[d] \in 0 .. moved[d]
        <3>1. PICK x \in Nat : x = Cardinality(Settled(d)) /\ x <= moved[d]
            BY SettledFinite DEF PInv, Shape
        <3> QED
            BY <3>1 DEF PInv, Shape, Behind
    <2>2. TypeOK
        BY <2>1, Zenon DEF TypeOK, PInv, Shape, IsCall
    <2>3. ASSUME blame \subseteq {"mixed", "vec"}, NEW t \in Threads, Reported(t),
                 call[t].kind # "tls"
          PROVE  call[t].seq = call[t].at + 1
        <3>1. PICK d \in Dirs : Pending(t, d) /\ call[t].stage = "count"
            BY <2>3, Zenon DEF Reported, Pending, PInv, Shape, IsCall
        <3> QED
            BY <2>3, <3>1, Zenon DEF PInv, Exact
    <2> QED
        BY <2>2, <2>3, Zenon DEF SeqIsPosition
<1> QED
    BY InitHolds, NextKeeps, PositionsInit, PositionsNext, <1>1, PTL DEF Spec

\* A TLS event names the records that were moved inside its TLS call, all of them and
\* no others.
THEOREM EventNamesRecords == Spec => []TlsRange
<1>1. IInv /\ PInv => TlsRange
    <2> SUFFICES ASSUME PInv, blame \subseteq {"vec"}, conn.lib # "offset",
                        NEW t \in Threads, Reported(t), call[t].kind = "tls"
                 PROVE  /\ call[t].from = call[t].at + 1
                        /\ call[t].from + call[t].len = moved[call[t].dir] + 1
        BY Zenon DEF TlsRange
    <2>1. PICK d \in Dirs : d = call[t].dir /\ Returning(t, d)
        BY Zenon DEF Reported, Returning, PInv, Shape, IsCall
    <2> QED
        BY <2>1, Zenon DEF PInv, Records
<1> QED
    BY InitHolds, NextKeeps, PositionsInit, PositionsNext, <1>1, PTL DEF Spec
=============================================================================
