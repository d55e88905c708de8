------------------------------ MODULE ConnTrack ------------------------------
(***************************************************************************)
(* Connection tracking: the connections of a traced process as the kernel  *)
(* sees them, the events about them, and the three kinds of goroutine that *)
(* share the agent's tables.                                               *)
(*                                                                         *)
(*   - The Processor (agent/conn/processor.go) takes connect, infer and    *)
(*     close events as they come, and data events after they have spent    *)
(*     Delay in a queue.                                                   *)
(*   - Every close event starts a goroutine that calls OnClose after       *)
(*     CloseWait.                                                          *)
(*   - The sweeper of InitConnManager removes closed connections.          *)
(*                                                                         *)
(* A connection object is named by its index in objs, a kernel connection  *)
(* by its index in kern; 0 names none.  The file descriptors belong to one *)
(* Processor, so one Processor is modelled.  Steps of the Processor and of *)
(* the sweeper end at the accesses of the two tables they share, which     *)
(* are connMap (by process and descriptor) and sockMap (ConnectionMap in   *)
(* the code, by socket key).                                               *)
(***************************************************************************)
EXTENDS Integers, Sequences, FiniteSets, FiniteSetsExt

CONSTANTS Fds,            \* process and descriptor pairs (TgidFd)
          Addrs,          \* socket keys
          Kinds,          \* kinds of data events: "syscall", "ssl", "kern"
          Wanted,         \* protocols the message filter accepts
          Unwanted,       \* protocols it refuses
          Delay,          \* time a data event is held back
          ConnLag,        \* longest time a connection event waits
          CloseWait,      \* time between a close event and OnClose
          AddressReuse,   \* whether a socket key may be used again
          MaxConns,       \* bound on kernel connections
          MaxData,        \* bound on data events of a connection and kind
          MaxTime         \* bound on the clock

ASSUME ConnTrackAssumption ==
    /\ Kinds \subseteq {"syscall", "ssl", "kern"}
    /\ {Delay, ConnLag, CloseWait, MaxConns, MaxData, MaxTime} \subseteq Nat
    /\ AddressReuse \in BOOLEAN
    /\ {"unset", "unknown"} \cap (Wanted \cup Unwanted) = {}

VARIABLES now,        \* the clock; every kernel event has a time of its own
          kern,       \* the kernel's connections, in the order they began
          connInfo,   \* ConnInfoMap: the kernel connection and no_trace of a descriptor
          sockIds,    \* SockKeyConnIdMap: the descriptor and no_trace of a socket key
          connEvents, \* connection events not yet handled
          dataEvents, \* the Processor's delay queues, by kind
          objs,       \* every Connection4 made so far
          applied,    \* the data given to the streams of each of them
          connMap,    \* ConnManager.connMap
          sockMap,    \* ConnectionMap
          proc,       \* the Processor inside AddConnection4
          closing,    \* delayed OnClose calls: object and due time
          sweep,      \* the sweeper
          dropped,    \* data events the Processor gave up
          removed     \* kernel connections whose object was taken out of the tables

env == <<kern, connInfo, sockIds>>
tables == <<objs, applied, connMap, sockMap>>
history == <<dropped, removed>>
vars == <<now, env, connEvents, dataEvents, tables, proc, closing, sweep, history>>

Protocols == Wanted \cup Unwanted \cup {"unset", "unknown"}
Traces == {"unset", "traceable", "unknown", "notMatched"}
Idle == [pc |-> "idle", obj |-> 0, existed |-> 0]
Resting == [visit |-> {}, needsDelete |-> {}, obj |-> 0]
NoSockId == [fd |-> 0, noTrace |-> "unset"]

IsTraceable(trace) == trace \in {"unset", "traceable"}

Init ==
    /\ now = 0
    /\ kern = << >>
    /\ connInfo = [f \in Fds |-> [k |-> 0, noTrace |-> "unset"]]
    /\ sockIds = [a \in Addrs |-> NoSockId]
    /\ connEvents = << >>
    /\ dataEvents = [d \in Kinds |-> << >>]
    /\ objs = << >>
    /\ applied = << >>
    /\ connMap = [f \in Fds |-> 0]
    /\ sockMap = [a \in Addrs |-> 0]
    /\ proc = Idle
    /\ closing = {}
    /\ sweep = Resting
    /\ dropped = {}
    /\ removed = {}
-----------------------------------------------------------------------------
(* The kernel.                                                             *)

\* The clock runs on after the last kernel event until all that waits is due.
Horizon == MaxTime + Delay + ConnLag + CloseWait + 1

\* Time passes only as far as the Processor keeps up with connection events.
Advance ==
    /\ \A i \in DOMAIN connEvents : now + 1 - connEvents[i].ts <= ConnLag
    /\ now' = now + 1

KernelEvent == now < MaxTime /\ Advance

ConnEvent(type, k, proto) == [type |-> type, k |-> k, proto |-> proto, ts |-> now + 1]

Open(k) == kern[k].end = 0

\* connect or accept returns: the maps get their entries and a connect event is reported.
create_conn_info(f, a) ==
    LET k == Len(kern) + 1 IN
    /\ KernelEvent
    /\ k <= MaxConns
    /\ connInfo[f].k = 0
    /\ \A j \in DOMAIN kern : kern[j].addr = a => AddressReuse /\ ~Open(j)
    /\ kern' = Append(kern, [fd |-> f, addr |-> a, start |-> now + 1, end |-> 0,
                             proto |-> "unset", seq |-> [d \in Kinds |-> 0]])
    /\ connInfo' = [connInfo EXCEPT ![f] = [k |-> k, noTrace |-> "unset"]]
    /\ sockIds' = IF sockIds[a] = NoSockId
                  THEN [sockIds EXCEPT ![a] = [fd |-> f, noTrace |-> "unset"]]
                  ELSE sockIds
    /\ connEvents' = Append(connEvents, ConnEvent("connect", k, "unset"))
    /\ UNCHANGED <<dataEvents, tables, proc, closing, sweep, history>>

process_syscall_close(f) ==
    LET k == connInfo[f].k IN
    /\ KernelEvent
    /\ k # 0
    /\ kern' = [kern EXCEPT ![k].end = now + 1]
    /\ connEvents' = Append(connEvents, ConnEvent("close", k, kern[k].proto))
    /\ connInfo' = [connInfo EXCEPT ![f] = [k |-> 0, noTrace |-> "unset"]]
    /\ sockIds' = [sockIds EXCEPT ![kern[k].addr] = NoSockId]
    /\ UNCHANGED <<dataEvents, tables, proc, closing, sweep, history>>

DataEvent(kind, k, f) ==
    [kind |-> kind, k |-> k, fd |-> f, ts |-> now + 1, seq |-> kern[k].seq[kind] + 1]

\* A data system call, or a TLS call, with a buffer.  The protocol is inferred
\* from the buffer until it is known.
process_syscall_data(kind, f, inferred) ==
    LET k == connInfo[f].k
        infers == kern[k].proto # inferred
    IN
    /\ KernelEvent
    /\ k # 0
    /\ kern[k].seq[kind] < MaxData
    /\ kern[k].proto \notin {"unset", "unknown"} => inferred = kern[k].proto
    /\ inferred # "unset"
    /\ kern' = [kern EXCEPT ![k].proto = inferred, ![k].seq[kind] = @ + 1]
    /\ connEvents' = IF infers THEN Append(connEvents, ConnEvent("infer", k, inferred))
                     ELSE connEvents
    /\ dataEvents' =
           IF /\ inferred # "unknown"
              /\ infers \/ connInfo[f].noTrace # "notMatched"
           THEN [dataEvents EXCEPT ![kind] = Append(@, DataEvent(kind, k, f))]
           ELSE dataEvents
    /\ UNCHANGED <<connInfo, sockIds, tables, proc, closing, sweep, history>>

\* A packet of the connection passes a probe of the network stack.
report_kern_evt(k) ==
    LET id == sockIds[kern[k].addr] IN
    /\ KernelEvent
    /\ Open(k)
    /\ id # NoSockId
    /\ IsTraceable(id.noTrace)
    /\ connInfo[id.fd].k # 0
    /\ kern[connInfo[id.fd].k].proto # "unknown"
    /\ kern[k].seq["kern"] < MaxData
    /\ kern' = [kern EXCEPT ![k].seq["kern"] = @ + 1]
    /\ dataEvents' = [dataEvents EXCEPT !["kern"] = Append(@, DataEvent("kern", k, id.fd))]
    /\ UNCHANGED <<connInfo, sockIds, connEvents, tables, proc, closing, sweep, history>>

Tick ==
    /\ now < Horizon
    /\ Advance
    /\ UNCHANGED <<env, connEvents, dataEvents, tables, proc, closing, sweep, history>>
-----------------------------------------------------------------------------
(* Connection4 and the tables.                                             *)

timeBoundCheck(obj, ts) ==
    \/ obj.ConnectStartTs = 0
    \/ /\ obj.ConnectStartTs <= ts
       /\ obj.CloseTs = 0 \/ ts <= obj.CloseTs

\* Mutants: no search among earlier objects; no look at the time.
LookupNewestOnly(f, ts) ==
    IF connMap[f] # 0 /\ objs[connMap[f]].ConnectStartTs < ts THEN connMap[f] ELSE 0
LookupIgnoringTime(f, ts) == connMap[f]

\* The newest object of the descriptor, or the newest earlier one in whose
\* life the time falls.
LookupConnection4ByTimestamp(f, ts) ==
    LET o == connMap[f]
        fits(i) == timeBoundCheck(objs[objs[o].prevConn[i]], ts)
        earlier == {i \in DOMAIN objs[o].prevConn : fits(i)}
    IN
    IF o = 0 THEN 0
    ELSE IF objs[o].ConnectStartTs < ts THEN o
    ELSE IF earlier = {} THEN 0
    ELSE objs[o].prevConn[CHOOSE i \in earlier : \A j \in earlier : j <= i]

WithPrevious(os) == os \cup UNION {Range(objs[o].prevConn) : o \in os}

\* Mutant: the keys of earlier objects stay.
RemoveOwnKeyOnly(map, os) ==
    [a \in Addrs |-> IF \E o \in os : objs[o].addr = a THEN 0 ELSE map[a]]

\* A socket key's entry goes, whichever object it leads to.
RemoveConnFromSockKeyMap(map, os) ==
    [a \in Addrs |->
        IF \E o \in WithPrevious(os) : objs[o].addr = a THEN 0 ELSE map[a]]

NewConn(ev) ==
    [k |-> ev.k, fd |-> kern[ev.k].fd, addr |-> kern[ev.k].addr,
     ConnectStartTs |-> ev.ts, CloseTs |-> 0, Status |-> "Connected",
     Protocol |-> ev.proto, tracable |-> "unset", prevConn |-> << >>, temp |-> << >>]

\* A kernel event whose sequence number the object has seen changes nothing; it
\* is refused unless it is the earlier one.
SameSeq(x, e) == x.kind = "kern" /\ e.kind = "kern" /\ x.seq = e.seq
Refused(o, e) == \E x \in Range(applied[o]) : SameSeq(x, e) /\ x.ts <= e.ts

AddEvent(seen, e) ==
    IF \E x \in Range(seen) : SameSeq(x, e) THEN seen ELSE Append(seen, e)

\* What an object has seen after the events have been given to OnSyscallEvent,
\* OnSslDataEvent or OnKernEvent.
Applied(seen, events) ==
    LET upTo[i \in 0..Len(events)] ==
            IF i = 0 THEN seen ELSE AddEvent(upTo[i - 1], events[i])
    IN  upTo[Len(events)]
-----------------------------------------------------------------------------
(* The Processor.                                                          *)

\* NewConnFromEvent: a new object enters the socket key table.
NewConnFromEvent ==
    LET ev == Head(connEvents) IN
    /\ proc.pc = "idle"
    /\ connEvents # << >>
    /\ \/ ev.type = "connect"
       \/ /\ ev.type = "infer"
          /\ LookupConnection4ByTimestamp(kern[ev.k].fd, ev.ts) = 0
    /\ objs' = Append(objs, NewConn(ev))
    /\ applied' = Append(applied, << >>)
    /\ sockMap' = [sockMap EXCEPT ![kern[ev.k].addr] = Len(objs) + 1]
    /\ proc' = [pc |-> "find", obj |-> Len(objs) + 1, existed |-> 0]
    /\ UNCHANGED <<now, env, connEvents, dataEvents, connMap, closing, sweep, history>>

FindConnection4Exactly ==
    /\ proc.pc = "find"
    /\ proc' = [proc EXCEPT !.pc = "add", !.existed = connMap[objs[proc.obj].fd]]
    /\ UNCHANGED <<now, env, connEvents, dataEvents, tables, closing, sweep, history>>

TraceState(proto) ==
    IF proto \in Wanted THEN "traceable"
    ELSE IF proto = "unknown" THEN "unknown" ELSE "notMatched"

\* The events held back until the protocol is known to be a wanted one.
flushed(obj) ==
    LET inTime(e) == timeBoundCheck(obj, e.ts) IN SelectSeq(obj.temp, inTime)

Inferred(obj, proto) ==
    [obj EXCEPT !.Protocol = proto, !.tracable = TraceState(proto),
                !.temp = IF proto \in Wanted THEN << >> ELSE @]

\* Mutant: only the socket key's entry is written.
UpdateSockIdsOnly(obj, proto) ==
    /\ sockIds' = IF sockIds[obj.addr] = NoSockId THEN sockIds
                  ELSE [sockIds EXCEPT ![obj.addr].noTrace = TraceState(proto)]
    /\ UNCHANGED connInfo

UpdateConnectionTraceable(obj, proto) ==
    LET state == TraceState(proto) IN
    IF obj.tracable = state
    THEN UNCHANGED <<connInfo, sockIds>>
    ELSE /\ sockIds' = IF sockIds[obj.addr] = NoSockId THEN sockIds
                       ELSE [sockIds EXCEPT ![obj.addr].noTrace = state]
         /\ connInfo' = IF connInfo[obj.fd].k = 0 THEN connInfo
                        ELSE [connInfo EXCEPT ![obj.fd].noTrace = state]

\* The rest of ProtocolInfer once the object is known: events held back until
\* now are applied if the protocol is wanted, and the trace state is written to
\* the object and to the kernel's maps, by descriptor and by socket key.  Those outside
\* the time of the connection are given up.
Infer(os, o, proto) ==
    /\ objs' = [os EXCEPT ![o] = Inferred(@, proto)]
    /\ applied' = IF proto \in Wanted
                  THEN [applied EXCEPT ![o] = Applied(@, flushed(os[o]))]
                  ELSE applied
    /\ dropped' = IF proto \in Wanted
                  THEN dropped \cup (Range(os[o].temp) \ Range(flushed(os[o])))
                  ELSE dropped
    /\ UpdateConnectionTraceable(objs[o], proto)

\* Of the earlier objects those up to the last closed one are deleted.
DeleteEnd(prev) == Max({0} \cup {i \in DOMAIN prev : objs[prev[i]].Status = "Closed"})

Deleted(prev) == {prev[i] : i \in 1..DeleteEnd(prev)}

\* Mutant: the object that is replaced is forgotten.
KeptWithoutExisted(prev, ex) == SubSeq(prev, DeleteEnd(prev) + 1, Len(prev))
Kept(prev, ex) == Append(SubSeq(prev, DeleteEnd(prev) + 1, Len(prev)), ex)

Superseded(obj) == [obj EXCEPT !.prevConn = << >>, !.temp = << >>]

\* AddConnection4 with the object found before, and what follows it.
AddConnection4 ==
    LET ev == Head(connEvents)
        n == proc.obj
        ex == proc.existed
        prev == objs[ex].prevConn
        replaces == ex # 0 /\ objs[ex].addr # objs[n].addr
        added == IF replaces
                 THEN [objs EXCEPT ![ex] = Superseded(@),
                                   ![n].prevConn = Kept(prev, ex),
                                   ![n].temp = objs[ex].temp]
                 ELSE objs
    IN
    /\ proc.pc = "add"
    /\ connMap' = IF ex = 0 \/ replaces THEN [connMap EXCEPT ![objs[n].fd] = n] ELSE connMap
    /\ sockMap' = IF replaces THEN RemoveConnFromSockKeyMap(sockMap, Deleted(prev)) ELSE sockMap
    /\ removed' = IF replaces
                  THEN removed \cup {objs[o].k : o \in Range(prev) \ Range(Kept(prev, ex))}
                  ELSE removed
    /\ IF ev.type = "infer"
       THEN Infer(added, n, ev.proto)
       ELSE /\ objs' = added
            /\ UNCHANGED <<applied, connInfo, sockIds, dropped>>
    /\ connEvents' = Tail(connEvents)
    /\ proc' = Idle
    /\ UNCHANGED <<now, kern, dataEvents, closing, sweep>>

ProtocolInfer ==
    LET ev == Head(connEvents)
        o == LookupConnection4ByTimestamp(kern[ev.k].fd, ev.ts)
    IN
    /\ proc.pc = "idle"
    /\ connEvents # << >>
    /\ ev.type = "infer"
    /\ o # 0
    /\ IF objs[o].Status # "Closed"
       THEN Infer(objs, o, ev.proto)
       ELSE UNCHANGED <<objs, applied, connInfo, sockIds, dropped>>
    /\ connEvents' = Tail(connEvents)
    /\ UNCHANGED <<now, kern, dataEvents, connMap, sockMap, proc, closing, sweep, removed>>

\* The newest object of the descriptor is marked and its OnClose scheduled.
CloseEvent ==
    LET ev == Head(connEvents)
        o == connMap[kern[ev.k].fd]
    IN
    /\ proc.pc = "idle"
    /\ connEvents # << >>
    /\ ev.type = "close"
    /\ IF o = 0
       THEN UNCHANGED <<objs, closing>>
       ELSE /\ objs' = [objs EXCEPT ![o].CloseTs = ev.ts]
            /\ closing' = closing \cup {[obj |-> o, due |-> now + CloseWait]}
    /\ connEvents' = Tail(connEvents)
    /\ UNCHANGED <<now, env, dataEvents, applied, connMap, sockMap, proc, sweep, history>>

\* What becomes of a data event of the object: "apply", "keep" or "drop".
SyscallFate(o, e) ==
    CASE objs[o].Protocol \in Wanted \cup Unwanted /\ timeBoundCheck(objs[o], e.ts) -> "apply"
      [] objs[o].Protocol = "unset" -> "keep"
      [] OTHER -> "drop"

SslFate(o, e) ==
    IF objs[o].Protocol \in Wanted \cup Unwanted THEN "apply" ELSE "keep"

KernFate(o, e) ==
    CASE objs[o].Protocol = "unknown" -> "drop"
      [] objs[o].Protocol # "unknown" /\ ~Refused(o, e) -> "apply"
      [] objs[o].Protocol = "unset" /\ Refused(o, e) -> "keep"
      [] OTHER -> "drop"

Fate(o, e) ==
    IF o = 0 \/ ~IsTraceable(objs[o].tracable) THEN "drop"
    ELSE CASE e.kind = "syscall" -> SyscallFate(o, e)
           [] e.kind = "ssl" -> SslFate(o, e)
           [] e.kind = "kern" -> KernFate(o, e)

\* Mutant: the event stays in its queue.
NotDequeued(kind) == dataEvents
Dequeued(kind) == [dataEvents EXCEPT ![kind] = Tail(@)]

\* The oldest event of a delay queue, once it has waited long enough.
ProcessDataEvent(kind) ==
    LET e == Head(dataEvents[kind])
        o == LookupConnection4ByTimestamp(e.fd, e.ts)
        fate == Fate(o, e)
    IN
    /\ proc.pc = "idle"
    /\ dataEvents[kind] # << >>
    /\ now - e.ts > Delay
    /\ applied' = IF fate = "apply" THEN [applied EXCEPT ![o] = AddEvent(@, e)] ELSE applied
    /\ objs' = IF fate = "keep" THEN [objs EXCEPT ![o].temp = Append(@, e)] ELSE objs
    /\ dropped' = IF fate = "drop" THEN dropped \cup {e} ELSE dropped
    /\ dataEvents' = Dequeued(kind)
    /\ UNCHANGED <<now, env, connEvents, connMap, sockMap, proc, closing, sweep, removed>>
-----------------------------------------------------------------------------
(* The goroutine of a close event, and the sweeper.                        *)

\* Mutant: the goroutine closes the descriptor's object of the time it runs.
OnCloseOfNewest(c) ==
    LET o == connMap[objs[c.obj].fd] IN
    /\ c.due <= now
    /\ objs' = IF o = 0 THEN objs ELSE [objs EXCEPT ![o].Status = "Closed"]
    /\ sockIds' = [sockIds EXCEPT ![objs[c.obj].addr] = NoSockId]
    /\ closing' = closing \ {c}
    /\ UNCHANGED <<now, kern, connInfo, connEvents, dataEvents, applied, connMap, sockMap, proc,
                   sweep, history>>

OnClose(c) ==
    /\ c.due <= now
    /\ objs' = [objs EXCEPT ![c.obj].Status = "Closed"]
    /\ sockIds' = [sockIds EXCEPT ![objs[c.obj].addr] = NoSockId]
    /\ closing' = closing \ {c}
    /\ UNCHANGED <<now, kern, connInfo, connEvents, dataEvents, applied, connMap, sockMap, proc,
                   sweep, history>>

IsClosed(f) == connMap[f] # 0 /\ objs[connMap[f]].Status = "Closed"

\* A round of the ticker.  Rounds that would find nothing change nothing.
SweepBegin ==
    /\ sweep = Resting
    /\ \E f \in Fds : IsClosed(f)
    /\ sweep' = [Resting EXCEPT !.visit = Fds]
    /\ UNCHANGED <<now, env, connEvents, dataEvents, tables, proc, closing, history>>

SweepVisit(f) ==
    /\ f \in sweep.visit
    /\ sweep' = [sweep EXCEPT !.visit = @ \ {f},
                              !.needsDelete = IF IsClosed(f) THEN @ \cup {f} ELSE @]
    /\ UNCHANGED <<now, env, connEvents, dataEvents, tables, proc, closing, history>>

\* LoadAndDelete takes whatever object the descriptor has by now.
SweepLoadAndDelete(f) ==
    /\ sweep.visit = {}
    /\ sweep.obj = 0
    /\ f \in sweep.needsDelete
    /\ sweep' = [sweep EXCEPT !.needsDelete = @ \ {f}, !.obj = connMap[f]]
    /\ connMap' = [connMap EXCEPT ![f] = 0]
    /\ removed' = removed \cup {objs[o].k : o \in WithPrevious({connMap[f]} \ {0})}
    /\ UNCHANGED <<now, env, connEvents, dataEvents, objs, applied, sockMap, proc, closing, dropped>>

SweepRemoveKeys ==
    /\ sweep.obj # 0
    /\ sockMap' = RemoveConnFromSockKeyMap(sockMap, {sweep.obj})
    /\ sweep' = [sweep EXCEPT !.obj = 0]
    /\ UNCHANGED <<now, env, connEvents, dataEvents, objs, applied, connMap, proc, closing, history>>
-----------------------------------------------------------------------------
Kernel ==
    \/ \E f \in Fds, a \in Addrs : create_conn_info(f, a)
    \/ \E f \in Fds : process_syscall_close(f)
    \/ \E d \in Kinds \ {"kern"}, f \in Fds, p \in Protocols : process_syscall_data(d, f, p)
    \/ "kern" \in Kinds /\ \E k \in DOMAIN kern : report_kern_evt(k)

Processor ==
    \/ NewConnFromEvent
    \/ FindConnection4Exactly
    \/ AddConnection4
    \/ ProtocolInfer
    \/ CloseEvent
    \/ \E d \in Kinds : ProcessDataEvent(d)

Sweeper ==
    \/ SweepBegin
    \/ \E f \in Fds : SweepVisit(f) \/ SweepLoadAndDelete(f)
    \/ SweepRemoveKeys

Closer == \E c \in closing : OnClose(c)

Next == Kernel \/ Tick \/ Processor \/ Closer \/ Sweeper

Spec == Init /\ [][Next]_vars

\* The goroutines run, and the clock does not stop.
FairSpec == /\ Spec
            /\ WF_vars(Tick)
            /\ WF_vars(Processor)
            /\ WF_vars(Closer)
            /\ WF_vars(Sweeper)
-----------------------------------------------------------------------------
Objects == DOMAIN objs

TypeOK ==
    /\ now \in 0..Horizon
    /\ Len(kern) <= MaxConns
    /\ \A k \in DOMAIN kern : kern[k].proto \in Protocols
    /\ connInfo \in [Fds -> [k : 0..Len(kern), noTrace : Traces]]
    /\ sockIds \in [Addrs -> {NoSockId} \cup [fd : Fds, noTrace : Traces]]
    /\ \A o \in Objects :
        /\ objs[o].Protocol \in Protocols
        /\ objs[o].tracable \in Traces
        /\ objs[o].Status \in {"Connected", "Closed"}
        /\ \A p \in Range(objs[o].prevConn) : p \in 1..(o - 1) /\ objs[p].prevConn = << >>
    /\ connMap \in [Fds -> 0..Len(objs)]
    /\ sockMap \in [Addrs -> 0..Len(objs)]
    /\ proc.obj \in 0..Len(objs) /\ proc.existed \in 0..Len(objs)

\* Data is applied to the object of its own connection: the descriptor of an
\* object may have had other connections before and have others after it, and
\* LookupConnection4ByTimestamp tells them apart by time.
AppliedToItsConnection ==
    \A o \in Objects : \A e \in Range(applied[o]) :
        kern[e.k].fd = objs[o].fd /\ kern[e.k].addr = objs[o].addr

\* The data of a connection is applied in the order it was captured in and once,
\* whether it was held until the protocol was inferred or not.
AppliedInOrder ==
    \A o \in Objects : \A i, j \in DOMAIN applied[o] :
        LET x == applied[o][i]
            y == applied[o][j]
        IN  i < j /\ x.kind = y.kind /\ x.kind # "kern" => x.ts < y.ts

\* Only connections that were closed are marked closed, although OnClose runs
\* later and the descriptor may have a new connection by then.
ClosedOnlyAfterClose ==
    \A o \in Objects : objs[o].Status = "Closed" => kern[objs[o].k].end # 0

SoleUser(k) == \A j \in DOMAIN kern : kern[j].addr = kern[k].addr => j = k

\* The news of the connection that the Processor has not taken in, although they are
\* older than the event.
NewsBefore(e) == {i \in DOMAIN connEvents : connEvents[i].k = e.k /\ connEvents[i].ts <= e.ts}

\* Captured data of a connection with a wanted protocol is not given up by the
\* Processor, neither at once nor after it was held back, unless the connection was
\* taken out of the tables, or is taken for an earlier one with the same descriptor and
\* addresses, or the event that tells its protocol is still in the queue.
WantedDataIsKept ==
    [][\A e \in dropped' \ dropped :
         e.kind # "kern" /\ kern[e.k].proto \in Wanted /\ SoleUser(e.k)
         => e.k \in removed \/ NewsBefore(e) # {}]_vars

Current == {connMap[f] : f \in Fds} \ {0}

\* The variables keep their types, and socket keys and tracked connections match.
\* A tracked connection that is not closed is found by its socket key, which is
\* how the first packets of a connection get to it.  (A connection that the
\* sweeper removed while it was open may come back with an infer event and lose
\* its key to the same sweep; and a key that is used again goes with the object of
\* its first connection.)  And no socket key outlives its connections: it is the
\* key of one that the tables still hold, or that AddConnection4 or the sweeper has
\* in hand.
KeysMatchTracked ==
    /\ TypeOK
    /\ \A o \in WithPrevious(Current) :
        /\ objs[o].Status = "Connected"
        /\ objs[o].k \notin removed
        /\ SoleUser(objs[o].k)
        => sockMap[objs[o].addr] = o
    /\ \A a \in Addrs : sockMap[a] # 0 =>
        \E o \in WithPrevious(Current \cup ({proc.obj, proc.existed, sweep.obj} \ {0})) :
            objs[o].addr = a

\* The kernel traces the connections that the agent holds to be traceable,
\* although trace states are written by descriptor and may be written for a
\* connection that has gone.
TraceStateReachesKernel ==
    \A f \in Fds :
        LET o == connMap[f] IN
        /\ o # 0
        /\ connInfo[f].k # 0
        /\ objs[o].tracable = "traceable"
        /\ objs[o].k = connInfo[f].k
        => connInfo[f].noTrace = "traceable"

\* When the connections are gone, so are their entries in both tables.
TablesDrain ==
    <>[](\A k \in DOMAIN kern : kern[k].end # 0)
        => <>[](\A f \in Fds, a \in Addrs : connMap[f] = 0 /\ sockMap[a] = 0)
=============================================================================
