-------------------------- MODULE ConnProbesProofs --------------------------
(***************************************************************************)
(* No entry of sock_key_conn_id_map outlives the socket of its key, unless *)
(* the handler that writes it found the socket before it went, for any     *)
(* number of threads, descriptors, addresses and connections               *)
(* (EntriesHaveSockets).                                                   *)
(***************************************************************************)
EXTENDS ConnProbes, FiniteSetTheorems, TLAPS

IsConn(r) == r = [addr |-> r.addr, fd |-> r.fd, st |-> r.st, marks |-> r.marks]
IsCall(r) ==
    /\ DOMAIN r = {"op", "fd", "c", "rec", "addr"}
    /\ r.op \in {"connect", "accept"} => r.fd \in Fds

Shape ==
    /\ conns = [c \in Ids |-> conns[c]] /\ \A c \in Ids : IsConn(conns[c])
    /\ call = [t \in Threads |-> call[t]] /\ \A t \in Threads : IsCall(call[t])
    /\ fdTable \in [Fds -> 0 .. MaxConns]
    /\ sock_key_conn_id_map = [k \in Keys |-> sock_key_conn_id_map[k]]
    /\ spent \in Nat

\* A descriptor refers to an open connection that knows it.
TableIsOpen ==
    \A f \in Fds : fdTable[f] # 0 => /\ conns[fdTable[f]].st = "open"
                                     /\ conns[fdTable[f]].fd = f

\* Connections are numbered without gaps, so that a new one replaces none.
Numbered == \E n \in 0 .. MaxConns : \A c \in Ids : conns[c].st # "none" <=> c <= n

\* The connection of a handler that has found a socket: its addresses are the ones the
\* handler has read, as long as it is alive.
Found(r) ==
    /\ r.c \in Ids
    /\ conns[r.c].st = "gone" \/ (r.c \in Alive /\ conns[r.c].addr = r.addr)

FoundIsAlive == \A t \in Threads : Writing(t) => Found(call[t])

IInv == Shape /\ TableIsOpen /\ Numbered /\ FoundIsAlive

\* An entry that is left without a socket in this step is one a handler writes late.
OrphansAreLate ==
    \A k \in Keys : Orphan(k)' /\ ~Orphan(k) =>
        \E t \in Threads : /\ call[t].op = "filed" /\ call'[t] = Idle
                           /\ parse_sock_key_sk(call[t].addr) = k
                           /\ conns[call[t].c].st = "gone"
-----------------------------------------------------------------------------
\* The step does to connections no more than mark them.
SameConns ==
    /\ conns' = [c \in Ids |-> conns'[c]]
    /\ \A c \in Ids : /\ IsConn(conns'[c])
                      /\ conns'[c].addr = conns[c].addr
                      /\ conns'[c].fd = conns[c].fd
                      /\ conns'[c].st = conns[c].st

\* The step adds no entries, and none comes back.
FewerEntries ==
    /\ sock_key_conn_id_map' = [k \in Keys |-> sock_key_conn_id_map'[k]]
    /\ \A k \in Keys : sock_key_conn_id_map'[k] # NoFd => sock_key_conn_id_map[k] # NoFd

\* A step that leaves connections, or entries, alone.
LEMMA Unchanged ==
    ASSUME IInv, conns' = conns
    PROVE  SameConns
BY DEF IInv, Shape, SameConns

LEMMA UnchangedEntries ==
    ASSUME IInv, sock_key_conn_id_map' = sock_key_conn_id_map
    PROVE  FewerEntries
BY DEF IInv, Shape, FewerEntries

\* Sockets that are alive stay so, with their addresses; those that are gone stay gone.
Stay ==
    \A c \in Ids : /\ c \in Alive => /\ conns'[c].st \in {"open", "closed"}
                                     /\ conns'[c].addr = conns[c].addr
                   /\ conns[c].st = "gone" => conns'[c].st = "gone"

\* What the handlers at work have found, in terms of the connections before the step.
CallsFound ==
    /\ call' = [t \in Threads |-> call'[t]] /\ \A t \in Threads : IsCall(call'[t])
    /\ \A t \in Threads : call'[t].op \in {"found", "filed"} => Found(call'[t])

\* An entry has its socket as long as no socket goes and no entry is added.
LEMMA NoOrphan ==
    ASSUME Stay, FewerEntries
    PROVE  OrphansAreLate
<1> SUFFICES ASSUME NEW k \in Keys, Orphan(k)', ~Orphan(k) PROVE FALSE
    BY DEF OrphansAreLate
<1>1. sock_key_conn_id_map'[k] # NoFd /\ sock_key_conn_id_map[k] # NoFd
    BY DEF Orphan, FewerEntries
<1>2. PICK c \in Alive : parse_sock_key_sk(conns[c].addr) = k
    BY <1>1 DEF Orphan, Key
<1>3. c \in Alive' /\ parse_sock_key_sk(conns'[c].addr) = k
    BY <1>2 DEF Stay, Alive
<1> QED
    BY <1>3 DEF Orphan, Key

LEMMA FoundStays ==
    ASSUME Stay, CallsFound
    PROVE  FoundIsAlive'
<1> SUFFICES ASSUME NEW t \in Threads, call'[t].op \in {"found", "filed"}
             PROVE  /\ call'[t].c \in Ids
                    /\ \/ conns'[call'[t].c].st = "gone"
                       \/ /\ call'[t].c \in Alive'
                          /\ conns'[call'[t].c].addr = call'[t].addr
    BY DEF FoundIsAlive, Writing, Found
<1>1. /\ call'[t].c \in Ids
      /\ \/ conns[call'[t].c].st = "gone"
         \/ call'[t].c \in Alive /\ conns[call'[t].c].addr = call'[t].addr
    BY DEF CallsFound, Found
<1> QED
    BY <1>1 DEF Stay, Alive

\* Handlers that are left alone have found what they had.
LEMMA CallsKept ==
    ASSUME IInv, call' = call
    PROVE  CallsFound
BY DEF IInv, Shape, FoundIsAlive, Writing, CallsFound

\* One thread goes on.
LEMMA CallsBut ==
    ASSUME IInv, NEW t \in Threads, NEW q, call' = [call EXCEPT ![t] = q], IsCall(q),
           q.op \in {"found", "filed"} => Found(q)
    PROVE  CallsFound
<1>0. call = [u \in Threads |-> call[u]]
    BY DEF IInv, Shape
<1>1. \A u \in Threads : /\ IsCall(call[u])
                         /\ call[u].op \in {"found", "filed"} => Found(call[u])
    BY DEF IInv, Shape, FoundIsAlive, Writing
<1>2. \A u \in Threads : call'[u] = IF u = t THEN q ELSE call[u]
    BY <1>0
<1>3. call' = [u \in Threads |-> call'[u]]
    BY <1>0
<1>4. ASSUME NEW u \in Threads
      PROVE  IsCall(call'[u]) /\ (call'[u].op \in {"found", "filed"} => Found(call'[u]))
    <2>1. CASE u = t
        <3>1. call'[u] = q
            BY <1>2, <2>1
        <3> QED
            BY <3>1
    <2>2. CASE u # t
        <3>1. call'[u] = call[u]
            BY <1>2, <2>2
        <3>2. IsCall(call[u]) /\ (call[u].op \in {"found", "filed"} => Found(call[u]))
            BY <1>1
        <3>3. IsCall(call'[u])
            BY <3>1, <3>2 DEF IsCall
        <3>4. call'[u].op \in {"found", "filed"} => Found(call'[u])
            BY <3>1, <3>2 DEF Found
        <3> QED
            BY <3>3, <3>4
    <2> QED
        BY <2>1, <2>2
<1> QED
    BY <1>3, <1>4 DEF CallsFound

\* Marks change neither the sockets that are alive nor their addresses.
LEMMA MarkedStay ==
    ASSUME SameConns
    PROVE  Stay
BY DEF SameConns, Stay, Alive

\* A step that only marks connections and adds no entries.
LEMMA QuietKeeps ==
    ASSUME IInv, SameConns, FewerEntries, CallsFound, fdTable' = fdTable, spent' \in Nat
    PROVE  IInv' /\ OrphansAreLate
<1>1. Shape'
    BY DEF IInv, Shape, SameConns, FewerEntries, CallsFound, IsCall, IsConn, Ids, Keys
<1>2. TableIsOpen'
    <2>1. \A f \in Fds : fdTable[f] # 0 => fdTable[f] \in Ids
        BY DEF IInv, Shape, Ids
    <2> QED
        BY <2>1 DEF IInv, TableIsOpen, SameConns
<1>3. Numbered'
    BY DEF IInv, Numbered, SameConns
<1> QED
    BY <1>1, <1>2, <1>3, MarkedStay, FoundStays, NoOrphan DEF IInv
-----------------------------------------------------------------------------
\* The descriptor of an idle thread's record, and of one that runs a system call.
LEMMA IdleShape == IsCall(Idle) /\ Idle.op = "idle"
BY DEF IsCall, Idle

\* What a descriptor refers to is a connection that is alive.
LEMMA TableAlive ==
    ASSUME IInv, NEW f \in Fds, fdTable[f] # 0
    PROVE  fdTable[f] \in Alive
<1>1. fdTable[f] \in Ids
    <2>1. fdTable \in [Fds -> 0 .. MaxConns]
        BY DEF IInv, Shape
    <2> QED
        BY <2>1 DEF Ids
<1>2. conns[fdTable[f]].st = "open"
    BY DEF IInv, TableIsOpen
<1> QED
    BY <1>1, <1>2 DEF Alive

\* The next connection has a number no connection has.
LEMMA FreshNumber ==
    ASSUME IInv, Cardinality(Begun) + 1 + spent \in Ids
    PROVE  /\ Cardinality(Begun) \in 0 .. MaxConns - 1
           /\ \A c \in Ids : conns[c].st # "none" <=> c <= Cardinality(Begun)
<1> PICK n \in 0 .. MaxConns : \A c \in Ids : conns[c].st # "none" <=> c <= n
    BY DEF IInv, Numbered
<1>0. MaxConns \in Nat
    BY BoundsAssumption
<1>1. Begun = 1 .. n
    BY <1>0 DEF Begun, Ids
<1>2. Cardinality(Begun) = n
    BY <1>0, <1>1, FS_Interval
<1> QED
    BY <1>0, <1>2 DEF Ids, IInv, Shape

\* A connection that is marked, or closed and marked.
LEMMA MarkIs == \A c \in Ids : \A ms : \E x : Mark(c, ms) = [conns[c] EXCEPT !.marks = x]
BY DEF Mark

LEMMA MarkedConn ==
    ASSUME NEW r, IsConn(r), NEW ms
    PROVE  /\ IsConn([r EXCEPT !.marks = ms])
           /\ [r EXCEPT !.marks = ms].addr = r.addr
           /\ [r EXCEPT !.marks = ms].fd = r.fd
           /\ [r EXCEPT !.marks = ms].st = r.st
BY DEF IsConn

LEMMA StateConn ==
    ASSUME NEW r, IsConn(r), NEW st
    PROVE  /\ IsConn([r EXCEPT !.st = st])
           /\ [r EXCEPT !.st = st].addr = r.addr
           /\ [r EXCEPT !.st = st].fd = r.fd
           /\ [r EXCEPT !.st = st].st = st
BY DEF IsConn

\* A new socket takes the place of none.
LEMMA OpenKeeps ==
    ASSUME IInv, NEW t \in Threads, NEW f \in Fds, NEW a \in Addrs,
           NEW how \in {"connect", "accept", "unseen"}, Open(t, f, a, how)
    PROVE  IInv' /\ OrphansAreLate
<1> DEFINE c == Cardinality(Begun) + 1
<1>0. /\ MaxConns \in Nat
      /\ c \in Ids
      /\ conns[c].st = "none"
      /\ \A d \in Ids : conns[d].st # "none" <=> d <= c - 1
    BY FreshNumber, BoundsAssumption DEF Open, Ids
<1>a. \A d \in Ids : IsConn(conns[d])
    BY DEF IInv, Shape
<1>b. /\ conns' = [d \in Ids |-> conns'[d]]
      /\ \E ms : conns'[c] = [addr |-> a, fd |-> f, st |-> "open", marks |-> ms]
      /\ \A d \in Ids \ {c} : conns'[d] \in {conns[d], Mark(d, {"untidy"})}
    BY <1>0 DEF Open
<1> HIDE DEF c
<1>1. /\ conns' = [d \in Ids |-> conns'[d]]
      /\ \A d \in Ids : IsConn(conns'[d])
      /\ conns'[c].st = "open" /\ conns'[c].fd = f
      /\ \A d \in Ids \ {c} : /\ conns'[d].addr = conns[d].addr
                            /\ conns'[d].fd = conns[d].fd
                            /\ conns'[d].st = conns[d].st
    <2>1. /\ IsConn(conns'[c])
          /\ conns'[c].st = "open" /\ conns'[c].fd = f
        BY <1>b DEF IsConn
    <2>2. ASSUME NEW d \in Ids \ {c}
          PROVE  /\ IsConn(conns'[d])
                 /\ conns'[d].addr = conns[d].addr
                 /\ conns'[d].fd = conns[d].fd
                 /\ conns'[d].st = conns[d].st
        <3>1. CASE conns'[d] = conns[d]
            BY <1>a, <3>1
        <3>2. CASE conns'[d] = Mark(d, {"untidy"})
            <4> PICK ms : conns'[d] = [conns[d] EXCEPT !.marks = ms]
                BY <3>2, MarkIs
            <4> QED
                BY <1>a, MarkedConn
        <3> QED
            BY <1>b, <3>1, <3>2
    <2> QED
        BY <1>b, <2>1, <2>2
<1>2. /\ fdTable' = [fdTable EXCEPT ![f] = c]
      /\ UNCHANGED <<sock_key_conn_id_map, spent>>
    BY DEF Open, maps, agent, c
<1>3. CallsFound
    <2>1. CASE how = "unseen"
        BY <2>1, CallsKept DEF Open
    <2>2. CASE how # "unseen"
        <3> DEFINE q == [Idle EXCEPT !.op = how, !.fd = f, !.c = c, !.addr = a]
        <3>1. call' = [call EXCEPT ![t] = q]
            BY <2>2 DEF Open, c
        <3>2. IsCall(q) /\ q.op \notin {"found", "filed"}
            BY <2>2 DEF IsCall, Idle
        <3> HIDE DEF q
        <3> QED
            BY <3>1, <3>2, CallsBut
    <2> QED
        BY <2>1, <2>2
<1>4. Shape'
    BY <1>0, <1>1, <1>2, <1>3 DEF IInv, Shape, Ids, IsConn, IsCall, Keys, CallsFound
<1>5. TableIsOpen'
    <2>1. \A g \in Fds : fdTable[g] # 0 => fdTable[g] \in Ids \ {c}
        BY <1>0, TableAlive DEF Alive
    <2> QED
        BY <1>1, <1>2, <2>1 DEF IInv, Shape, TableIsOpen
<1>6. Numbered'
    <2>1. c \in 0 .. MaxConns
        BY <1>0 DEF Ids
    <2>2. \A d \in Ids : conns'[d].st # "none" <=> d <= c
        BY <1>0, <1>1 DEF Ids
    <2> QED
        BY <2>1, <2>2 DEF Numbered
<1>7. Stay /\ FewerEntries
    BY <1>0, <1>1, <1>2, UnchangedEntries DEF Stay, Alive
<1> QED
    BY <1>3, <1>4, <1>5, <1>6, <1>7, FoundStays, NoOrphan DEF IInv

\* A descriptor is taken away: its socket stays, closed.
LEMMA ClosedKeeps ==
    ASSUME IInv, NEW f \in Fds, fdTable[f] # 0,
           NEW q, IsConn(q), q.addr = conns[fdTable[f]].addr, q.st = "closed",
           conns' = [conns EXCEPT ![fdTable[f]] = q],
           fdTable' = [fdTable EXCEPT ![f] = 0],
           sock_key_conn_id_map' = sock_key_conn_id_map, spent' \in Nat, CallsFound
    PROVE  IInv' /\ OrphansAreLate
<1> DEFINE c == fdTable[f]
<1>0. c \in Ids /\ conns[c].st = "open" /\ conns[c].fd = f
    BY TableAlive DEF Alive, IInv, TableIsOpen
<1>a. /\ conns = [d \in Ids |-> conns[d]] /\ \A d \in Ids : IsConn(conns[d])
      /\ conns' = [conns EXCEPT ![c] = q]
    BY DEF IInv, Shape
<1>b. \A g \in Fds : fdTable'[g] # 0 => /\ fdTable'[g] = fdTable[g]
                                        /\ fdTable[g] \in Ids \ {c}
                                        /\ conns[fdTable[g]].st = "open"
                                        /\ conns[fdTable[g]].fd = g
    <2>1. fdTable' = [fdTable EXCEPT ![f] = 0] /\ fdTable \in [Fds -> 0 .. MaxConns]
        BY DEF IInv, Shape
    <2>2. \A g \in Fds : fdTable[g] # 0 => /\ fdTable[g] \in Ids
                                           /\ conns[fdTable[g]].st = "open"
                                           /\ conns[fdTable[g]].fd = g
        BY TableAlive DEF Alive, IInv, TableIsOpen
    <2> QED
        BY <1>0, <2>1, <2>2
<1>c. fdTable' \in [Fds -> 0 .. MaxConns]
    BY BoundsAssumption DEF IInv, Shape
<1> HIDE DEF c
<1>1. /\ conns' = [d \in Ids |-> conns'[d]]
      /\ \A d \in Ids \ {c} : conns'[d] = conns[d]
      /\ IsConn(conns'[c])
      /\ conns'[c].addr = conns[c].addr
      /\ conns'[c].st = "closed"
    BY <1>0, <1>a
<1>2. Shape'
    <2>1. \A d \in Ids : IsConn(conns'[d])
        BY <1>1, <1>a
    <2> QED
        BY <1>1, <1>c, <2>1, SMTT(30) DEF IInv, Shape, Ids, Keys, IsConn, IsCall, CallsFound
<1>3. TableIsOpen'
    <2> SUFFICES ASSUME NEW g \in Fds, fdTable'[g] # 0
                 PROVE  conns'[fdTable'[g]].st = "open" /\ conns'[fdTable'[g]].fd = g
        BY DEF TableIsOpen
    <2>1. conns'[fdTable'[g]] = conns[fdTable[g]]
        BY <1>1, <1>b
    <2> QED
        BY <1>b, <2>1
<1>4. Numbered'
    BY <1>0, <1>1 DEF IInv, Numbered
<1>5. Stay /\ FewerEntries
    BY <1>0, <1>1, UnchangedEntries DEF Stay, Alive
<1> QED
    BY <1>2, <1>3, <1>4, <1>5, FoundStays, NoOrphan DEF IInv

LEMMA ClosedConn ==
    ASSUME NEW c \in Ids, IsConn(conns[c]), NEW ms
    PROVE  IsConn(Closed(c, ms)) /\ Closed(c, ms).addr = conns[c].addr
           /\ Closed(c, ms).st = "closed"
<1> PICK x : Closed(c, ms) = [[conns[c] EXCEPT !.marks = x] EXCEPT !.st = "closed"]
    BY MarkIs DEF Closed
<1> DEFINE r == [conns[c] EXCEPT !.marks = x]
<1>1. IsConn(r) /\ r.addr = conns[c].addr
    BY MarkedConn
<1> HIDE DEF r
<1>2. Closed(c, ms) = [r EXCEPT !.st = "closed"]
    BY DEF r
<1>3. /\ IsConn([r EXCEPT !.st = "closed"])
      /\ [r EXCEPT !.st = "closed"].addr = r.addr
      /\ [r EXCEPT !.st = "closed"].st = "closed"
    BY <1>1, StateConn
<1> QED
    BY <1>1, <1>2, <1>3

\* close leaves the socket to tcp_destroy_sock.
LEMMA CloseKeeps ==
    ASSUME IInv, NEW t \in Threads, NEW f \in Fds, Close(t, f)
    PROVE  IInv' /\ OrphansAreLate
<1> DEFINE q == Closed(fdTable[f], {})
           r == [Idle EXCEPT !.op = "close", !.fd = f, !.c = fdTable[f]]
<1>1. fdTable[f] # 0 /\ fdTable[f] \in Ids /\ IsConn(conns[fdTable[f]])
    BY TableAlive DEF Close, Alive, IInv, Shape
<1>2. IsConn(q) /\ q.addr = conns[fdTable[f]].addr /\ q.st = "closed"
    BY <1>1, ClosedConn
<1>3. /\ conns' = [conns EXCEPT ![fdTable[f]] = q]
      /\ fdTable' = [fdTable EXCEPT ![f] = 0]
      /\ call' = [call EXCEPT ![t] = r]
      /\ sock_key_conn_id_map' = sock_key_conn_id_map /\ spent' \in Nat
    BY DEF Close, maps, agent, IInv, Shape
<1>4. IsCall(r) /\ r.op \notin {"found", "filed"}
    BY DEF IsCall, Idle
<1> HIDE DEF q, r
<1>5. CallsFound
    BY <1>3, <1>4, CallsBut
<1> QED
    BY <1>1, <1>2, <1>3, <1>5, ClosedKeeps

\* So do the other ways a descriptor goes.
LEMMA DropKeeps ==
    ASSUME IInv, NEW f \in Fds, Drop(f)
    PROVE  IInv' /\ OrphansAreLate
<1> DEFINE q == Closed(fdTable[f], {"untidy"})
<1>1. fdTable[f] # 0 /\ fdTable[f] \in Ids /\ IsConn(conns[fdTable[f]])
    BY TableAlive DEF Drop, Alive, IInv, Shape
<1>2. IsConn(q) /\ q.addr = conns[fdTable[f]].addr /\ q.st = "closed"
    BY <1>1, ClosedConn
<1>3. /\ conns' = [conns EXCEPT ![fdTable[f]] = q]
      /\ fdTable' = [fdTable EXCEPT ![f] = 0]
      /\ UNCHANGED <<sock_key_conn_id_map, call>> /\ spent' \in Nat
    BY DEF Drop, maps, IInv, Shape
<1> HIDE DEF q
<1> QED
    BY <1>1, <1>2, <1>3, CallsKept, ClosedKeeps
-----------------------------------------------------------------------------
\* A handler is done.
LEMMA ReturnShape ==
    ASSUME IInv, NEW t \in Threads, Return(t)
    PROVE  CallsFound
BY IdleShape, CallsBut DEF Return

\* A step that rewrites connections with other marks.
LEMMA MarksOnly ==
    ASSUME IInv, conns' = [d \in Ids |-> conns'[d]],
           \A d \in Ids : conns'[d] = conns[d]
                          \/ \E ms : conns'[d] = [conns[d] EXCEPT !.marks = ms]
    PROVE  SameConns
<1>1. \A d \in Ids : IsConn(conns[d])
    BY DEF IInv, Shape
<1>2. ASSUME NEW d \in Ids
      PROVE  /\ IsConn(conns'[d])
             /\ conns'[d].addr = conns[d].addr
             /\ conns'[d].fd = conns[d].fd
             /\ conns'[d].st = conns[d].st
    <2>1. CASE conns'[d] = conns[d]
        BY <1>1, <2>1
    <2>2. CASE \E ms : conns'[d] = [conns[d] EXCEPT !.marks = ms]
        <3> PICK ms : conns'[d] = [conns[d] EXCEPT !.marks = ms]
            BY <2>2
        <3> QED
            BY <1>1, MarkedConn
    <2> QED
        BY <2>1, <2>2
<1> QED
    BY <1>2 DEF SameConns

\* A handler that has looked up the socket of a descriptor.
LEMMA CreateKeeps ==
    ASSUME IInv, NEW t \in Threads, NEW f \in Fds, NEW how, NEW key,
           create_conn_info(t, f, fdTable[f], how, key)
    PROVE  IInv' /\ OrphansAreLate
<1> DEFINE c == fdTable[f]
           q == [op |-> "found", fd |-> f, c |-> c, addr |-> conns[c].addr,
                 rec |-> [c |-> c, role |-> Role(how), key |-> key]]
<1>1. UNCHANGED <<conns, fdTable, sock_key_conn_id_map, spent>>
    BY DEF create_conn_info, maps, agent
<1>2. CallsFound
    <2>1. CASE c # 0 /\ call' = [call EXCEPT ![t] = q]
        <3>1. c \in Alive /\ c \in Ids
            BY <2>1, TableAlive DEF Alive
        <3>2. IsCall(q)
            BY DEF IsCall
        <3>3. Found(q)
            BY <3>1 DEF Found
        <3> HIDE DEF q
        <3> QED
            BY <2>1, <3>2, <3>3, CallsBut
    <2>2. CASE call' = [call EXCEPT ![t] = Idle]
        BY <2>2, IdleShape, CallsBut
    <2> QED
        BY <2>1, <2>2 DEF create_conn_info
<1> QED
    BY <1>1, <1>2, Unchanged, UnchangedEntries, QuietKeeps DEF IInv, Shape

\* The record is written; another handler may read it from the element it deletes.
LEMMA RecordKeeps ==
    ASSUME IInv, NEW t \in Threads, NEW u \in Threads, update_conn_info(t, u)
    PROVE  IInv' /\ OrphansAreLate
<1>1. UNCHANGED <<fdTable, sock_key_conn_id_map, spent>>
    BY DEF update_conn_info, agent
<1>2. SameConns
    <2>1. conns' = [d \in Ids |-> conns'[d]]
        BY DEF update_conn_info
    <2>2. \A d \in Ids : conns'[d] = conns[d] \/ \E ms : conns'[d] = Mark(d, ms)
        BY DEF update_conn_info
    <2> QED
        BY <2>1, <2>2, MarkIs, MarksOnly
<1>3. CallsFound
    <2>1. call' = [v \in Threads |-> call'[v]]
        BY DEF update_conn_info
    <2>2. ASSUME NEW v \in Threads
          PROVE  IsCall(call'[v]) /\ (call'[v].op \in {"found", "filed"} => Found(call'[v]))
        <3>1. /\ IsCall(call[v])
              /\ call[v].op \in {"found", "filed"} => Found(call[v])
            BY DEF IInv, Shape, FoundIsAlive, Writing
        <3>2. CASE call'[v] = call[v]
            BY <3>1, <3>2
        <3>3. CASE \E x : /\ v = t /\ call[v].op = "found"
                           /\ call'[v] = [call[v] EXCEPT !.op = "filed", !.rec = x]
            <4> PICK x : call'[v] = [call[v] EXCEPT !.op = "filed", !.rec = x]
                BY <3>3
            <4>1. IsCall(call'[v]) /\ call'[v].c = call[v].c /\ call'[v].addr = call[v].addr
                BY <3>1 DEF IsCall
            <4> QED
                BY <3>1, <3>3, <4>1 DEF Found
        <3>4. CASE \E x : /\ call[v].op = "forget"
                           /\ call'[v] = [call[v] EXCEPT !.rec = x]
            BY <3>1, <3>4 DEF IsCall
        <3> QED
            BY <3>2, <3>3, <3>4 DEF update_conn_info
    <2> QED
        BY <2>1, <2>2 DEF CallsFound
<1> QED
    BY <1>1, <1>2, <1>3, UnchangedEntries, QuietKeeps DEF IInv, Shape

\* The entry is written, under the key of a socket that is alive or was found late.
LEMMA EntryKeeps ==
    ASSUME IInv, NEW t \in Threads, update_sock_key(t)
    PROVE  IInv' /\ OrphansAreLate
<1> DEFINE key == parse_sock_key_sk(call[t].addr)
<1>1. /\ call[t].op = "filed" /\ Return(t)
      /\ UNCHANGED <<conns, fdTable, spent>>
    BY DEF update_sock_key, agent
<1>2. /\ sock_key_conn_id_map' = [k \in Keys |-> sock_key_conn_id_map'[k]]
      /\ \A k \in Keys : k # key => sock_key_conn_id_map'[k] = sock_key_conn_id_map[k]
    BY DEF update_sock_key, IInv, Shape
<1>3. SameConns /\ Stay /\ CallsFound
    BY <1>1, Unchanged, MarkedStay, ReturnShape
<1>4. Shape'
    BY <1>1, <1>2, <1>3, SMTT(30) DEF IInv, Shape, SameConns, CallsFound, Ids, Keys, IsConn, IsCall
<1>5. TableIsOpen' /\ Numbered'
    BY <1>1 DEF IInv, TableIsOpen, Numbered
<1>6. OrphansAreLate
    <2> SUFFICES ASSUME NEW k \in Keys, Orphan(k)', ~Orphan(k)
                 PROVE  \E u \in Threads : /\ call[u].op = "filed" /\ call'[u] = Idle
                                          /\ parse_sock_key_sk(call[u].addr) = k
                                          /\ conns[call[u].c].st = "gone"
        BY DEF OrphansAreLate
    <2>1. /\ sock_key_conn_id_map'[k] # NoFd
          /\ \A c \in Alive : parse_sock_key_sk(conns[c].addr) # k
        BY <1>1 DEF Orphan, Key, Alive
    <2>2. k = key
        BY <1>2, <2>1 DEF Orphan, Key
    <2>3. Found(call[t])
        BY <1>1 DEF IInv, FoundIsAlive, Writing
    <2>4. conns[call[t].c].st = "gone"
        BY <2>1, <2>2, <2>3 DEF Found
    <2>5. call'[t] = Idle
        BY <1>1 DEF Return, IInv, Shape
    <2> QED
        BY <1>1, <2>2, <2>4, <2>5
<1> QED
    BY <1>3, <1>4, <1>5, <1>6, FoundStays DEF IInv

\* Entries are deleted.
LEMMA FewerWithout ==
    ASSUME NEW ks, sock_key_conn_id_map' = WithoutKey(ks)
    PROVE  FewerEntries
BY DEF FewerEntries, WithoutKey

\* The handlers of the system calls.
LEMMA HandlerKeeps ==
    ASSUME IInv, NEW t \in Threads, Handler(t)
    PROVE  IInv' /\ OrphansAreLate
<1>0. spent \in Nat
    BY DEF IInv, Shape
<1>1. CASE process_syscall_connect(t) \/ process_syscall_accept(t)
    <2>1. PICK how \in {"connect", "accept"} : call[t].op = how /\ submit_new_conn(t, how)
        BY <1>1 DEF process_syscall_connect, process_syscall_accept
    <2>2. call[t].fd \in Fds
        BY <2>1 DEF IInv, Shape, IsCall
    <2>3. \E key : create_conn_info(t, call[t].fd, fdTable[call[t].fd], how, key)
        BY <2>1 DEF submit_new_conn, Target
    <2> QED
        BY <2>2, <2>3, CreateKeeps
<1>2. CASE \E f \in Fds : create_conn_info_in_data_syscall(t, f)
    BY <1>2, CreateKeeps DEF create_conn_info_in_data_syscall
<1>3. CASE process_syscall_close(t)
    <2>1. UNCHANGED <<conns, sock_key_conn_id_map, fdTable, spent>>
        BY <1>3 DEF process_syscall_close
    <2>2. CallsFound
        <3>1. CASE Return(t)
            BY <3>1, ReturnShape
        <3>2. CASE call' = [call EXCEPT ![t].op = "forget", ![t].rec = conn_info_map[call[t].fd]]
            <4> DEFINE q == [call[t] EXCEPT !.op = "forget", !.rec = conn_info_map[call[t].fd]]
            <4>1. IsCall(call[t]) /\ call = [u \in Threads |-> call[u]]
                BY DEF IInv, Shape
            <4>2. IsCall(q) /\ q.op \notin {"found", "filed"}
                BY <4>1 DEF IsCall
            <4>3. call' = [call EXCEPT ![t] = q]
                BY <3>2, <4>1 DEF IsCall
            <4> HIDE DEF q
            <4> QED
                BY <4>2, <4>3, CallsBut
        <3> QED
            BY <1>3, <3>1, <3>2 DEF process_syscall_close
    <2> QED
        BY <1>0, <2>1, <2>2, Unchanged, UnchangedEntries, QuietKeeps
<1>4. CASE process_syscall_close_key(t)
    <2>1. UNCHANGED <<conns, fdTable, spent>> /\ Return(t)
        BY <1>4 DEF process_syscall_close_key, agent
    <2>2. SameConns /\ FewerEntries
        BY <1>4, <2>1, Unchanged, FewerWithout DEF process_syscall_close_key
    <2> QED
        BY <1>0, <2>1, <2>2, ReturnShape, QuietKeeps
<1> QED
    BY <1>1, <1>2, <1>3, <1>4, RecordKeeps, EntryKeeps DEF Handler
-----------------------------------------------------------------------------
\* With its socket goes the entry of a key, so that the sockets of the others stay.
LEMMA DestroyKeeps ==
    ASSUME IInv, NEW c \in Ids, tcp_destroy_sock(c)
    PROVE  IInv' /\ OrphansAreLate
<1>1. /\ conns[c].st = "closed"
      /\ conns' = [conns EXCEPT ![c] = Gone(c)]
      /\ sock_key_conn_id_map' = WithoutKey({Key(c)})
      /\ UNCHANGED <<fdTable, call, spent>>
    BY DEF tcp_destroy_sock
<1>2. IsConn(Gone(c)) /\ Gone(c).st = "gone"
    <2>1. PICK ms, g : Gone(c) = [NoConn EXCEPT !.st = "gone", !.marks = ms, !.fd = g]
        BY DEF Gone
    <2>2. Gone(c) = [addr |-> NoAddr, fd |-> g, st |-> "gone", marks |-> ms]
        BY <2>1 DEF NoConn
    <2> QED
        BY <2>2 DEF IsConn
<1>3. /\ conns' = [d \in Ids |-> conns'[d]]
      /\ conns'[c] = Gone(c)
      /\ \A d \in Ids \ {c} : conns'[d] = conns[d] /\ IsConn(conns[d])
    BY <1>1 DEF IInv, Shape
<1>4. /\ sock_key_conn_id_map' = [k \in Keys |-> sock_key_conn_id_map'[k]]
      /\ \A k \in Keys : sock_key_conn_id_map'[k] # NoFd
                          => k # Key(c) /\ sock_key_conn_id_map[k] # NoFd
    BY <1>1 DEF WithoutKey
<1>5. Shape'
    <2>1. \A d \in Ids : IsConn(conns'[d])
        BY <1>2, <1>3
    <2> QED
        BY <1>1, <1>3, <1>4, <2>1, SMTT(30) DEF IInv, Shape, Ids, Keys, IsConn, IsCall
<1>6. TableIsOpen'
    <2>1. \A f \in Fds : fdTable[f] # 0 => fdTable[f] \in Ids \ {c}
        BY <1>1, TableAlive DEF Alive, IInv, TableIsOpen
    <2> QED
        BY <1>1, <1>3, <2>1 DEF IInv, TableIsOpen
<1>7. Numbered'
    BY <1>1, <1>2, <1>3 DEF IInv, Numbered
<1>8. FoundIsAlive'
    <2> SUFFICES ASSUME NEW t \in Threads, call[t].op \in {"found", "filed"}
                 PROVE  /\ call[t].c \in Ids
                        /\ \/ conns'[call[t].c].st = "gone"
                           \/ /\ call[t].c \in Alive'
                              /\ conns'[call[t].c].addr = call[t].addr
        BY <1>1 DEF FoundIsAlive, Writing, Found
    <2>1. Found(call[t])
        BY DEF IInv, FoundIsAlive, Writing
    <2> QED
        BY <1>2, <1>3, <2>1 DEF Found, Alive
<1>9. OrphansAreLate
    <2> SUFFICES ASSUME NEW k \in Keys, Orphan(k)', ~Orphan(k) PROVE FALSE
        BY DEF OrphansAreLate
    <2>1. sock_key_conn_id_map'[k] # NoFd /\ sock_key_conn_id_map[k] # NoFd /\ k # Key(c)
        BY <1>4 DEF Orphan
    <2>2. PICK d \in Alive : parse_sock_key_sk(conns[d].addr) = k
        BY <2>1 DEF Orphan, Key
    <2>3. d \in Alive' /\ parse_sock_key_sk(conns'[d].addr) = k
        BY <1>3, <2>1, <2>2 DEF Alive, Key
    <2> QED
        BY <2>3 DEF Orphan, Key
<1> QED
    BY <1>5, <1>6, <1>7, <1>8, <1>9 DEF IInv

\* The agent deletes entries, and replaces only those that are there.
LEMMA AgentKeeps ==
    ASSUME IInv, Agent
    PROVE  IInv' /\ OrphansAreLate
<1>0. spent \in Nat
    BY DEF IInv, Shape
<1>1. UNCHANGED <<fdTable, call>> /\ spent' \in Nat
    BY <1>0 DEF Agent, OnClose, UpdateLookupId, UpdateId, UpdateInfo, kernel
<1>2. SameConns
    <2>1. CASE \E r \in closing : OnClose(r)
        <3>1. conns' = [d \in Ids |-> conns'[d]]
            BY <2>1 DEF OnClose
        <3>2. \A d \in Ids : conns'[d] = conns[d] \/ conns'[d] = Mark(d, {"lost"})
            BY <2>1 DEF OnClose
        <3> QED
            BY <3>1, <3>2, MarkIs, MarksOnly
    <2>2. CASE conns' = conns
        BY <2>2, Unchanged
    <2> QED
        BY <2>1, <2>2 DEF Agent, UpdateLookupId, UpdateId, UpdateInfo, kernel
<1>3. FewerEntries
    <2>1. CASE \E r \in closing : OnClose(r)
        BY <2>1, FewerWithout DEF OnClose
    <2>2. CASE UpdateId
        BY <2>2 DEF UpdateId, IInv, Shape, FewerEntries
    <2>3. CASE sock_key_conn_id_map' = sock_key_conn_id_map
        BY <2>3, UnchangedEntries
    <2> QED
        BY <2>1, <2>2, <2>3 DEF Agent, UpdateLookupId, UpdateInfo, maps
<1> QED
    BY <1>1, <1>2, <1>3, CallsKept, QuietKeeps

\* There are no entries at first.
LEMMA InitHolds == Init => IInv
<1> SUFFICES ASSUME Init PROVE IInv
    OBVIOUS
<1>1. MaxConns \in Nat
    BY BoundsAssumption
<1>2. Shape
    <2>1. IsConn(NoConn)
        BY DEF IsConn, NoConn
    <2>2. fdTable \in [Fds -> 0 .. MaxConns]
        BY <1>1 DEF Init
    <2> QED
        BY <2>1, <2>2, IdleShape DEF Init, Shape
<1>3. Numbered
    <2>1. \A c \in Ids : conns[c].st = "none" /\ ~(c <= 0)
        BY DEF Init, NoConn, Ids
    <2> QED
        BY <1>1, <2>1 DEF Numbered
<1> QED
    BY <1>2, <1>3, IdleShape DEF Init, IInv, TableIsOpen, FoundIsAlive, Writing

\* The invariant is inductive.
LEMMA NextKeeps == IInv /\ [Next]_vars => IInv' /\ OrphansAreLate
<1> SUFFICES ASSUME IInv, [Next]_vars PROVE IInv' /\ OrphansAreLate
    OBVIOUS
<1>1. CASE \E t \in Threads : Syscall(t)
    BY <1>1, OpenKeeps, CloseKeeps DEF Syscall
<1>2. CASE \E t \in Threads : Handler(t)
    BY <1>2, HandlerKeeps
<1>3. CASE \E f \in Fds : Drop(f)
    BY <1>3, DropKeeps
<1>4. CASE \E c \in Ids : tcp_destroy_sock(c)
    BY <1>4, DestroyKeeps
<1>5. CASE Agent
    BY <1>5, AgentKeeps
<1>6. CASE UNCHANGED vars
    <2>1. UNCHANGED <<conns, fdTable, call, sock_key_conn_id_map, spent>>
        BY <1>6 DEF vars, kernel, maps, agent
    <2>2. SameConns /\ FewerEntries
        BY <2>1, Unchanged, UnchangedEntries
    <2> QED
        BY <2>1, <2>2, CallsKept, QuietKeeps DEF IInv, Shape
<1> QED
    BY <1>1, <1>2, <1>3, <1>4, <1>5, <1>6 DEF Next

\* Whatever the calls of other threads, the end of sockets and the agent do between the
\* steps of a handler, an entry of sock_key_conn_id_map is left without a socket only
\* by a handler of create_conn_info that writes it after tcp_destroy_sock has run, for
\* any number of threads, descriptors and addresses.
THEOREM EntriesEndWithSockets == Spec => EntriesHaveSockets
<1>1. IInv /\ [Next]_vars => [\A k \in Keys : Orphan(k)' /\ ~Orphan(k) =>
          \E t \in Threads : /\ call[t].op = "filed" /\ call'[t] = Idle
                             /\ parse_sock_key_sk(call[t].addr) = k
                             /\ conns[call[t].c].st = "gone"]_vars
    BY NextKeeps DEF OrphansAreLate
<1>2. IInv /\ [Next]_vars => IInv'
    BY NextKeeps
<1> QED
    BY <1>1, <1>2, InitHolds, PTL DEF Spec, EntriesHaveSockets
=============================================================================
