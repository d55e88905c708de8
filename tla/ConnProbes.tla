----------------------------- MODULE ConnProbes -----------------------------
(***************************************************************************)
(* The connection probes of bpf/pktlatency.bpf.c: how the descriptors and  *)
(* sockets of a traced process are followed in two maps.                   *)
(*                                                                         *)
(*   - conn_info_map leads from a descriptor to a record of its            *)
(*     connection, which the data probes use;                              *)
(*   - sock_key_conn_id_map leads from the addresses of a socket to its    *)
(*     descriptor, which the packet probes use.                            *)
(*                                                                         *)
(* A handler runs when a system call returns, after the kernel has done    *)
(* the work, and finds the connection by the number of the descriptor.  It *)
(* looks up the socket, writes the record and writes the entry in three    *)
(* steps.  The calls of other threads, the end of the socket and the agent *)
(* come in between.  Connections are numbered in the order they begin; 0   *)
(* is none.                                                                *)
(***************************************************************************)
EXTENDS Integers, FiniteSets

CONSTANTS Threads,      \* threads of the process
          Fds,          \* its descriptors
          Addrs,        \* addresses of sockets: [local, remote, port, fam]
          Loopback,     \* pairs of addresses that are the two ends of a connection
          Filters,      \* values of --side and --remote-ports: [side, ports]
          MaxConns,     \* bound on connections, the agent's updates and dropped
                        \* descriptors, together
          MaxPending    \* bound on connections closing in the agent

\* A port has 16 bits.
IsPort(p) == p \in Nat /\ p < 65536

ASSUME ConnProbesAssumption ==
    /\ \A a \in Addrs : IsPort(a.port) /\ a.fam \in {"v4", "v6", "dual"}
    /\ Loopback \subseteq Addrs \X Addrs
    /\ \A w \in Filters : /\ w.side \in {"all", "client", "server"}
                          /\ \A p \in w.ports : IsPort(p) /\ p # 0

ASSUME NoFdAssumption == "none" \notin Fds

ASSUME BoundsAssumption == MaxConns \in Nat /\ MaxPending \in Nat

VARIABLES wanted,        \* control_values and enabled_remote_port_map
          conns,         \* every connection so far
          fdTable,       \* the connection a descriptor refers to
          call,          \* the system call a thread is in
          conn_info_map, \* the record of a descriptor
          sock_key_conn_id_map,  \* the descriptor of a socket key
          closing,       \* keys of connections whose delayed OnClose is due
          upd,           \* the agent inside UpdateConnectionTraceable
          spent          \* updates and dropped descriptors so far

kernel == <<conns, fdTable, call>>
maps == <<conn_info_map, sock_key_conn_id_map>>
agent == <<closing, upd, spent>>
vars == <<wanted, kernel, maps, agent>>

Ids == 1 .. MaxConns
NoFd == "none"

\* The two bytes of a port change places.
bpf_ntohs(port) == (port % 256) * 256 + port \div 256

\* parse_sock_key_sk: the key of a socket.  low marks a key of which only the
\* first word of each address is kept.
parse_sock_key_sk(a) ==
    [local |-> a.local, remote |-> a.remote, port |-> a.port, low |-> FALSE]

\* submit_new_conn takes the remote address from the argument a of connect and the
\* local one from the socket, of address b, that it finds.  A sockaddr_in is
\* converted, a sockaddr_in6 is copied, with its port in network order.
Remote(a, b) ==
    [local |-> b.local, remote |-> a.remote, low |-> FALSE,
     port |-> IF a.fam = "v4" THEN a.port ELSE bpf_ntohs(a.port)]

\* The addresses create_conn_info_in_data_syscall reads from the socket.  Without
\* the IPv6-only flag (use_ipv6) the record is that of an IPv4 connection.
FromSocket(a) == [parse_sock_key_sk(a) EXCEPT !.low = a.fam = "dual"]

Recorded(how, a, b) ==
    CASE how = "connect" -> Remote(a, b)
      [] how = "accept" -> parse_sock_key_sk(b)
      [] how = "data" -> FromSocket(b)

Keys ==
    {parse_sock_key_sk(a) : a \in Addrs} \cup {FromSocket(a) : a \in Addrs}
        \cup {Remote(a, b) : a, b \in Addrs}

Roles == {"client", "server", "unknown"}

Role(how) ==
    CASE how = "connect" -> "client"
      [] how = "accept" -> "server"
      [] how = "data" -> "unknown"

\* Mutant: the ports are looked up only if the side is known.
filter_conn_info_known(how, key) ==
    Role(how) # "unknown" =>
        /\ wanted.side \in {"all", Role(how)}
        /\ wanted.ports # {} => key.port \in wanted.ports

filter_conn_info(how, key) ==
    /\ Role(how) # "unknown" => wanted.side \in {"all", Role(how)}
    /\ wanted.ports # {} => key.port \in wanted.ports

\* The map of ports holds port 1 if there is a filter.
EnabledPorts(ports) == IF ports = {} THEN {} ELSE ports \cup {1}

NoAddr == [local |-> 0, remote |-> 0, port |-> 0, fam |-> "v4"]
NoRec == [c |-> 0, role |-> "unknown", key |-> parse_sock_key_sk(NoAddr)]
Idle == [op |-> "idle", fd |-> NoFd, c |-> 0, rec |-> NoRec, addr |-> NoAddr]
NoConn == [addr |-> NoAddr, fd |-> NoFd, st |-> "none", marks |-> {}]
NoUpd == [stage |-> "idle", fd |-> NoFd, ent |-> NoFd, rec |-> NoRec]

Init ==
    /\ wanted \in {[w EXCEPT !.ports = EnabledPorts(w.ports)] : w \in Filters}
    /\ conns = [c \in Ids |-> NoConn]
    /\ fdTable = [f \in Fds |-> 0]
    /\ call = [t \in Threads |-> Idle]
    /\ conn_info_map = [f \in Fds |-> NoRec]
    /\ sock_key_conn_id_map = [k \in Keys |-> NoFd]
    /\ closing = {}
    /\ upd = NoUpd
    /\ spent = 0
-----------------------------------------------------------------------------
(* The kernel.                                                             *)

Begun == {c \in Ids : conns[c].st # "none"}
Alive == {c \in Ids : conns[c].st \in {"open", "closed"}}
Closing(f) == {t \in Threads : call[t].op \in {"close", "forget"} /\ call[t].fd = f}
Known(f) == conn_info_map[f] # NoRec
Writing(t) == call[t].op \in {"found", "filed"}
HeldKey(t) ==
    IF call[t].op = "close" THEN conn_info_map[call[t].fd].key ELSE call[t].rec.key
Key(c) == parse_sock_key_sk(conns[c].addr)
Clean(c) == "heir" \notin conns[c].marks
Mark(c, ms) == [conns[c] EXCEPT !.marks = IF Clean(c) THEN @ \cup ms ELSE @]

LeadsTo(f) == \E k \in Keys : sock_key_conn_id_map[k] = f

\* A connection is marked
\*   heir if it began before all of earlier connections was cleared away: the close
\*     that freed its descriptor, or that of the last connection with its addresses,
\*     has not returned; a handler or the agent is about to write what it has found
\*     for the descriptor or for the addresses; a record or an entry is left for one;
\*   untidy if what is kept of it may not go with its close: its descriptor went
\*     without a close, or to another connection before the close returned, a handler
\*     had found it and not yet written all it writes, its record has other addresses
\*     than its socket, or an element of conn_info_map was used again;
\*   lost if its entry may go before.
Inherits(f, a) ==
    LET k == parse_sock_key_sk(a) IN
    \/ Closing(f) # {}
    \/ \E t \in Threads : HeldKey(t) = k
    \/ \E t \in Threads : Writing(t) /\ (call[t].fd = f \/ parse_sock_key_sk(call[t].addr) = k)
    \/ upd # NoUpd /\ (f \in {upd.fd, upd.ent} \/ upd.rec.key = k)
    \/ Known(f) \/ LeadsTo(f) \/ sock_key_conn_id_map[k] # NoFd
    \/ \E g \in Fds : conn_info_map[g].key = k

\* A socket gets a descriptor, by connect, by accept, or in a way no probe sees.
\* The close of the descriptor may not have returned in its thread.
Open(t, f, a, how) ==
    LET c == Cardinality(Begun) + 1 IN
    /\ call[t] = Idle
    /\ fdTable[f] = 0
    /\ c + spent \in Ids
    /\ \A d \in Alive : Key(d) # parse_sock_key_sk(a)
    /\ conns' = [d \in Ids |->
                    IF d = c
                    THEN [addr |-> a, fd |-> f, st |-> "open",
                          marks |-> IF Inherits(f, a) THEN {"heir"} ELSE {}]
                    ELSE IF d \in Alive /\ \E u \in Closing(f) : call[u].c = d
                         THEN Mark(d, {"untidy"})
                         ELSE conns[d]]
    /\ fdTable' = [fdTable EXCEPT ![f] = c]
    /\ call' = IF how = "unseen" THEN call
               ELSE [call EXCEPT ![t] = [Idle EXCEPT !.op = how, !.fd = f, !.c = c, !.addr = a]]
    /\ UNCHANGED <<maps, agent>>

\* The process learns of an accepted connection when accept returns.
Accepting(f) ==
    \E t \in Threads : /\ call[t].fd = f
                       /\ call[t].op = "accept" \/ (Writing(t) /\ call[t].rec.role = "server")

\* c is closed; a handler may have found it and not written all it writes.
Closed(c, ms) ==
    [Mark(c, ms \cup (IF \E t \in Threads : Writing(t) /\ call[t].c = c THEN {"untidy"} ELSE {}))
        EXCEPT !.st = "closed"]

\* A close has done its work.
Close(t, f) ==
    LET c == fdTable[f] IN
    /\ call[t] = Idle
    /\ c # 0
    /\ ~Accepting(f)
    /\ conns' = [conns EXCEPT ![c] = Closed(c, {})]
    /\ fdTable' = [fdTable EXCEPT ![f] = 0]
    /\ call' = [call EXCEPT ![t] = [Idle EXCEPT !.op = "close", !.fd = f, !.c = c]]
    /\ UNCHANGED <<maps, agent>>

\* dup2, close_range, exec or the end of the process takes the descriptor away.
Drop(f) ==
    LET c == fdTable[f] IN
    /\ c # 0
    /\ ~Accepting(f)
    /\ Cardinality(Begun) + spent < MaxConns
    /\ conns' = [conns EXCEPT ![c] = Closed(c, {"untidy"})]
    /\ fdTable' = [fdTable EXCEPT ![f] = 0]
    /\ spent' = spent + 1
    /\ UNCHANGED <<call, maps, closing, upd>>
-----------------------------------------------------------------------------
(* The handlers.                                                           *)

\* create_conn_info: the record.  An update puts a new element into a hash map and
\* frees the one it replaces.  It may use the element again that
\* process_syscall_close in another thread has deleted and is about to read.
update_conn_info(t, reader) ==
    LET c == call[t].c
        rec == call[t].rec
        reused == reader # t /\ call[reader].op = "forget"
    IN
    /\ call[t].op = "found"
    /\ conn_info_map' = [conn_info_map EXCEPT ![call[t].fd] = rec]
    /\ call' = [u \in Threads |->
                   IF u = t
                   THEN [call[t] EXCEPT !.op = "filed", !.rec = [NoRec EXCEPT !.role = rec.role]]
                   ELSE IF u = reader /\ reused THEN [call[u] EXCEPT !.rec = rec]
                   ELSE call[u]]
    /\ conns' = [d \in Ids |->
           LET inexact == d = c /\ rec.key # Key(c)
               taken == d # c /\ rec.key = Key(d)
               reread == reused /\ d \in {c, call[reader].c}
           IN IF d \notin Alive THEN conns[d]
              ELSE Mark(d, (IF inexact \/ reread THEN {"untidy"} ELSE {})
                             \cup (IF taken \/ reread THEN {"lost"} ELSE {}))]
    /\ UNCHANGED <<fdTable, sock_key_conn_id_map, agent>>

\* An update with BPF_NOEXIST.
NoExist(old, f) == IF old = NoFd THEN f ELSE old

Return(t) == call' = [call EXCEPT ![t] = Idle]

\* create_conn_info: the entry, under the key of the socket that was found.
update_sock_key(t) ==
    LET k == parse_sock_key_sk(call[t].addr) IN
    /\ call[t].op = "filed"
    /\ sock_key_conn_id_map' = [sock_key_conn_id_map EXCEPT ![k] = NoExist(@, call[t].fd)]
    /\ Return(t)
    /\ UNCHANGED <<conns, fdTable, conn_info_map, agent>>

\* Mutant: the socket is the one the call was made for.
TargetAtEntry(t) == IF conns[call[t].c].st = "gone" THEN 0 ELSE call[t].c

\* get_socket_from_fd finds what the descriptor refers to by now.
Target(t) == fdTable[call[t].fd]

\* The handler t has read the addresses of the socket of f: it will write a record
\* and an entry, if they pass the filters.
create_conn_info(t, f, c, how, key) ==
    /\ call' = IF c # 0 /\ filter_conn_info(how, key)
               THEN [call EXCEPT ![t] = [op |-> "found", fd |-> f, c |-> c, addr |-> conns[c].addr,
                                         rec |-> [c |-> c, role |-> Role(how), key |-> key]]]
               ELSE [call EXCEPT ![t] = Idle]
    /\ UNCHANGED <<conns, fdTable, maps, agent>>

submit_new_conn(t, how) ==
    LET c == Target(t) IN
    create_conn_info(t, call[t].fd, c, how, Recorded(how, call[t].addr, conns[c].addr))

process_syscall_connect(t) == call[t].op = "connect" /\ submit_new_conn(t, "connect")

process_syscall_accept(t) == call[t].op = "accept" /\ submit_new_conn(t, "accept")

Unknown(f) == fdTable[f] # 0 /\ ~Known(f)

\* A data call begins to follow a connection nothing is known of.  Only what the
\* descriptor refers to when the call returns matters.
create_conn_info_in_data_syscall(t, f) ==
    LET c == fdTable[f] IN
    /\ call[t] = Idle
    /\ Unknown(f)
    /\ create_conn_info(t, f, c, "data", FromSocket(conns[c].addr))

\* The close event: open tells whether the connection was still open then, though
\* it began when nothing was left of earlier ones.
report_close(rec) ==
    closing \cup {[key |-> rec.key, open |-> conns[rec.c].st = "open" /\ Clean(rec.c)]}

\* The first half of process_syscall_close: the close event, and the record goes.
process_syscall_close(t) ==
    LET f == call[t].fd
        rec == conn_info_map[f]
    IN
    /\ call[t].op = "close"
    /\ Known(f) => Cardinality(closing) < MaxPending
    /\ conn_info_map' = [conn_info_map EXCEPT ![f] = NoRec]
    /\ IF Known(f)
       THEN /\ call' = [call EXCEPT ![t].op = "forget", ![t].rec = rec]
            /\ closing' = report_close(rec)
       ELSE Return(t) /\ UNCHANGED closing
    /\ UNCHANGED <<conns, fdTable, sock_key_conn_id_map, upd, spent>>

\* Mutant: the entry of the socket key is left to the agent.
WithoutKeyNone(ks) == sock_key_conn_id_map

WithoutKey(ks) == [k \in Keys |-> IF k \in ks THEN NoFd ELSE sock_key_conn_id_map[k]]

\* The second half reads the addresses from the element it has deleted.
process_syscall_close_key(t) ==
    /\ call[t].op = "forget"
    /\ sock_key_conn_id_map' = WithoutKey({call[t].rec.key})
    /\ Return(t)
    /\ UNCHANGED <<conns, fdTable, conn_info_map, agent>>

\* What is remembered of a connection that has ended: whether it began clean, and
\* whether it ended so.
Gone(c) ==
    [NoConn EXCEPT !.st = "gone",
                   !.marks = conns[c].marks \cap (IF Clean(c) THEN {"untidy"} ELSE {"heir"}),
                   !.fd = IF Clean(c) /\ "untidy" \in conns[c].marks THEN conns[c].fd ELSE NoFd]

\* The socket goes, once no descriptor refers to it.  The record of the descriptor
\* its key leads to goes with it.
tcp_destroy_sock(c) ==
    LET f == sock_key_conn_id_map[Key(c)]
        found == f # NoFd /\ Known(f)
    IN
    /\ conns[c].st = "closed"
    /\ conns' = [conns EXCEPT ![c] = Gone(c)]
    /\ found => Cardinality(closing) < MaxPending
    /\ closing' = IF found THEN report_close(conn_info_map[f]) ELSE closing
    /\ conn_info_map' = [g \in Fds |-> IF g = f THEN NoRec ELSE conn_info_map[g]]
    /\ sock_key_conn_id_map' = WithoutKey({Key(c)})
    /\ UNCHANGED <<fdTable, call, upd, spent>>
-----------------------------------------------------------------------------
(* The agent.                                                              *)

\* The keys extractSockKeys makes of the addresses of a record.
extractSockKeys(key) ==
    {key} \cup {parse_sock_key_sk(p[2]) :
                    p \in {q \in Loopback : parse_sock_key_sk(q[1]) = key}}

OnClose(r) ==
    LET ks == extractSockKeys(r.key) IN
    /\ closing' = closing \ {r}
    /\ sock_key_conn_id_map' = WithoutKey(ks)
    /\ conns' = [c \in Ids |->
                    IF c \in Alive /\ Key(c) \in ks
                    THEN Mark(c, {"lost"}) ELSE conns[c]]
    /\ UNCHANGED <<fdTable, call, conn_info_map, upd, spent>>

\* UpdateConnectionTraceable reads and writes the entry of the socket key, then
\* the record of the descriptor.
UpdateLookupId(f) ==
    LET rec == conn_info_map[f] IN
    /\ upd = NoUpd
    /\ Cardinality(Begun) + spent < MaxConns
    /\ Known(f)
    /\ upd' = [stage |-> "id", fd |-> f, ent |-> sock_key_conn_id_map[rec.key], rec |-> rec]
    /\ spent' = spent + 1
    /\ UNCHANGED <<kernel, maps, closing>>

UpdateId ==
    LET k == upd.rec.key
        known == upd.ent # NoFd /\ sock_key_conn_id_map[k] # NoFd
    IN
    /\ upd.stage = "id"
    /\ sock_key_conn_id_map' = IF known THEN [sock_key_conn_id_map EXCEPT ![k] = upd.ent]
                               ELSE sock_key_conn_id_map
    /\ upd' = IF Known(upd.fd)
              THEN [NoUpd EXCEPT !.stage = "info", !.fd = upd.fd,
                                 !.rec = conn_info_map[upd.fd]]
              ELSE NoUpd
    /\ UNCHANGED <<kernel, conn_info_map, closing, spent>>

\* Mutant: the record is written even if there is none any more.
MayUpdateAny(f) == TRUE
MayUpdate(f) == Known(f)

UpdateInfo ==
    /\ upd.stage = "info"
    /\ conn_info_map' = IF MayUpdate(upd.fd) THEN [conn_info_map EXCEPT ![upd.fd] = upd.rec]
                        ELSE conn_info_map
    /\ upd' = NoUpd
    /\ UNCHANGED <<kernel, sock_key_conn_id_map, closing, spent>>
-----------------------------------------------------------------------------
Syscall(t) ==
    \/ \E f \in Fds, a \in Addrs, how \in {"connect", "accept", "unseen"} :
          Open(t, f, a, how)
    \/ \E f \in Fds : Close(t, f)

Handler(t) ==
    \/ process_syscall_connect(t)
    \/ process_syscall_accept(t)
    \/ \E f \in Fds : create_conn_info_in_data_syscall(t, f)
    \/ \E u \in Threads : update_conn_info(t, u)
    \/ update_sock_key(t)
    \/ process_syscall_close(t)
    \/ process_syscall_close_key(t)

Agent ==
    \/ \E r \in closing : OnClose(r)
    \/ \E f \in Fds : UpdateLookupId(f)
    \/ UpdateId
    \/ UpdateInfo

Next ==
    /\ \/ \E t \in Threads : Syscall(t) \/ Handler(t)
       \/ \E f \in Fds : Drop(f)
       \/ \E c \in Ids : tcp_destroy_sock(c)
       \/ Agent
    /\ UNCHANGED wanted

Spec == Init /\ [][Next]_vars
-----------------------------------------------------------------------------
(* Properties.                                                             *)

Marks == {"heir", "untidy", "lost"}

\* The variables keep their types: a port has 16 bits in whatever byte order it is,
\* and an open descriptor refers to an open connection.
TypeOK ==
    /\ conns \in [Ids -> [addr : Addrs \cup {NoAddr}, fd : Fds \cup {NoFd},
                          st : {"none", "open", "closed", "gone"}, marks : SUBSET Marks]]
    /\ fdTable \in [Fds -> 0 .. MaxConns]
    /\ conn_info_map \in [Fds -> {NoRec} \cup [c : Ids, role : Roles, key : Keys]]
    /\ \A f \in Fds : IsPort(conn_info_map[f].key.port)
    /\ sock_key_conn_id_map \in [Keys -> Fds \cup {NoFd}]
    /\ \A f \in Fds :
          LET c == fdTable[f] IN c # 0 => conns[c].st = "open" /\ conns[c].fd = f

\* An entry whose socket is gone.
Orphan(k) == sock_key_conn_id_map[k] # NoFd /\ \A c \in Alive : Key(c) # k

\* An entry of sock_key_conn_id_map does not outlive the socket of its key: however
\* the descriptor was closed and whatever its record said, tcp_destroy_sock goes by
\* the socket, and the agent writes back only an entry that is still there.  An entry
\* without a socket appears only where a handler writes it that found the socket
\* before it went.
EntriesHaveSockets ==
    [][\A k \in Keys : Orphan(k)' /\ ~Orphan(k) =>
          \E t \in Threads : /\ call[t].op = "filed" /\ call'[t] = Idle
                             /\ parse_sock_key_sk(call[t].addr) = k
                             /\ conns[call[t].c].st = "gone"]_vars

\* The variables keep their types, and the record the data probes find under an open
\* descriptor is that of its own connection, though the handler of connect may run after the descriptor was closed
\* and given to another connection.  (The remote address may then be the one of the
\* first.)
DataReachesItsConnection ==
    /\ TypeOK
    /\ \A f \in Fds :
        LET c == fdTable[f] IN
        c # 0 /\ Known(f) /\ Clean(c)
            => conn_info_map[f].c = c /\ conn_info_map[f].key.local = conns[c].addr.local

\* No close event names a connection that is still open: neither the handler of a
\* close that returns late nor the end of another socket takes its record away.
ClosedOnlyAfterClose == \A r \in closing : ~r.open

\* A packet of a socket is filed under its own connection, from the first entry to
\* the end of the socket, if the descriptor is closed with close.  And while the
\* descriptor is open and its connection has a record, there is an entry, or the
\* handler is about to write it.  The entry is lost only when the delayed OnClose of
\* an earlier connection with the same two ends deletes it, when a close reads its key
\* from an element that is used again or from a record that has the addresses of one
\* connection and another, or when the connection began before its forerunner was
\* cleared away.
PacketsReachTheirConnection ==
    /\ \A c \in Alive :
        LET f == sock_key_conn_id_map[Key(c)] IN
        f # NoFd /\ Known(f) /\ Clean(c) /\ "untidy" \notin conns[c].marks
            => conn_info_map[f].c = c
    /\ \A f \in Fds :
        LET c == fdTable[f] IN
        c # 0 /\ Clean(c) /\ conn_info_map[f].c = c /\ "lost" \notin conns[c].marks
            => \/ sock_key_conn_id_map[Key(c)] = f
               \/ \E t \in Threads : call[t].op = "filed" /\ call[t].c = c

\* Nothing is left under a descriptor after a close has returned, neither a record
\* nor an entry that leads to it, not even if the agent wrote the trace state at the
\* same time.
LeftClean ==
    \A f \in Fds :
        /\ fdTable[f] = 0
        /\ Closing(f) = {}
        /\ \A c \in Begun : Clean(c) /\ (conns[c].fd = f => "untidy" \notin conns[c].marks)
        => ~Known(f) /\ ~LeadsTo(f)

\* With a filter on remote ports only connections to these ports are followed,
\* through whichever call they were found.  The port of an IPv6 address given to
\* connect is an exception: it is looked up with its bytes the other way round.  So is
\* a connection that is taken for the one an earlier connect was for.
WantedPortsOnly ==
    \A f \in Fds :
        LET r == conn_info_map[f]
            a == conns[r.c].addr
        IN /\ Known(f)
           /\ wanted.ports # {}
           /\ conns[r.c].st # "gone"
           /\ ~(r.role = "client" /\ a.fam # "v4")
           /\ r.key.remote = a.remote
           => a.port \in wanted.ports
=============================================================================
