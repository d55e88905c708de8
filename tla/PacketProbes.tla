---------------------------- MODULE PacketProbes ----------------------------
(***************************************************************************)
(* The packet probes of bpf/pktlatency.bpf.c: how a TCP segment seen on    *)
(* its way through the stack is given a number in the byte stream of the   *)
(* connection it belongs to.                                               *)
(*                                                                         *)
(* The probes and the system call handlers number the bytes of a stream    *)
(* independently.  A handler counts the bytes of the calls it has seen, a  *)
(* probe subtracts the initial sequence number it finds in sock_xmit_map   *)
(* from the one in the header.  The agent correlates the two, so they must *)
(* agree.                                                                  *)
(*                                                                         *)
(* The model follows one local and remote address pair through several     *)
(* connections, told apart by inc.  A socket key is one of four flows: the *)
(* key of the socket (out), its reverse (in), and the same two under the   *)
(* address published by a NAT host (wout and win).  Sequence numbers are   *)
(* taken modulo SeqSpace.                                                  *)
(***************************************************************************)
EXTENDS Integers, Sequences, FiniteSets

CONSTANTS SeqSpace,     \* number of TCP sequence numbers
          Handshakes,   \* pairs of initial sequence numbers, ours and the peer's
          MaxConns,     \* bound on connections
          MaxNatConns,  \* bound on connections behind a NAT host
          MaxBytes,     \* bound on the bytes of a stream
          Lens,         \* lengths of segments and of data calls
          MaxWire,      \* bound on the packets under way
          MaxFirsts     \* bound on the first packet events waiting

ASSUME PacketProbesAssumption ==
    /\ SeqSpace \in Nat \ {0}
    /\ Handshakes \subseteq (0 .. SeqSpace - 1) \X (0 .. SeqSpace - 1)
    /\ {MaxConns, MaxNatConns, MaxBytes, MaxWire, MaxFirsts} \subseteq Nat
    /\ Lens \subseteq Nat \ {0}

VARIABLES nat,            \* whether a NAT host publishes the local address
          conn,           \* the connection now using the address pair
          sock_xmit_map,  \* initial sequence number of a flow, and who stored it
          connId,         \* sock_key_conn_id_map at the key of the socket
          infos,          \* connections with an entry in conn_info_map
          nat_flow_map,   \* the flow a flow is translated to
          wire,           \* packets under way, and the hop they come to next
          rep,            \* the packet event of the last step, if it made one
          firsts,         \* first packet events not yet handled by the agent
          firstRep,       \* the first packet event given to a connection in the last step
          agentKey,       \* ConnectionMap at the key of the socket
          closing,        \* connections whose delayed OnClose is due
          clearing        \* the connection whose OnClose is between its two maps

kernelVars == <<sock_xmit_map, connId, infos>>
agentVars == <<firsts, firstRep, agentKey, closing, clearing>>
vars == <<nat, conn, kernelVars, nat_flow_map, wire, rep, agentVars>>

Dirs == {"out", "in"}
Flows == {"out", "in", "wout", "win"}
Seqs == 0 .. SeqSpace - 1
NoEntry == [seq |-> 0, by |-> 0]
None == "none"

reverse_sock_key == [out |-> "in", in |-> "out", wout |-> "win", win |-> "wout"]

\* The probes on the way of a packet, each with the flow in the header there and
\* whether the packet still has its socket.  NAT stands for nf_nat_packet.
Hop(step, flow, sk) == [step |-> step, flow |-> flow, sk |-> sk]
Path(d) ==
    IF d = "out"
    THEN <<Hop("IP_OUT", "out", TRUE), Hop("QDISC_OUT", "out", TRUE), Hop("DEV_OUT", "out", TRUE)>>
         \o (IF nat THEN <<Hop("NAT", "wout", FALSE), Hop("DEV_OUT", "wout", FALSE)>> ELSE << >>)
    ELSE (IF nat THEN <<Hop("DEV_IN", "win", FALSE), Hop("IP_IN", "win", FALSE),
                        Hop("NAT", "in", FALSE)>> ELSE << >>)
         \o <<Hop("DEV_IN", "in", FALSE), Hop("IP_IN", "in", FALSE), Hop("TCP_IN", "in", FALSE)>>

Inbound(step) == step \in {"DEV_IN", "IP_IN", "TCP_IN", "USER_COPY"}

\* A connection.  sent, arrived and copied count stream bytes; pend holds the bytes
\* of a data call whose exit probe has not run; origin is the stream position at
\* which the counters of the system call handlers start.
NoConn == [inc |-> 0, st |-> "closed", server |-> FALSE, iss |-> 0, irs |-> 0, traced |-> FALSE,
           how |-> None, open |-> FALSE, sent |-> 0, peerSent |-> 0, arrived |-> 0, copied |-> 0,
           pend |-> [d \in Dirs |-> 0], origin |-> [d \in Dirs |-> 0],
           early |-> FALSE, overlap |-> FALSE, cleared |-> FALSE]

Packet(d, syn, pos, len) ==
    [inc |-> conn.inc, dir |-> d, syn |-> syn, pos |-> pos, len |-> len, hop |-> 1,
     seq |-> ((IF d = "out" THEN conn.iss ELSE conn.irs) + pos) % SeqSpace]

write_seq == (conn.iss + 1 + conn.sent) % SeqSpace
copied_seq == IF conn.st = "syn" THEN 0 ELSE (conn.irs + 1 + conn.copied) % SeqSpace

\* Nothing is known, or the agent starts in the middle of a connection.
Init ==
    /\ nat \in BOOLEAN
    /\ conn \in {NoConn} \cup
               {[NoConn EXCEPT !.inc = 1, !.st = "est", !.open = TRUE, !.traced = TRUE,
                               !.iss = h[1], !.irs = h[2], !.sent = 1, !.peerSent = 1,
                               !.arrived = 1, !.copied = c, !.early = TRUE] :
                   h \in Handshakes, c \in {0, 1}}
    /\ sock_xmit_map = [f \in Flows |-> NoEntry]
    /\ connId = 0
    /\ infos = {}
    /\ nat_flow_map = [f \in Flows |-> None]
    /\ wire = {}
    /\ rep = {}
    /\ firsts = {}
    /\ firstRep = {}
    /\ agentKey = 0
    /\ closing = {}
    /\ clearing = 0
-----------------------------------------------------------------------------
(* The probes.                                                             *)

Stored(seq, by) == [seq |-> seq % SeqSpace, by |-> by]
Known(entry) == entry.by # 0

\* Mutant: any packet of an unknown connection is a first packet.
FirstPacketAny(id, rel, p, step) == id = 0 /\ p.len > 0 /\ step \in {"DEV_IN", "TCP_IN"}

FirstPacket(id, rel, p, step) ==
    id = 0 /\ rel = 1 /\ p.len > 0 /\ step \in {"DEV_IN", "TCP_IN"}

\* report_kern_evt and parse_kern_evt_body: the number of the packet, and the
\* connection the reversed or plain key leads to.  The agent and the inference
\* change no_trace and the protocol at any time, so wanted stands for their values.
Report(key, step, entry, p) ==
    LET lookup == IF Inbound(step) THEN reverse_sock_key[key] ELSE key
        id == IF lookup = "out" THEN connId ELSE 0
        rel == (p.seq - entry.seq) % SeqSpace
    IN \E wanted \in BOOLEAN :
    /\ rep' = IF id # 0 /\ wanted /\ id \in infos
              THEN {[id |-> id, inc |-> p.inc, by |-> entry.by, dir |-> p.dir, pos |-> p.pos,
                     rel |-> rel]}
              ELSE {}
    /\ firsts' = IF FirstPacket(id, rel, p, step)
                 THEN firsts \cup {[key |-> lookup, inc |-> p.inc, by |-> entry.by, pos |-> p.pos]}
                 ELSE firsts

NoReport == rep' = {} /\ firsts' = firsts
Silent == rep' = {} /\ firstRep' = {}

\* Mutant: the flags are not looked at.
InitialSeqNoFlags(p) == p.seq - 1

\* A SYN takes a sequence number of its own, data begins after it.
InitialSeq(p) == IF p.syn THEN p.seq ELSE p.seq - 1

\* parse_skb: the key of the socket is used when the packet has one; a stored
\* initial sequence number of 0 sends the probe back to the header.
parse_skb(hop, p) ==
    LET bySock == sock_xmit_map["out"]
        translated == nat_flow_map[hop.flow]
        key == IF hop.step \in {"DEV_IN", "DEV_OUT"} /\ translated # None
               THEN translated ELSE hop.flow
        fresh == Stored(InitialSeq(p), p.inc)
    IN
    \/ /\ hop.sk
       /\ ~Known(bySock)
       /\ NoReport
       /\ UNCHANGED sock_xmit_map
    \/ /\ hop.sk
       /\ Known(bySock) /\ bySock.seq # 0
       /\ Report("out", hop.step, bySock, p)
       /\ UNCHANGED sock_xmit_map
    \/ /\ hop.sk => Known(bySock) /\ bySock.seq = 0
       /\ Known(sock_xmit_map[key])
       /\ Report(key, hop.step, sock_xmit_map[key], p)
       /\ UNCHANGED sock_xmit_map
    \/ /\ hop.sk => Known(bySock) /\ bySock.seq = 0
       /\ ~Known(sock_xmit_map[key])
       /\ hop.step = "DEV_IN"
       /\ sock_xmit_map' = [sock_xmit_map EXCEPT ![key] = fresh]
       /\ Report(key, hop.step, fresh, p)
    \/ /\ hop.sk => Known(bySock) /\ bySock.seq = 0
       /\ ~Known(sock_xmit_map[key])
       /\ hop.step # "DEV_IN"
       /\ NoReport
       /\ UNCHANGED sock_xmit_map

\* handle_ip_queue_xmit
handle_ip_queue_xmit(p) ==
    /\ IF Known(sock_xmit_map["out"])
       THEN Report("out", "IP_OUT", sock_xmit_map["out"], p)
       ELSE NoReport
    /\ UNCHANGED sock_xmit_map

\* The conntrack entry of the flow: the client talks to the published address
\* (orig = win) and the socket answers it (reply = out).
handle_nat ==
    LET orig == "win"
        reply == "out"
    IN nat_flow_map' = [nat_flow_map EXCEPT ![reverse_sock_key[orig]] = reply,
                                            ![orig] = reverse_sock_key[reply]]

\* What the stack does with a segment after the last probe: the handshake moves
\* on, in-order bytes join the receive queue, everything else is dropped.
Receive(p) ==
    conn' =
        IF p.dir # "in" \/ p.inc # conn.inc THEN conn
        ELSE IF p.syn
             THEN IF conn.st \in {"syn", "rcv"} THEN [conn EXCEPT !.st = "est"] ELSE conn
             ELSE IF conn.st = "est" /\ p.pos = conn.arrived + 1
                  THEN [conn EXCEPT !.arrived = @ + p.len]
                  ELSE conn

\* A packet comes to the next hop on its way.
Pass(p) ==
    LET path == Path(p.dir)
        hop == path[p.hop]
        last == p.hop = Len(path)
    IN
    /\ wire' = (wire \ {p}) \cup (IF last THEN {} ELSE {[p EXCEPT !.hop = @ + 1]})
    /\ \/ hop.step = "NAT" /\ handle_nat /\ NoReport /\ UNCHANGED sock_xmit_map
       \/ hop.step = "IP_OUT" /\ handle_ip_queue_xmit(p) /\ UNCHANGED nat_flow_map
       \/ hop.step \notin {"NAT", "IP_OUT"} /\ parse_skb(hop, p) /\ UNCHANGED nat_flow_map
    /\ IF last THEN Receive(p) ELSE UNCHANGED conn
    /\ Cardinality(firsts') <= MaxFirsts
    /\ firstRep' = {}
    /\ UNCHANGED <<nat, connId, infos, agentKey, closing, clearing>>

\* A packet is lost on the way.
Lose(p) ==
    /\ wire' = wire \ {p}
    /\ Silent
    /\ UNCHANGED <<nat, conn, kernelVars, nat_flow_map, firsts, agentKey, closing, clearing>>

Send(p) == Cardinality(wire) < MaxWire /\ wire' = wire \cup {p}

Traffic ==
    /\ Silent
    /\ UNCHANGED <<nat, kernelVars, nat_flow_map, firsts, agentKey, closing, clearing>>

\* The peer's SYN, or its answer to ours.
PeerSyn ==
    /\ conn.st \in {"syn", "rcv"}
    /\ Send(Packet("in", TRUE, 0, 0))
    /\ Traffic
    /\ UNCHANGED conn

PeerSends(n) ==
    /\ conn.st = "est"
    /\ conn.peerSent + n <= MaxBytes
    /\ Send(Packet("in", FALSE, conn.peerSent + 1, n))
    /\ conn' = [conn EXCEPT !.peerSent = @ + n]
    /\ Traffic

\* Either end sends a byte again.
Resend(d, pos) ==
    /\ conn.st = "est"
    /\ pos <= IF d = "out" THEN conn.sent ELSE conn.peerSent
    /\ Send(Packet(d, FALSE, pos, 1))
    /\ Traffic
    /\ UNCHANGED conn
-----------------------------------------------------------------------------
(* System calls of the traced process.                                     *)

Begin(server, st, h, traced) ==
    [NoConn EXCEPT !.inc = conn.inc + 1, !.st = st, !.server = server, !.iss = h[1], !.irs = h[2],
                   !.traced = traced, !.open = TRUE]

\* connect() has sent its SYN.
Connect(h, traced) ==
    /\ ~nat
    /\ conn.st = "closed"
    /\ conn.inc < MaxConns
    /\ conn' = Begin(FALSE, "syn", h, traced)
    /\ Send([Packet("out", TRUE, 0, 0) EXCEPT !.inc = conn.inc + 1, !.seq = h[1]])
    /\ Traffic

\* A client begins to connect to a listening socket.
PeerConnects(h, traced) ==
    /\ conn.st = "closed"
    /\ conn.inc < IF nat THEN MaxNatConns ELSE MaxConns
    /\ conn' = Begin(TRUE, "rcv", h, traced)
    /\ Traffic
    /\ UNCHANGED wire

\* The part of create_conn_info that concerns the maps of this model.
create_conn_info ==
    /\ infos' = infos \cup {conn.inc}
    /\ connId' = IF connId = 0 THEN conn.inc ELSE connId
    /\ agentKey' = conn.inc

\* submit_new_conn at the exit of accept, of a connect that has succeeded, or of
\* one that answers EINPROGRESS.
submit_new_conn(how) ==
    /\ conn.traced /\ conn.open
    /\ conn.how = None /\ conn.inc \notin infos
    /\ conn.sent = 0 /\ conn.copied = 0
    /\ CASE how = "accept"     -> conn.server /\ conn.st = "est"
         [] how = "connect"    -> ~conn.server /\ conn.st = "est"
         [] how = "inprogress" -> ~conn.server /\ conn.st \in {"syn", "est"}
    /\ create_conn_info
    /\ sock_xmit_map' =
           [sock_xmit_map EXCEPT
               !["out"] = IF write_seq # 0 THEN Stored(write_seq - 1, conn.inc) ELSE @,
               !["in"] = IF copied_seq # 0 THEN Stored(copied_seq - 1, conn.inc) ELSE @]
    /\ conn' = [conn EXCEPT !.how = how]
    /\ Silent
    /\ UNCHANGED <<nat, nat_flow_map, wire, firsts, closing, clearing>>

\* A data call moves bytes between the process and the socket.
AppWrites(n) ==
    /\ conn.st = "est" /\ conn.open
    /\ conn.pend["out"] = 0
    /\ conn.sent + n <= MaxBytes
    /\ conn' = [conn EXCEPT !.sent = @ + n, !.pend["out"] = n]
    /\ Send(Packet("out", FALSE, conn.sent + 1, n))
    /\ Traffic

\* handle_skb_data_copy reports the bytes a read copies to the process.
AppReads(n) ==
    LET p == Packet("in", FALSE, conn.copied + 1, n) IN
    /\ conn.st = "est" /\ conn.open
    /\ conn.pend["in"] = 0
    /\ conn.copied + n <= conn.arrived
    /\ conn' = [conn EXCEPT !.copied = @ + n, !.pend["in"] = n]
    /\ IF Known(sock_xmit_map["in"])
       THEN Report("in", "USER_COPY", sock_xmit_map["in"], p)
       ELSE NoReport
    /\ firstRep' = {}
    /\ UNCHANGED <<nat, kernelVars, nat_flow_map, wire, agentKey, closing, clearing>>

Opposite(d) == IF d = "out" THEN "in" ELSE "out"

\* Mutant: the bytes of the call that found the connection are not taken off.
OwnBytesNone(call, d) == 0

\* The bytes of the call itself, which the socket has counted already.
OwnBytes(call, d) == IF call = d THEN conn.pend[d] ELSE 0

\* The exit of a data call.  create_conn_info_in_data_syscall begins to follow a
\* connection whose connect or accept was not seen.
DataReturns(d) ==
    LET creates == conn.traced /\ conn.inc \notin infos
        send_initial_seq == write_seq - OwnBytes(d, "out") - 1
        rcv_initial_seq == copied_seq - OwnBytes(d, "in") - 1
    IN
    /\ conn.pend[d] > 0
    /\ IF creates
       THEN /\ create_conn_info
            /\ sock_xmit_map' = [sock_xmit_map EXCEPT
                                    !["out"] = Stored(send_initial_seq, conn.inc),
                                    !["in"] = Stored(rcv_initial_seq, conn.inc)]
            /\ conn' = [conn EXCEPT !.how = "data", !.pend[d] = 0,
                                    !.origin = [out |-> conn.sent - conn.pend["out"],
                                                in |-> conn.copied - conn.pend["in"]],
                                    !.overlap = conn.pend[Opposite(d)] # 0]
       ELSE /\ conn' = [conn EXCEPT !.pend[d] = 0]
            /\ UNCHANGED <<kernelVars, agentKey>>
    /\ Silent
    /\ UNCHANGED <<nat, nat_flow_map, wire, firsts, closing, clearing>>

Idle == conn.pend = [d \in Dirs |-> 0]

\* process_syscall_close
process_syscall_close ==
    /\ conn.open /\ Idle
    /\ conn' = [conn EXCEPT !.open = FALSE]
    /\ IF conn.inc \in infos
       THEN /\ infos' = infos \ {conn.inc}
            /\ connId' = 0
            /\ closing' = closing \cup {conn.inc}
       ELSE UNCHANGED <<infos, connId, closing>>
    /\ Silent
    /\ UNCHANGED <<nat, sock_xmit_map, nat_flow_map, wire, firsts, agentKey, clearing>>

\* The socket goes away, after a close or because its process ends.  Only the
\* entry of the key of the socket is deleted, not the one of its reverse.
tcp_destroy_sock ==
    /\ conn.st # "closed" /\ Idle
    /\ conn' = [NoConn EXCEPT !.inc = conn.inc, !.early = conn.early]
    /\ sock_xmit_map' = [sock_xmit_map EXCEPT !["out"] = NoEntry]
    /\ infos' = infos \ {connId}
    /\ closing' = closing \cup (infos \cap {connId})
    /\ connId' = 0
    /\ Silent
    /\ UNCHANGED <<nat, nat_flow_map, wire, firsts, agentKey, clearing>>
-----------------------------------------------------------------------------
(* The agent.                                                              *)

\* The delayed OnClose deletes the connection ids, then the sequence numbers.
OnCloseIds(c) ==
    /\ clearing = 0
    /\ clearing' = c
    /\ connId' = 0
    /\ Silent
    /\ UNCHANGED <<nat, conn, sock_xmit_map, infos, nat_flow_map, wire, firsts,
                   agentKey, closing>>

OnCloseSeqs ==
    /\ clearing # 0
    /\ clearing' = 0
    /\ closing' = closing \ {clearing}
    /\ sock_xmit_map' = [sock_xmit_map EXCEPT !["out"] = NoEntry, !["in"] = NoEntry]
    /\ conn' = [conn EXCEPT !.cleared = TRUE]
    /\ Silent
    /\ UNCHANGED <<nat, connId, infos, nat_flow_map, wire, firsts, agentKey>>

\* The sweeper takes a closed connection out of ConnectionMap.
Forget ==
    /\ agentKey # 0
    /\ agentKey \notin closing \cup infos
    /\ agentKey' = 0
    /\ Silent
    /\ UNCHANGED <<nat, conn, kernelVars, nat_flow_map, wire, firsts, closing, clearing>>

\* FirstPacketProcessor.processEvent: the packet becomes number 1 of the
\* connection ConnectionMap has for its key.
processEvent(f) ==
    /\ firsts' = firsts \ {f}
    /\ firstRep' = IF f.key = "out" /\ agentKey # 0
                   THEN {[conn |-> agentKey, inc |-> f.inc, by |-> f.by, pos |-> f.pos]}
                   ELSE {}
    /\ rep' = {}
    /\ UNCHANGED <<nat, conn, kernelVars, nat_flow_map, wire, agentKey, closing, clearing>>

Next ==
    \/ \E p \in wire : Pass(p) \/ Lose(p)
    \/ PeerSyn
    \/ \E n \in Lens : PeerSends(n) \/ AppWrites(n) \/ AppReads(n)
    \/ \E d \in Dirs, pos \in 1 .. MaxBytes : Resend(d, pos)
    \/ \E h \in Handshakes, traced \in BOOLEAN : Connect(h, traced) \/ PeerConnects(h, traced)
    \/ \E how \in {"connect", "inprogress", "accept"} : submit_new_conn(how)
    \/ \E d \in Dirs : DataReturns(d)
    \/ process_syscall_close
    \/ tcp_destroy_sock
    \/ \E c \in closing : OnCloseIds(c)
    \/ OnCloseSeqs
    \/ Forget
    \/ \E f \in firsts : processEvent(f)

Spec == Init /\ [][Next]_vars
-----------------------------------------------------------------------------
(* Properties.                                                             *)

Entries == [seq : Seqs, by : 0 .. MaxConns]

\* The variables keep their types.
TypeOK ==
    /\ nat \in BOOLEAN
    /\ conn.inc \in 0 .. MaxConns /\ conn.st \in {"closed", "syn", "rcv", "est"}
    /\ conn.arrived \in 0 .. conn.peerSent /\ conn.copied \in 0 .. conn.arrived
    /\ sock_xmit_map \in [Flows -> Entries]
    /\ {connId, agentKey, clearing} \subseteq 0 .. MaxConns
    /\ infos \subseteq 1 .. MaxConns /\ closing \subseteq 1 .. MaxConns
    /\ nat_flow_map \in [Flows -> Flows \cup {None}]

\* Every packet event carries the number that the system call handlers give the
\* same byte, so that the agent can correlate the two.  The exceptions are a
\* number taken from a map entry of an earlier connection, a connection found
\* while a call of the other direction was between its two probes, and one during
\* which the agent has cleared the maps of its predecessor.
NumbersAgree ==
    \A r \in rep :
        r.inc = r.id /\ r.by = r.id /\ ~conn.overlap /\ ~conn.cleared
            => r.rel = (r.pos - conn.origin[r.dir]) % SeqSpace

Tracked == conn.st = "est" /\ connId = conn.inc /\ conn.inc \in infos

Entry(d) ==
    Stored((IF d = "out" THEN conn.iss ELSE conn.irs) + conn.origin[d], conn.inc)

\* The variables keep their types, and a connection that is followed has its own
\* sequence numbers in both directions.
\* The code leaves this open in three cases: after EINPROGRESS the number of the
\* peer is not known yet, and one left by an earlier connection stays; a write_seq
\* or copied_seq that happens to be 0 is taken for a missing one; and the delayed
\* OnClose of an earlier connection deletes the numbers of its successor.
TrackedIsNumbered ==
    /\ TypeOK
    /\ Tracked /\ ~conn.overlap /\ ~conn.cleared =>
        /\ conn.iss # SeqSpace - 1 => sock_xmit_map["out"] = Entry("out")
        /\ conn.irs # SeqSpace - 1 /\ conn.how # "inprogress" => sock_xmit_map["in"] = Entry("in")

\* A packet the agent makes number 1 of a connection is its first one, if the
\* connection was followed from its start, the map entry used was its own, and no
\* OnClose has deleted the sequence numbers of the address pair meanwhile.  The event
\* names the socket and not the address a NAT host publishes for it: by the time
\* data comes in, the handshake has taught the translation to nat_flow_map.  (A
\* connection older than the agent has no such handshake.)
FirstPacketIsFirst ==
    /\ \A f \in firstRep :
        f.conn = conn.inc /\ f.by = conn.inc /\ ~conn.cleared
            /\ conn.how \in {"accept", "connect"}
            => f.pos = 1
    /\ \A f \in firsts : f.inc = conn.inc /\ ~conn.early => f.key = "out"
=============================================================================
