---------------------------- MODULE MCDataProbes ----------------------------
(***************************************************************************)
(* Instances of DataProbes for TLC.                                        *)
(***************************************************************************)
EXTENDS DataProbes, TLC

CONSTANTS t1, t2

TwoThreads == {t1, t2}

Conn(m, role, lib, used) ==
    [proto |-> m.proto, request |-> m.request, response |-> m.response,
     role |-> role, lib |-> lib, calls |-> used]

\* GET / and HTTP/
Http == [proto |-> "http", request |-> <<71, 69, 84, 32, 47>>, response |-> <<72, 84, 84, 80, 47>>]

\* A produce request of eight bytes after its length, and the response to it, which
\* would pass for a request.
Kafka == [proto |-> "kafka", request |-> <<0, 0, 0, 8, 0, 0, 0, 3, 0, 0, 0, 1>>,
          response |-> <<0, 0, 0, 8, 0, 0, 0, 1, 0, 0, 0, 0>>]

\* COM_QUERY and an OK packet.
MySQL == [proto |-> "mysql", request |-> <<2, 0, 0, 0, 3, 65>>,
          response |-> <<8, 0, 0, 1, 0, 0, 0, 2, 0, 0, 0, 0>>]

\* *1 and +OK.
Redis == [proto |-> "redis", request |-> <<42, 49, 13, 10>>, response |-> <<43, 79, 75, 13, 10>>]

\* The beginning of a ClientHello.
ClientHello == <<22, 3, 1, 0, 200, 1, 0, 0, 196, 3, 3, 90>>

AllTraffic ==
    {Conn(Kafka, "server", "none", {read, readv, recvmmsg, write}),
     Conn(MySQL, "server", "none", {read, recvmsg, sendto, sendmsg}),
     Conn(Http, "client", "none", {recvfrom, readv, write, writev, sendfile64}),
     Conn(Redis, "client", "none", {read, recvmsg, recvmmsg, sendto, sendmsg, sendmmsg})}
    \cup {Conn(Http, "client", lib, {}) : lib \in {"nested", "offset", "go"}}

\* Kafka with plain and vectored calls only.
KafkaOnly == {Conn(Kafka, "server", "none", {read, readv, write, writev})}

Symmetry == Permutations(TwoThreads)
=============================================================================
