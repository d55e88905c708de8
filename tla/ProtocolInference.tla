-------------------------- MODULE ProtocolInference --------------------------
(***************************************************************************)
(* bpf/protocol_inference.h: which protocol the bytes of one system call   *)
(* belong to.  A buffer is a sequence of bytes; Byte counts from 0, as the *)
(* code does.  conn_info keeps the last four bytes that came alone, for    *)
(* peers that read the header of a message and its body in two calls.      *)
(***************************************************************************)
EXTENDS Integers, Sequences

Byte(buf, i) == buf[i + 1]

be16(buf, i) == Byte(buf, i) * 256 + Byte(buf, i + 1)
le16(buf, i) == Byte(buf, i + 1) * 256 + Byte(buf, i)
le24(buf, i) == Byte(buf, i + 2) * 65536 + le16(buf, i)

\* Two's complement: only the highest byte has a sign.
SignedByte(b) == IF b < 128 THEN b ELSE b - 256
read_big_endian_int16(buf, i) == SignedByte(Byte(buf, i)) * 256 + Byte(buf, i + 1)
read_big_endian_int32(buf, i) == read_big_endian_int16(buf, i) * 65536 + be16(buf, i + 2)
le32(buf, i) == SignedByte(Byte(buf, i + 3)) * 16777216 + le24(buf, i)

\* bpf_ntohl of a 16-bit number, kept in 16 bits: what was its high half.
bpf_ntohl16(v) == LET high == v \div 65536 IN (high % 256) * 256 + high \div 256

IsRequest(found) == IF found THEN "request" ELSE "unknown"

NoPrev == [prev_count |-> 0, prev_buf |-> << >>]

infer_kafka_request(buf, i) ==
    /\ read_big_endian_int16(buf, i) \in 0 .. 62
    /\ read_big_endian_int16(buf, i + 2) \in 0 .. 17
    /\ read_big_endian_int32(buf, i + 4) >= 0

kafka_prev(buf, total, prev) ==
    prev.prev_count = 4 /\ read_big_endian_int32(prev.prev_buf, 0) \in {Len(buf), total}

\* Mutant: the length of the message is not compared.
is_kafka_protocol_any(buf, total, prev) ==
    IF kafka_prev(buf, total, prev)
    THEN Len(buf) >= 8 /\ infer_kafka_request(buf, 0)
    ELSE Len(buf) >= 12 /\ infer_kafka_request(buf, 4)

is_kafka_protocol(buf, total, prev) ==
    IF kafka_prev(buf, total, prev)
    THEN Len(buf) >= 8 /\ infer_kafka_request(buf, 0)
    ELSE /\ Len(buf) >= 12
         /\ read_big_endian_int32(buf, 0) \in {Len(buf) - 4, total - 4}
         /\ infer_kafka_request(buf, 4)

\* COM_QUERY, COM_CONNECT, COM_STMT_PREPARE, COM_STMT_EXECUTE, COM_STMT_CLOSE.
MySQLCommands == {3, 11, 22, 23, 25}

is_mysql_protocol(buf, prev) ==
    LET use_prev == prev.prev_count = 4 /\ le32(prev.prev_buf, 0) = Len(buf)
        header == IF use_prev THEN prev.prev_buf ELSE buf
    IN
    /\ Len(buf) >= (IF use_prev THEN 1 ELSE 5)
    /\ Byte(header, 3) = 0
    /\ le24(header, 0) \in 1 .. 10000
    /\ Byte(buf, IF use_prev THEN 0 ELSE 4) \in MySQLCommands

\* One of + - : $ * first, CR LF last.
is_redis_protocol(buf) ==
    /\ Len(buf) >= 3
    /\ Byte(buf, 0) \in {43, 45, 58, 36, 42}
    /\ SubSeq(buf, Len(buf) - 1, Len(buf)) = <<13, 10>>

\* HTTP, or GET, HEAD, POST.
is_http_protocol(buf) ==
    LET first == SubSeq(buf, 1, 4) IN
    IF Len(buf) >= 5 /\ first = <<72, 84, 84, 80>> THEN "response"
    ELSE IsRequest(/\ Len(buf) >= 5
                   /\ \/ SubSeq(buf, 1, 3) = <<71, 69, 84>>
                      \/ first \in {<<72, 69, 65, 68>>, <<80, 79, 83, 84>>})

MongoOpcodes == (2001 .. 2007) \cup {2012, 2013}

is_mongo_protocol(buf) ==
    /\ Len(buf) >= 16
    /\ le32(buf, 0) >= 16
    /\ le32(buf, 4) >= 0
    /\ le32(buf, 12) \in MongoOpcodes
    /\ le32(buf, 8) = 0

\* The JSON form begins with {"code":, the binary form with a request code.
is_rocketmq_protocol(buf) ==
    /\ Len(buf) >= 16
    /\ read_big_endian_int32(buf, 0) \in 1 .. (Len(buf) - 4)
    /\ LET header_data_len == Byte(buf, 5) * 65536 + be16(buf, 6) IN
       header_data_len > 0 /\ header_data_len = read_big_endian_int32(buf, 0) - 4
    /\ \/ /\ Byte(buf, 4) = 0
          /\ SubSeq(buf, 9, 16) = <<123, 34, 99, 111, 100, 101, 34, 58>>
       \/ /\ Byte(buf, 4) = 1
          /\ bpf_ntohl16(le16(buf, 8)) >= 10
          /\ Byte(buf, 10) <= 13

is_dns_protocol(buf) ==
    LET questions == be16(buf, 4) IN
    IF /\ Len(buf) \in 12 .. 512
       /\ (Byte(buf, 3) \div 64) % 2 = 0
       /\ (Byte(buf, 2) \div 8) % 16 = 0
       /\ questions \in 1 .. 10
       /\ questions + be16(buf, 6) + be16(buf, 8) + be16(buf, 10) <= 25
    THEN IF Byte(buf, 2) < 128 THEN "request" ELSE "response"
    ELSE "unknown"

\* The protocols in the order they are tried.
Cascade == <<"http", "mongo", "mysql", "rocketmq", "kafka", "dns", "redis">>

MessageType(p, buf, total, prev) ==
    CASE p = "http" -> is_http_protocol(buf)
      [] p = "mongo" -> IsRequest(is_mongo_protocol(buf))
      [] p = "mysql" -> IsRequest(is_mysql_protocol(buf, prev))
      [] p = "rocketmq" -> IsRequest(is_rocketmq_protocol(buf))
      [] p = "kafka" -> IsRequest(is_kafka_protocol(buf, total, prev))
      [] p = "dns" -> is_dns_protocol(buf)
      [] p = "redis" -> "unknown"

Claims(p, buf, total, prev) ==
    \/ p = "redis" /\ is_redis_protocol(buf)
    \/ MessageType(p, buf, total, prev) # "unknown"

\* traced is the one protocol the agent asks for, or "unset" for all of them.
Claimants(buf, total, prev, traced) ==
    {i \in DOMAIN Cascade : /\ traced \in {"unset", Cascade[i]}
                            /\ Claims(Cascade[i], buf, total, prev)}

infer_protocol(buf, total, prev, traced) ==
    LET found == Claimants(buf, total, prev, traced)
        p == Cascade[CHOOSE i \in found : \A j \in found : i <= j]
    IN IF found = {} THEN [protocol |-> "unknown", type |-> "unknown"]
       ELSE [protocol |-> p, type |-> MessageType(p, buf, total, prev)]

\* What conn_info keeps for the next call.
NextPrev(buf, prev) ==
    [prev_count |-> Len(buf), prev_buf |-> IF Len(buf) = 4 THEN buf ELSE prev.prev_buf]
=============================================================================
