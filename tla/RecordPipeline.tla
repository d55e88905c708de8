--------------------------- MODULE RecordPipeline ---------------------------
(***************************************************************************)
(* From parsed messages to submitted records, for the connections of one   *)
(* Processor (agent/conn): the handler of a data event parses a message    *)
(* into its queue, pairs requests with responses (matchByTimestamp of      *)
(* agent/protocol/common.go, used by HTTP and Redis) and sends the pairs   *)
(* over an unbuffered channel to the RecordsProcessor goroutine, which     *)
(* gathers them and, at each tick of one second, submits those that are    *)
(* old enough (agent/conn/record_processor.go).                            *)
(*                                                                         *)
(* A message is [conn, id, ts]: the id-th request or response of its       *)
(* connection and the time of its first byte.                              *)
(***************************************************************************)
EXTENDS Integers, Sequences, FiniteSets, SequencesExt

CONSTANTS Conns,         \* connections of the Processor
          MaxExchanges,  \* bound: requests per connection
          MaxTime,       \* bound: no message is sent after this time
          Pipelining,    \* whether a client may send a request before the
                         \* response to the one before
          Lag,           \* a message may be parsed before ones of the other
                         \* direction that were sent up to Lag messages earlier
          MaxLost,       \* bound: messages that are never parsed
          Delay,         \* a record waits until its response is this old
          MinLatency     \* LatencyFilter.MinLatency

ASSUME PipelineAssumption ==
  /\ MaxExchanges \in Nat /\ MaxTime \in Nat /\ MaxLost \in Nat
  /\ Delay \in Nat /\ MinLatency \in Nat
  /\ Pipelining \in BOOLEAN /\ Lag \in Nat

VARIABLES now,        \* the clock
          traffic,    \* connection -> its messages so far, [kind, id, ts]
          unparsed,   \* connection -> indices of traffic not yet parsed or lost
          reqQueue,   \* connection -> ReqQueue
          respQueue,  \* connection -> RespQueue
          outbox,     \* records the Processor is about to send on recordChannel
          records,    \* RecordsProcessor.records
          received,   \* every record that came over the channel
          submitted,  \* the records submitRecord was called with, in order
          lost,       \* how many messages were lost
          overtaken   \* whether a message was parsed before an earlier one

vars == <<now, traffic, unparsed, reqQueue, respQueue, outbox, records, received,
          submitted, lost, overtaken>>

Count(c, kind) == Cardinality({i \in DOMAIN traffic[c] : traffic[c][i].kind = kind})

Init ==
  /\ now = 1
  /\ traffic = [c \in Conns |-> <<>>]
  /\ unparsed = [c \in Conns |-> {}]
  /\ reqQueue = [c \in Conns |-> <<>>]
  /\ respQueue = [c \in Conns |-> <<>>]
  /\ outbox = <<>>
  /\ records = <<>>
  /\ received = {}
  /\ submitted = <<>>
  /\ lost = 0
  /\ overtaken = FALSE

-----------------------------------------------------------------------------
(* The traced program.                                                     *)

\* The messages of a connection have different times.
Exchange(c, kind) ==
  /\ now <= MaxTime
  /\ traffic[c] # <<>> => Last(traffic[c]).ts < now
  /\ traffic' = [traffic EXCEPT ![c] =
                   Append(@, [kind |-> kind, id |-> Count(c, kind) + 1, ts |-> now])]
  /\ unparsed' = [unparsed EXCEPT ![c] = @ \cup {Len(traffic[c]) + 1}]
  /\ UNCHANGED <<now, reqQueue, respQueue, outbox, records, received, submitted, lost,
                 overtaken>>

Request(c) ==
  /\ Count(c, "req") < MaxExchanges
  /\ Pipelining \/ Count(c, "req") = Count(c, "resp")
  /\ Exchange(c, "req")

Response(c) ==
  /\ Count(c, "resp") < Count(c, "req")
  /\ Exchange(c, "resp")

ClockTick ==
  /\ now < MaxTime + Delay + 1
  /\ now' = now + 1
  /\ UNCHANGED <<traffic, unparsed, reqQueue, respQueue, outbox, records, received,
                 submitted, lost, overtaken>>

-----------------------------------------------------------------------------
Paired(s) == Append(s.records, [req |-> s.req[1], resp |-> Head(s.resps)])

\* Mutant: the first of several requests before a response is kept.
MatchStepKeepingFirst(s) ==
  IF s.reqs # <<>> /\ Head(s.reqs).ts < Head(s.resps).ts
  THEN [s EXCEPT !.req = IF @ = <<>> THEN <<Head(s.reqs)>> ELSE @, !.reqs = Tail(@)]
  ELSE [s EXCEPT !.resps = Tail(@), !.req = <<>>,
                 !.records = IF s.req = <<>> THEN @ ELSE Paired(s)]

\* Mutant: the record is not reset after a pair.
MatchStepWithoutReset(s) ==
  IF s.reqs # <<>> /\ Head(s.reqs).ts < Head(s.resps).ts
  THEN [s EXCEPT !.req = <<Head(s.reqs)>>, !.reqs = Tail(@)]
  ELSE [s EXCEPT !.resps = Tail(@),
                 !.records = IF s.req = <<>> THEN @ ELSE Paired(s)]

\* One turn of the loop of matchByTimestamp.  req holds record.Req, when it is set.
MatchStep(s) ==
  IF s.reqs # <<>> /\ Head(s.reqs).ts < Head(s.resps).ts
  THEN [s EXCEPT !.req = <<Head(s.reqs)>>, !.reqs = Tail(@)]
  ELSE [s EXCEPT !.resps = Tail(@), !.req = <<>>,
                 !.records = IF s.req = <<>> THEN @ ELSE Paired(s)]

Unmatched(reqs, resps) == [reqs |-> reqs, resps |-> resps, req |-> <<>>, records |-> <<>>]

\* The loop runs until there is no response left; every turn takes a message.
MatchLoop(reqs, resps) ==
  LET Turn[n \in 0..(Len(reqs) + Len(resps))] ==
        IF n = 0 THEN Unmatched(reqs, resps)
        ELSE IF Turn[n - 1].resps = <<>> THEN Turn[n - 1] ELSE MatchStep(Turn[n - 1])
  IN  Turn[Len(reqs) + Len(resps)]

matchByTimestamp(reqs, resps) ==
  IF reqs = <<>> \/ resps = <<>> THEN Unmatched(reqs, resps) ELSE MatchLoop(reqs, resps)

MayParse(c, i) ==
  /\ i \in unparsed[c]
  /\ \A j \in unparsed[c] :
       j < i => (i - j <= Lag /\ traffic[c][j].kind # traffic[c][i].kind)

\* The handler of a data event that completes the i-th message of c: it is
\* parsed, Match runs, and the records are ready to be sent one by one.
OnSyscallEvent(c, i) ==
  LET m       == traffic[c][i]
      message == [conn |-> c, id |-> m.id, ts |-> m.ts]
      reqs    == IF m.kind = "req" THEN Append(reqQueue[c], message) ELSE reqQueue[c]
      resps   == IF m.kind = "resp" THEN Append(respQueue[c], message) ELSE respQueue[c]
      matched == matchByTimestamp(reqs, resps)
  IN  /\ outbox = <<>>
      /\ MayParse(c, i)
      /\ unparsed' = [unparsed EXCEPT ![c] = @ \ {i}]
      /\ reqQueue' = [reqQueue EXCEPT ![c] = matched.reqs]
      /\ respQueue' = [respQueue EXCEPT ![c] = matched.resps]
      /\ outbox' = matched.records
      /\ overtaken' = (overtaken \/ \E j \in unparsed[c] : j < i)
      /\ UNCHANGED <<now, traffic, records, received, submitted, lost>>

\* The bytes of the message do not all reach the parser.
LoseMessage(c, i) ==
  /\ outbox = <<>>
  /\ lost < MaxLost
  /\ MayParse(c, i)
  /\ unparsed' = [unparsed EXCEPT ![c] = @ \ {i}]
  /\ lost' = lost + 1
  /\ UNCHANGED <<now, traffic, reqQueue, respQueue, outbox, records, received, submitted,
                 overtaken>>

-----------------------------------------------------------------------------
\* RecordsProcessor.Run, case of recordChannel: the Processor's send and this
\* receive are one step.
ReceiveRecord ==
  /\ outbox # <<>>
  /\ records' = Append(records, Head(outbox))
  /\ received' = received \cup {Head(outbox)}
  /\ outbox' = Tail(outbox)
  /\ UNCHANGED <<now, traffic, unparsed, reqQueue, respQueue, submitted, lost,
                 overtaken>>

\* The orders in which SortFunc, which is not stable, may leave the records.
SortedByRequest(rs) ==
  {s \in {[i \in DOMAIN rs |-> rs[p[i]]] : p \in Permutations(DOMAIN rs)} :
     \A i, j \in DOMAIN s : i < j => s[i].req.ts <= s[j].req.ts}

\* Mutant: the response's time is not converted to the clock's unit.
OldEnoughUnconverted(record) == now - 1000 * record.resp.ts >= Delay

OldEnough(record) == now - record.resp.ts >= Delay

\* Mutant: only the records before the first one submitted are kept.
KeptBeforeFirst(sorted, ready) ==
  IF ready = {} THEN sorted
  ELSE SubSeq(sorted, 1, (CHOOSE i \in ready : \A j \in ready : j >= i) - 1)

\* What is left of the sorted records when those at the indices ready were
\* submitted: the ones after the last of them.
Kept(sorted, ready) ==
  IF ready = {} THEN sorted
  ELSE SubSeq(sorted, 1 + CHOOSE i \in ready : \A j \in ready : j <= i, Len(sorted))

\* RecordsProcessor.Run, case of the ticker.
Submit ==
  /\ records # <<>>
  /\ \E sorted \in SortedByRequest(records) :
       LET ready == {i \in DOMAIN sorted : OldEnough(sorted[i])}
       IN  /\ submitted' = submitted \o SelectSeq(sorted, OldEnough)
           /\ records' = Kept(sorted, ready)
  /\ UNCHANGED <<now, traffic, unparsed, reqQueue, respQueue, outbox, received, lost,
                 overtaken>>

Next ==
  \/ \E c \in Conns : Request(c) \/ Response(c)
  \/ \E c \in Conns : \E i \in unparsed[c] : OnSyscallEvent(c, i) \/ LoseMessage(c, i)
  \/ ReceiveRecord
  \/ Submit
  \/ ClockTick

Spec == Init /\ [][Next]_vars

\* The goroutines run, the ticker ticks and time passes; the program may stop.
Fairness == WF_vars(ReceiveRecord) /\ WF_vars(Submit) /\ WF_vars(ClockTick)

FairSpec == Spec /\ Fairness

-----------------------------------------------------------------------------
Message == [conn : Conns, id : 1..MaxExchanges, ts : 1..MaxTime]
Record  == [req : Message, resp : Message]

TypeOK ==
  /\ reqQueue \in [Conns -> Seq(Message)]
  /\ respQueue \in [Conns -> Seq(Message)]
  /\ outbox \in Seq(Record)
  /\ records \in Seq(Record)
  /\ received \subseteq Record
  /\ submitted \in Seq(Record)
  /\ lost \in 0..MaxLost

Produced == received \cup {outbox[i] : i \in DOMAIN outbox}

\* The client of c waits for each response before it sends the next request.
Alternates(c) ==
  \A i \in DOMAIN traffic[c] : traffic[c][i].kind = IF i % 2 = 1 THEN "req" ELSE "resp"

\* Without pipelining a record pairs a request with its own response: when a
\* message is lost and the others are parsed in order, and when messages of an
\* exchange come in the wrong order and none is lost; not when a response and
\* the next request are lost, since times are all there is to match by.  When
\* nothing was lost, no request was pipelined and no message was overtaken by one
\* more than Lag later, a request and a response that have both been parsed have
\* been paired: none stays in the queues or falls out of them.
ParsedPairsAreMatched ==
  /\ lost = 0 \/ ~overtaken =>
       \A r \in Produced : Alternates(r.req.conn) => r.req.conn = r.resp.conn /\ r.req.id = r.resp.id
  /\ lost = 0 =>
       \A c \in {d \in Conns : Alternates(d)} : \A i, j \in DOMAIN traffic[c] :
         (/\ traffic[c][i].kind = "req" /\ traffic[c][j].kind = "resp"
          /\ traffic[c][i].id = traffic[c][j].id
          /\ {i, j} \cap unparsed[c] = {}) =>
            \E r \in Produced : r.req.conn = c /\ r.req.id = traffic[c][i].id

\* The variables keep their types.  Matching never pairs a response with a later
\* request, and uses no message in two records, also under pipelining and with
\* losses; and no record is submitted twice, over all ticks.
MessagesUsedOnce ==
  /\ TypeOK
  /\ \A r \in Produced : r.req.conn = r.resp.conn /\ r.req.ts < r.resp.ts
  /\ \A r, s \in Produced : (r.req = s.req \/ r.resp = s.resp) => r = s
  /\ \A i, j \in DOMAIN submitted : submitted[i] = submitted[j] => i = j

\* submitRecord: RecordFunc is called for the records that pass the filters, here
\* the one on latency.
PassesFilter(record) == MinLatency <= 0 \/ record.resp.ts - record.req.ts >= MinLatency

Reported(r) == \E i \in DOMAIN submitted : submitted[i] = r /\ PassesFilter(r)

InRecords(r)    == \E i \in DOMAIN records : records[i] = r
WasSubmitted(r) == \E i \in DOMAIN submitted : submitted[i] = r

\* The only records that RecordsProcessor drops are those that were overtaken: a
\* record whose request was sent no earlier was answered sooner.
OnlyOvertakenAreDropped ==
  \A r \in received :
    (~InRecords(r) /\ ~WasSubmitted(r)) =>
      \E i \in DOMAIN submitted :
        submitted[i].req.ts >= r.req.ts /\ submitted[i].resp.ts < r.resp.ts

\* "By default, kyanos captures all traffic for the protocols it currently
\* supports" (docs/watch.md:74): a record that was matched and passes the filters
\* is waiting or was reported.  The code drops a slow record when a quicker one, whose request
\* came after, is submitted before it.
NoRecordDropped ==
  \A r \in received : PassesFilter(r) => InRecords(r) \/ Reported(r)

\* No record waits for ever.
RecordsLeave == \A c \in Conns : \A id \in 1..MaxExchanges :
  (\E i \in DOMAIN records : records[i].req.conn = c /\ records[i].req.id = id) ~>
    (\A i \in DOMAIN records : records[i].req.conn # c \/ records[i].req.id # id)
=============================================================================
