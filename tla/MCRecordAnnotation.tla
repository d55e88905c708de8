------------------------- MODULE MCRecordAnnotation -------------------------
(* Instances of RecordAnnotation: a plain connection, one whose events carry *)
(* interfaces, and a TLS connection with the events it sends or receives, in *)
(* one state space.                                                          *)
EXTENDS RecordAnnotation

Plain == [ssl |-> FALSE, steps |-> {"SYSCALL_OUT", "TCP_IN"}, seqs |-> 1..3]
Nic   == [ssl |-> FALSE, steps |-> {"NIC_IN", "DEV_IN"}, seqs |-> 1..2]
Tls   == [ssl |-> TRUE, steps |-> {"SYSCALL_OUT"}, seqs |-> 1..3]
TlsIn == [ssl |-> TRUE, steps |-> {"TCP_IN"}, seqs |-> 2..3]

AllSetups == {Plain, Nic, Tls, TlsIn}

ThreeMessages ==
  {[seq |-> 1, len |-> 2], [seq |-> 2, len |-> 1], [seq |-> 3, len |-> 1]}

\* Three writes and three reads.  The second read was served from the bytes of the
\* first one's syscall, and the third one claims some of them as well.
TlsEvent(seq, kernSeq, kernLen) ==
  [seq |-> seq, len |-> 1, kernSeq |-> kernSeq, kernLen |-> kernLen]

TlsInputs ==
  [dir \in {"egress", "ingress"} |->
     IF dir = "egress" THEN {TlsEvent(1, 1, 1), TlsEvent(2, 2, 1), TlsEvent(3, 3, 1)}
     ELSE {TlsEvent(1, 1, 2), TlsEvent(2, 0, 0), TlsEvent(3, 2, 2)}]
=============================================================================
