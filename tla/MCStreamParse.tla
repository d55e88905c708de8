---------------------------- MODULE MCStreamParse ----------------------------
EXTENDS StreamParse

\* A short request, one with a body, and a short one.
ThreeRequests ==
  <<[first |-> 1, header |-> 2, last |-> 2],
    [first |-> 3, header |-> 4, last |-> 6],
    [first |-> 7, header |-> 8, last |-> 8]>>

\* The second request may be cut in its header; the others are malformed then.
CutsOfThree == {3}
LastTwoRequests == SubSeq(ThreeRequests, 2, 3)

\* The same requests around the point where sequence numbers (mod 16) wrap.
WrappedRequests ==
  [k \in DOMAIN ThreeRequests |->
     [first |-> ThreeRequests[k].first + 11, header |-> ThreeRequests[k].header + 11,
      last |-> ThreeRequests[k].last + 11]]
WrappedCuts == {p + 11 : p \in CutsOfThree}
=============================================================================
