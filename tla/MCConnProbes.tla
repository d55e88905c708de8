---------------------------- MODULE MCConnProbes ----------------------------
(***************************************************************************)
(* Instances of ConnProbes for TLC.                                        *)
(***************************************************************************)
EXTENDS ConnProbes, TLC

CONSTANTS t1, t2, f1, f2

TwoThreads == {t1, t2}
TwoFds == {f1, f2}

A1 == [local |-> 1, remote |-> 2, port |-> 80, fam |-> "v4"]
A2 == [local |-> 2, remote |-> 1, port |-> 20480, fam |-> "dual"]
TwoAddrs == {A1, A2}
BothEnds == {<<A1, A2>>, <<A2, A1>>}

\* The port of A1, which is that of A2 in the other byte order; and servers, with
\* the port of A2.
TwoFilters == {[side |-> "all", ports |-> {80}], [side |-> "server", ports |-> {20480}]}

Symmetry == Permutations(TwoThreads) \cup Permutations(TwoFds)
=============================================================================
