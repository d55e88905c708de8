---------------------------- MODULE MCConnTrack ----------------------------
(***************************************************************************)
(* Instances of ConnTrack for TLC.                                         *)
(***************************************************************************)
EXTENDS ConnTrack, TLC

CONSTANTS f1, f2, a1, a2, a3

OneFd == {f1}
TwoFds == {f1, f2}
TwoAddrs == {a1, a2}
ThreeAddrs == {a1, a2, a3}

Symmetry == Permutations(TwoFds) \cup Permutations(ThreeAddrs)
=============================================================================
