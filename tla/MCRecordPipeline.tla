--------------------------- MODULE MCRecordPipeline ---------------------------
(***************************************************************************)
(* Instances of RecordPipeline for TLC.                                    *)
(***************************************************************************)
EXTENDS RecordPipeline

CONSTANTS c1, c2

TwoConns == {c1, c2}
=============================================================================
