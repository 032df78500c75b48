--------------------------- MODULE MCLinePipeline ---------------------------
(* Instances of LinePipeline, and with it of LogTail.                      *)
EXTENDS LinePipeline
=============================================================================
