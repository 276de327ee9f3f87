--------------------------- MODULE MCNativeWorker ---------------------------
(* Small instances of NativeWorker for TLC: every worker, two callers.      *)
EXTENDS NativeWorker

CONSTANTS p1, p2

MCKinds == {"speech", "decision", "diarizer"}
MCDiarizer == {"diarizer"}
MCCallers == {p1, p2}
MCOneCaller == {p1}
=============================================================================
