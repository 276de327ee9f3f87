----------------------------- MODULE MCExecutor -----------------------------
(* Small instances of Executor for TLC.                                    *)
EXTENDS Executor

CONSTANTS t1

MCSubmitters == {t1}
=============================================================================
