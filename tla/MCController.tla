---------------------------- MODULE MCController ----------------------------
(* Small instances of Controller for TLC.                                  *)
EXTENDS Controller, TLC

CONSTANTS c1, c2, e0, e1

MCOneChat == {c1}
MCTwoChats == {c1, c2}
MCOneTask == {e0}
MCTasks == {e0, e1}

Request(k, m) == [kind |-> k, mic |-> m]
MCText == {Request("text", FALSE)}
MCTextMic == {Request("text", FALSE), Request("text", TRUE)}
MCAll == MCTextMic \cup {Request("speech", FALSE), Request("strict", FALSE)}

\* Callers' chat ids are interchangeable.
MCSymmetry == Permutations(MCTwoChats)
=============================================================================
