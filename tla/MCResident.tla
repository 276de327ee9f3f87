----------------------------- MODULE MCResident -----------------------------
(* Small instances of Resident for TLC.                                    *)
EXTENDS Resident

CONSTANTS a, b

MCNotes == {"plan"}
MCValues == {1}
MCCalls == {a, b}

Call(c) == [kind |-> "call", of |-> c]
Result(c) == [kind |-> "result", of |-> c]
Said == Entry("assistant")

\* A note taken by the run, and rounds of one call and of two.
MCBatches ==
    {<<[kind |-> "set", key |-> "plan", value |-> 1]>>,
     <<Call(a), Result(a)>>, <<Call(a), Call(b), Result(b), Result(a)>>}
MCReply == {<<Said>>}
=============================================================================
