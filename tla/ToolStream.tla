----------------------------- MODULE ToolStream -----------------------------
(***************************************************************************)
(* What the streaming tool executor promises its callers (the guarantees   *)
(* of the module comment of src/src/executor.rs and of ConcurrencyGuard),  *)
(* with no channel, task, permit or buffer in sight.                       *)
(*                                                                         *)
(* Operations are numbered as they are accepted.  One starts only when its *)
(* guard lets it run beside what is running, nothing starts once the run   *)
(* is called off, and the consumer's stream is the results of the          *)
(* operations that produced one, in submission order: a position is passed *)
(* over only when its operation is settled.                                *)
(***************************************************************************)
EXTENDS Positions, Sequences

CONSTANTS MaxOps, Permits

Ops == 0 .. (MaxOps - 1)

VARIABLES
    guard,     \* guard[s]: what the accepted operation s declared, or "none"
    status,    \* status[s]: "new", "running", "value", "void" or "lost"
    passed,    \* the number of leading positions the stream has passed
    stream,    \* the results handed to the consumer's side, in order
    cancelled, \* the run was called off
    abandoned  \* the consumer is gone

vars == <<guard, status, passed, stream, cancelled, abandoned>>

Init ==
    /\ guard = [s \in Ops |-> "none"]
    /\ status = [s \in Ops |-> "new"]
    /\ passed = 0 /\ stream = <<>>
    /\ cancelled = FALSE /\ abandoned = FALSE

Running == {s \in Ops : status[s] = "running"}

\* Whether operation s may run beside operation r.
Compatible(s, r) ==
    /\ "Exclusive" \notin {guard[s], guard[r]}
    /\ ~ (guard[s] = "GpuBound" /\ guard[r] = "GpuBound")

Accept(s, g) ==
    /\ guard[s] = "none"
    /\ guard' = [guard EXCEPT ![s] = g]
    /\ UNCHANGED <<status, passed, stream, cancelled, abandoned>>

Start(s) ==
    /\ ~cancelled
    /\ guard[s] # "none" /\ status[s] = "new"
    /\ \A r \in Running : Compatible(s, r)
    /\ Cardinality(Running) < Permits
    /\ status' = [status EXCEPT ![s] = "running"]
    /\ UNCHANGED <<guard, passed, stream, cancelled, abandoned>>

\* The stream passes positions up to k, each settled by then.
Pass(k) ==
    /\ \A s \in passed .. (k - 1) : status'[s] \in {"value", "void"}
    /\ passed' = k
    /\ stream' = IF abandoned THEN stream
                 ELSE stream \o Ascending({s \in passed .. (k - 1) : status'[s] = "value"})

\* An operation that ran yields a value or is lost to a panic; one that never
\* started is void only when the run was called off.
Settle(s) ==
    \/ /\ status[s] = "running"
       /\ \E st \in {"value", "lost"} : status' = [status EXCEPT ![s] = st]
    \/ /\ status[s] = "new" /\ guard[s] # "none" /\ cancelled
       /\ status' = [status EXCEPT ![s] = "void"]

Progress ==
    /\ \E s \in Ops : Settle(s)
    /\ \E k \in passed .. MaxOps : Pass(k)
    /\ UNCHANGED <<guard, cancelled, abandoned>>

Advance ==
    /\ \E k \in passed .. MaxOps : Pass(k)
    /\ UNCHANGED <<status, guard, cancelled, abandoned>>

Cancel ==
    /\ cancelled' = TRUE
    /\ UNCHANGED <<guard, status, passed, stream, abandoned>>

\* The consumer leaves; what it had not taken yet is lost.
Abandon ==
    /\ abandoned' = TRUE
    /\ \E n \in 0 .. Len(stream) : stream' = SubSeq(stream, 1, n)
    /\ UNCHANGED <<guard, status, passed, cancelled>>

Next ==
    \/ \E s \in Ops : Start(s) \/ \E g \in {"Safe", "GpuBound", "Exclusive"} : Accept(s, g)
    \/ Progress \/ Advance \/ Cancel \/ Abandon

Spec == Init /\ [][Next]_vars
=============================================================================
