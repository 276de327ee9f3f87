------------------------------ MODULE Executor ------------------------------
(***************************************************************************)
(* The streaming tool executor of src/src/executor.rs.                     *)
(*                                                                         *)
(* Caller threads submit operations over an unbounded channel; one loop    *)
(* task receives them, spawns Safe and GpuBound operations as tasks that   *)
(* take semaphore permits, and runs Exclusive operations inline once       *)
(* everything in flight has reported.  Results are buffered by sequence    *)
(* number and flushed to the consumer in submission order.                 *)
(*                                                                         *)
(* An operation is known by its sequence number (0, 1, ...).  Its body is  *)
(* abstracted to "completes with a value" or, when OpsMayPanic, "panics"   *)
(* (with_timeout only turns a slow body into one that completes).          *)
(***************************************************************************)
EXTENDS Positions, Sequences

CONSTANTS Submitters,     \* threads that call submit
          MaxConcurrent,  \* argument of StreamingToolExecutor::new
          MaxOps,         \* bound: how many operations are ever submitted
          OpsMayPanic     \* whether an operation's body may panic

ASSUME ExecutorAssumption ==
    /\ MaxConcurrent \in Nat
    /\ MaxOps \in Nat \ {0}
    /\ OpsMayPanic \in BOOLEAN

Guards == {"Safe", "GpuBound", "Exclusive"}
Ops == 0 .. (MaxOps - 1)
NoOp == -1

\* A max_concurrent of 0 is treated as 1.
Permits == IF MaxConcurrent = 0 THEN 1 ELSE MaxConcurrent

VARIABLES
    cancelled,   \* the cooperative cancellation flag
    open,        \* submit_tx is Some: the submission side is not closed
    next_seq,    \* the submission counter
    guard,       \* guard[s]: what operation s declared ("none" if not submitted)
    submitQ,     \* envelopes sent and not yet received by the loop
    caller,      \* caller[t]: "idle", or "checked" between submit's two steps
    cancelling,  \* cancel() has set the flag and has not closed yet
    pc,          \* where the loop task is
    current,     \* the exclusive operation being drained for or run
    task,        \* task[s]: the spawned task of operation s
    outcome,     \* outcome[s]: how operation s ended
    done,        \* completions reported and not yet received by the loop
    in_flight,   \* the loop's counter of unreported tasks
    buffer,      \* buffer[s]: the slot of operation s
    cursor,      \* first slot that is not delivered
    results,     \* the result channel
    received,    \* what the consumer got from next_result, in order
    listening,   \* the executor value, and with it result_rx, is alive
    done_flag    \* what is_done reads

callerVars == <<cancelled, open, next_seq, guard, caller, cancelling>>
taskVars == <<task, outcome>>
loopVars == <<pc, current, in_flight, buffer, cursor>>
consumerVars == <<received, listening>>
vars == <<callerVars, submitQ, taskVars, done, loopVars, results, consumerVars,
          done_flag>>

TaskStates == {"absent", "spawned", "permit", "armed", "running", "sent", "gone"}
Outcomes == {"none", "value", "cancelled", "panicked"}

TypeOK ==
    /\ cancelled \in BOOLEAN /\ open \in BOOLEAN /\ cancelling \in BOOLEAN
    /\ next_seq \in 0 .. MaxOps
    /\ guard \in [Ops -> Guards \cup {"none"}]
    /\ submitQ \in Seq(Ops)
    /\ caller \in [Submitters -> {"idle", "checked"}]
    /\ pc \in {"select", "drain", "exclusive", "final", "ended", "crashed"}
    /\ current \in Ops \cup {NoOp}
    /\ task \in [Ops -> TaskStates]
    /\ outcome \in [Ops -> Outcomes]
    /\ done \in SUBSET Ops
    /\ in_flight \in 0 .. MaxOps
    /\ buffer \in [Ops -> {"absent", "Pending", "Skipped", "Ready"}]
    /\ cursor \in 0 .. MaxOps
    /\ results \in Seq(Ops) /\ received \in Seq(Ops)
    /\ listening \in BOOLEAN
    /\ done_flag \in BOOLEAN

Init ==
    /\ cancelled = FALSE /\ open = TRUE /\ cancelling = FALSE
    /\ next_seq = 0
    /\ guard = [s \in Ops |-> "none"]
    /\ submitQ = <<>>
    /\ caller = [t \in Submitters |-> "idle"]
    /\ pc = "select" /\ current = NoOp
    /\ task = [s \in Ops |-> "absent"]
    /\ outcome = [s \in Ops |-> "none"]
    /\ done = {} /\ in_flight = 0
    /\ buffer = [s \in Ops |-> "absent"]
    /\ cursor = 0
    /\ results = <<>> /\ received = <<>>
    /\ listening = TRUE /\ done_flag = FALSE

-----------------------------------------------------------------------------
(* The callers.                                                            *)

\* submit, first step: the flag is read before the lock is taken.
SubmitCheck(t) ==
    /\ listening /\ caller[t] = "idle" /\ next_seq < MaxOps
    /\ ~cancelled
    /\ caller' = [caller EXCEPT ![t] = "checked"]
    /\ UNCHANGED <<cancelled, open, next_seq, guard, cancelling, submitQ,
                   taskVars, done, loopVars, results, consumerVars, done_flag>>

\* The receiving end of the submit channel lives until the loop returns.
SubmitRxAlive == pc \notin {"ended", "crashed"}

\* submit, second step: under the lock, number the operation and send it.  A
\* closed sender or a dead receiver makes submit return false.
SubmitSend(t) ==
    /\ caller[t] = "checked"
    /\ caller' = [caller EXCEPT ![t] = "idle"]
    /\ \/ /\ open /\ next_seq < MaxOps
          /\ next_seq' = next_seq + 1
          /\ IF SubmitRxAlive
             THEN \E g \in Guards :
                     /\ guard' = [guard EXCEPT ![next_seq] = g]
                     /\ submitQ' = Append(submitQ, next_seq)
             ELSE UNCHANGED <<guard, submitQ>>
       \/ /\ ~open \/ next_seq = MaxOps
          /\ UNCHANGED <<next_seq, guard, submitQ>>
    /\ UNCHANGED <<cancelled, open, cancelling, taskVars, done, loopVars,
                   results, consumerVars, done_flag>>

Close ==
    /\ listening /\ open
    /\ open' = FALSE
    /\ UNCHANGED <<cancelled, next_seq, guard, caller, cancelling, submitQ,
                   taskVars, done, loopVars, results, consumerVars, done_flag>>

\* cancel, first step: raise the flag.
CancelFlag ==
    /\ listening /\ ~cancelled
    /\ cancelled' = TRUE /\ cancelling' = TRUE
    /\ UNCHANGED <<open, next_seq, guard, caller, submitQ, taskVars, done,
                   loopVars, results, consumerVars, done_flag>>

\* cancel, second step: close.
CancelClose ==
    /\ cancelling
    /\ cancelling' = FALSE /\ open' = FALSE
    /\ UNCHANGED <<cancelled, next_seq, guard, caller, submitQ, taskVars, done,
                   loopVars, results, consumerVars, done_flag>>

\* next_result hands over the oldest result; None is left to the caller.
NextResult ==
    /\ listening /\ results # <<>>
    /\ received' = Append(received, Head(results))
    /\ results' = Tail(results)
    /\ UNCHANGED <<callerVars, submitQ, taskVars, done, loopVars, listening,
                   done_flag>>

\* The last owner drops the executor: both its channel ends go with it.
DropExecutor ==
    /\ listening /\ ~cancelling
    /\ \A t \in Submitters : caller[t] = "idle"
    /\ listening' = FALSE /\ open' = FALSE /\ results' = <<>>
    /\ UNCHANGED <<cancelled, next_seq, guard, caller, cancelling, submitQ,
                   taskVars, done, loopVars, received, done_flag>>

-----------------------------------------------------------------------------
(* The tasks of spawn_concurrent.                                          *)

Holders == {s \in Ops : task[s] \in {"permit", "armed", "running", "sent"}}
GpuHolders ==
    {s \in Ops : guard[s] = "GpuBound" /\ task[s] \in {"armed", "running", "sent"}}
Running == {s \in Ops : task[s] = "running"}

\* Variant: one permit too many.
AcquirePermitOver(s) ==
    /\ task[s] = "spawned"
    /\ Cardinality(Holders) <= Permits
    /\ task' = [task EXCEPT ![s] = IF guard[s] = "GpuBound" THEN "permit" ELSE "armed"]
    /\ UNCHANGED <<callerVars, submitQ, outcome, done, loopVars, results,
                   consumerVars, done_flag>>

AcquirePermit(s) ==
    /\ task[s] = "spawned"
    /\ Cardinality(Holders) < Permits
    /\ task' = [task EXCEPT ![s] = IF guard[s] = "GpuBound" THEN "permit" ELSE "armed"]
    /\ UNCHANGED <<callerVars, submitQ, outcome, done, loopVars, results,
                   consumerVars, done_flag>>

\* A GPU operation waits here with its ordinary permit already in hand.
AcquireGpuPermit(s) ==
    /\ task[s] = "permit"
    /\ GpuHolders = {}
    /\ task' = [task EXCEPT ![s] = "armed"]
    /\ UNCHANGED <<callerVars, submitQ, outcome, done, loopVars, results,
                   consumerVars, done_flag>>

\* The flag is read once, when the permits are held.
TaskStart(s) ==
    /\ task[s] = "armed" /\ ~cancelled
    /\ task' = [task EXCEPT ![s] = "running"]
    /\ UNCHANGED <<callerVars, submitQ, outcome, done, loopVars, results,
                   consumerVars, done_flag>>

\* done_tx.send((seq, result)); the order in which the loop takes reports off
\* the channel is left open, since each report only fills its own slot.
Report(s, how) ==
    /\ task' = [task EXCEPT ![s] = "sent"]
    /\ outcome' = [outcome EXCEPT ![s] = how]
    /\ done' = done \cup {s}
    /\ UNCHANGED <<callerVars, submitQ, loopVars, results, consumerVars, done_flag>>

TaskSkip(s) == task[s] = "armed" /\ cancelled /\ Report(s, "cancelled")

TaskFinish(s) == task[s] = "running" /\ Report(s, "value")

\* The permits are dropped only after the report was sent.
TaskRelease(s) ==
    /\ task[s] = "sent"
    /\ task' = [task EXCEPT ![s] = "gone"]
    /\ UNCHANGED <<callerVars, submitQ, outcome, done, loopVars, results,
                   consumerVars, done_flag>>

\* A panicking body unwinds the task: permits and its done_tx clone are
\* dropped and nothing is reported.
TaskPanic(s) ==
    /\ OpsMayPanic /\ task[s] = "running"
    /\ task' = [task EXCEPT ![s] = "gone"]
    /\ outcome' = [outcome EXCEPT ![s] = "panicked"]
    /\ UNCHANGED <<callerVars, submitQ, done, loopVars, results, consumerVars,
                   done_flag>>

-----------------------------------------------------------------------------
(* The ordered buffer.                                                     *)

\* Variant: a skipped slot stops the walk.
StopAtSkipped(buf) ==
    CHOOSE n \in cursor .. MaxOps :
        /\ n = MaxOps \/ buf[n] # "Ready"
        /\ \A i \in cursor .. (n - 1) : buf[i] = "Ready"

\* flush_buffer walks from the cursor over every resolved slot.
Stop(buf) ==
    CHOOSE n \in cursor .. MaxOps :
        /\ n = MaxOps \/ buf[n] \in {"absent", "Pending"}
        /\ \A i \in cursor .. (n - 1) : buf[i] \in {"Skipped", "Ready"}

\* With the receiver gone the walk ends at the first result it cannot send.
StopDropped(buf) ==
    CHOOSE n \in cursor .. Stop(buf) :
        /\ n = Stop(buf) \/ buf[n] = "Ready"
        /\ \A i \in cursor .. (n - 1) : buf[i] = "Skipped"

FlushFails(buf) == ~listening /\ StopDropped(buf) < Stop(buf)

\* The results a full walk sends, in order.
Flushed(buf) == Ascending({s \in cursor .. (Stop(buf) - 1) : buf[s] = "Ready"})

flush_buffer(buf) ==
    IF FlushFails(buf)
    THEN /\ cursor' = StopDropped(buf)
         /\ buffer' = [i \in Ops |-> IF i \in cursor .. StopDropped(buf)
                                     THEN "Pending" ELSE buf[i]]
         /\ UNCHANGED results
    ELSE /\ cursor' = Stop(buf)
         /\ buffer' = [i \in Ops |-> IF i \in cursor .. (Stop(buf) - 1)
                                     THEN "Pending" ELSE buf[i]]
         /\ results' = IF listening THEN results \o Flushed(buf) ELSE results

\* A report turned into the slot it fills.
SlotOf(s) == IF outcome[s] = "value" THEN "Ready" ELSE "Skipped"

-----------------------------------------------------------------------------
(* run_executor_loop.                                                      *)

\* Variant: the report is not counted.
TakeReportUncounted(s) ==
    /\ s \in done
    /\ done' = done \ {s}
    /\ flush_buffer([buffer EXCEPT ![s] = SlotOf(s)])
    /\ UNCHANGED <<callerVars, submitQ, taskVars, current, in_flight,
                   consumerVars, done_flag>>

\* What every place that receives a completion does before flushing.
TakeReport(s) ==
    /\ s \in done
    /\ done' = done \ {s}
    /\ in_flight' = in_flight - 1
    /\ flush_buffer([buffer EXCEPT ![s] = SlotOf(s)])
    /\ UNCHANGED <<callerVars, submitQ, taskVars, current, consumerVars, done_flag>>

\* The completion branch of the select.  `biased` polls it first, but a report
\* may land between the two polls, so a submission can still be taken first.
LoopReport(s) ==
    /\ pc = "select"
    /\ TakeReport(s)
    /\ pc' = IF FlushFails([buffer EXCEPT ![s] = SlotOf(s)]) THEN "ended" ELSE "select"

\* Variant: only a cancellation ends the loop.
LoopBreakOnCancel ==
    /\ pc = "select"
    /\ submitQ # <<>> /\ cancelled /\ submitQ' = Tail(submitQ)
    /\ pc' = "final"
    /\ UNCHANGED <<callerVars, taskVars, done, current, in_flight, buffer,
                   cursor, results, consumerVars, done_flag>>

\* The submission branch: the channel is closed and empty, or the run was
\* called off (the envelope in hand is dropped with the rest of the queue).
LoopBreak ==
    /\ pc = "select"
    /\ \/ submitQ = <<>> /\ ~open /\ UNCHANGED submitQ
       \/ submitQ # <<>> /\ cancelled /\ submitQ' = Tail(submitQ)
    /\ pc' = "final"
    /\ UNCHANGED <<callerVars, taskVars, done, current, in_flight, buffer,
                   cursor, results, consumerVars, done_flag>>

LoopSpawn ==
    /\ pc = "select" /\ submitQ # <<>> /\ ~cancelled
    /\ guard[Head(submitQ)] \in {"Safe", "GpuBound"}
    /\ submitQ' = Tail(submitQ)
    /\ buffer' = [buffer EXCEPT ![Head(submitQ)] = "Pending"]
    /\ in_flight' = in_flight + 1
    /\ task' = [task EXCEPT ![Head(submitQ)] = "spawned"]
    /\ UNCHANGED <<callerVars, outcome, done, pc, current, cursor, results,
                   consumerVars, done_flag>>

LoopExclusive ==
    /\ pc = "select" /\ submitQ # <<>> /\ ~cancelled
    /\ guard[Head(submitQ)] = "Exclusive"
    /\ submitQ' = Tail(submitQ)
    /\ buffer' = [buffer EXCEPT ![Head(submitQ)] = "Pending"]
    /\ current' = Head(submitQ)
    /\ pc' = "drain"
    /\ UNCHANGED <<callerVars, taskVars, done, in_flight, cursor, results,
                   consumerVars, done_flag>>

\* The loop's own done_tx is alive here, so recv never returns None and the
\* flush's verdict is ignored.
DrainReport(s) ==
    /\ pc = "drain" /\ in_flight > 0
    /\ TakeReport(s)
    /\ UNCHANGED pc

\* Variants: without waiting for the drain, or without the recheck.
ExclusiveStartEarly ==
    /\ pc = "drain" /\ ~cancelled
    /\ pc' = "exclusive"
    /\ UNCHANGED <<callerVars, submitQ, taskVars, done, current, in_flight,
                   buffer, cursor, results, consumerVars, done_flag>>

ExclusiveStartAnyway ==
    /\ pc = "drain" /\ in_flight = 0
    /\ pc' = "exclusive"
    /\ UNCHANGED <<callerVars, submitQ, taskVars, done, current, in_flight,
                   buffer, cursor, results, consumerVars, done_flag>>

\* The drain is over and the flag, rechecked, is down.
ExclusiveStart ==
    /\ pc = "drain" /\ in_flight = 0 /\ ~cancelled
    /\ pc' = "exclusive"
    /\ UNCHANGED <<callerVars, submitQ, taskVars, done, current, in_flight,
                   buffer, cursor, results, consumerVars, done_flag>>

\* The recheck finds the run called off: the operation is skipped.
ExclusiveSkip ==
    /\ pc = "drain" /\ in_flight = 0 /\ cancelled
    /\ outcome' = [outcome EXCEPT ![current] = "cancelled"]
    /\ flush_buffer([buffer EXCEPT ![current] = "Skipped"])
    /\ pc' = IF FlushFails([buffer EXCEPT ![current] = "Skipped"])
             THEN "ended" ELSE "final"
    /\ current' = NoOp
    /\ UNCHANGED <<callerVars, submitQ, task, done, in_flight, consumerVars,
                   done_flag>>

ExclusiveFinish ==
    /\ pc = "exclusive"
    /\ outcome' = [outcome EXCEPT ![current] = "value"]
    /\ flush_buffer([buffer EXCEPT ![current] = "Ready"])
    /\ pc' = IF FlushFails([buffer EXCEPT ![current] = "Ready"])
             THEN "ended" ELSE "select"
    /\ current' = NoOp
    /\ UNCHANGED <<callerVars, submitQ, task, done, in_flight, consumerVars,
                   done_flag>>

\* A panic in an exclusive body unwinds the loop task itself: spawn_logged
\* swallows it and the done flag is never stored.
ExclusivePanic ==
    /\ OpsMayPanic /\ pc = "exclusive"
    /\ outcome' = [outcome EXCEPT ![current] = "panicked"]
    /\ pc' = "crashed" /\ current' = NoOp
    /\ UNCHANGED <<callerVars, submitQ, task, done, in_flight, buffer, cursor,
                   results, consumerVars, done_flag>>

FinalReport(s) ==
    /\ pc = "final" /\ in_flight > 0
    /\ TakeReport(s)
    /\ UNCHANGED pc

\* Every done_tx clone is gone and the channel is empty: recv returns None.
SendersGone ==
    done = {} /\ \A s \in Ops : task[s] \in {"absent", "gone"}

\* The last flush; returning drops result_tx and submit_rx.
LoopReturn ==
    /\ pc = "final" /\ (in_flight = 0 \/ SendersGone)
    /\ flush_buffer(buffer)
    /\ pc' = "ended"
    /\ UNCHANGED <<callerVars, submitQ, taskVars, done, current, in_flight,
                   consumerVars, done_flag>>

StoreDone ==
    /\ pc = "ended" /\ ~done_flag
    /\ done_flag' = TRUE
    /\ UNCHANGED <<callerVars, submitQ, taskVars, done, loopVars, results,
                   consumerVars>>

-----------------------------------------------------------------------------
Submit == \E t \in Submitters : SubmitCheck(t) \/ SubmitSend(t)

TaskStep(s) ==
    \/ AcquirePermit(s) \/ AcquireGpuPermit(s) \/ TaskStart(s) \/ TaskSkip(s)
    \/ TaskFinish(s) \/ TaskRelease(s) \/ TaskPanic(s)

LoopStep ==
    \/ \E s \in Ops : LoopReport(s) \/ DrainReport(s) \/ FinalReport(s)
    \/ LoopBreak \/ LoopSpawn \/ LoopExclusive
    \/ ExclusiveStart \/ ExclusiveSkip \/ ExclusiveFinish \/ ExclusivePanic
    \/ LoopReturn \/ StoreDone

Next ==
    \/ Submit \/ Close \/ CancelFlag \/ CancelClose \/ NextResult \/ DropExecutor
    \/ \E s \in Ops : TaskStep(s)
    \/ LoopStep

Spec == Init /\ [][Next]_vars

\* The tokio runtime polls every woken task, semaphores are FIFO, an operation
\* body ends, a thread inside submit or cancel leaves it, and a consumer that
\* still holds the executor keeps calling next_result.
Fairness ==
    /\ \A s \in Ops : WF_vars(TaskStep(s))
    /\ WF_vars(LoopStep)
    /\ \A t \in Submitters : WF_vars(SubmitSend(t))
    /\ WF_vars(CancelClose)
    /\ WF_vars(NextResult)

FairSpec == Spec /\ Fairness

-----------------------------------------------------------------------------
(* What must hold.                                                         *)

\* Everything handed to the consumer's side, in order.
Delivered == received \o results

\* Operations spawned whose completion the loop has not accounted for: still
\* on their way, reported and unread, or lost to a panic.
Outstanding ==
    {s \in Ops : \/ task[s] \in {"spawned", "permit", "armed", "running"}
                 \/ s \in done
                 \/ task[s] = "gone" /\ outcome[s] = "panicked"}

\* No other operation runs while an exclusive one executes on the loop task
\* (the promise of ConcurrencyGuard::Exclusive).
ExclusiveAlone == pc = "exclusive" => Running = {}

\* At most one GPU-bound body runs, and at most max_concurrent bodies in all:
\* permits are taken and dropped by tasks in any order, before and after the
\* report the loop counts.
PermitsRespected ==
    /\ Cardinality({s \in Running : guard[s] = "GpuBound"}) <= 1
    /\ Cardinality(Running) <= Permits

\* in_flight, which only the loop touches, is the number of tasks it still has
\* to hear from; a miscount ends the drain early or never.
InFlightExact == in_flight = Cardinality(Outstanding)

\* Once the run is called off nothing new starts, exclusive operations that
\* were waiting for the drain included.
CancelStopsStarts ==
    [][cancelled => /\ Running' \subseteq Running
                    /\ pc' = "exclusive" => pc = "exclusive"]_vars

\* A body panicked: spawn_concurrent never reports it.
Panicked == \E s \in Ops : outcome[s] = "panicked"

\* After close, cancel or drop the loop comes to its end and is_done says so,
\* unless a body panics.
CloseDrains == ~open ~> done_flag \/ Panicked

\* A value that was produced reaches a consumer that keeps reading, whatever
\* runs, waits or is skipped before it, unless the consumer leaves or a body
\* panics.
ValuesArrive ==
    \A s \in Ops :
        (outcome[s] = "value") ~>
            (~listening \/ Panicked \/ \E i \in 1 .. Len(received) : received[i] = s)

\* The two guards of ConcurrencyGuard: who runs alone, and how many at once.
GuardsRespected == ExclusiveAlone /\ PermitsRespected

\* Even if bodies may panic, a closed executor ends its result stream: doc of
\* close, "The executor will drain remaining work and then `next_result` will
\* return `None`".
StreamEnds == ~open ~> pc \in {"ended", "crashed"}

-----------------------------------------------------------------------------
(* The executor implements ToolStream.                                     *)

AbsStatus(s) ==
    IF outcome[s] = "value" THEN "value"
    ELSE IF outcome[s] = "cancelled" THEN "void"
    ELSE IF outcome[s] = "panicked" THEN "lost"
    ELSE IF task[s] = "running" \/ (pc = "exclusive" /\ current = s) THEN "running"
    ELSE "new"

Abs == INSTANCE ToolStream
           WITH status <- [s \in Ops |-> AbsStatus(s)],
                passed <- cursor,
                stream <- Delivered,
                abandoned <- ~listening

\* Channels, permits, the drain and the buffer together deliver exactly the
\* promised stream under the promised concurrency.
ImplementsToolStream == Abs!Spec
=============================================================================
