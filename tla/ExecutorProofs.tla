--------------------------- MODULE ExecutorProofs ---------------------------
(***************************************************************************)
(* Proofs about Executor: the loop's counter is exact, so that a drained   *)
(* executor runs an exclusive operation alone; and the semaphores bound    *)
(* what runs at once; and the executor is a ToolStream.                    *)
(***************************************************************************)
EXTENDS Executor, FiniteSetTheorems, SequenceTheorems, WellFoundedInduction, TLAPS

\* The types the argument needs; buffer, cursor and results play no part.
ControlTypes ==
    /\ next_seq \in 0 .. MaxOps
    /\ guard \in [Ops -> Guards \cup {"none"}]
    /\ submitQ \in Seq(Ops)
    /\ task \in [Ops -> TaskStates]
    /\ outcome \in [Ops -> Outcomes]
    /\ done \in SUBSET Ops
    /\ in_flight \in Nat
    /\ pc \in {"select", "drain", "exclusive", "final", "ended", "crashed"}
    /\ current \in Ops \cup {NoOp}

\* Envelopes are numbered in the order they were sent and nothing has been
\* spawned for them; nor for numbers not given yet.
QueueFresh ==
    /\ \A i \in 1 .. Len(submitQ) : submitQ[i] < next_seq /\ task[submitQ[i]] = "absent"
    /\ \A i, j \in 1 .. Len(submitQ) : i < j => submitQ[i] < submitQ[j]
    /\ \A s \in Ops : s >= next_seq => task[s] = "absent"

\* An operation ends before its report is sent, and a report that was sent is
\* of a task past its body.
ReportsFollow ==
    /\ \A s \in done : task[s] \in {"sent", "gone"} /\ outcome[s] # "panicked"
    /\ \A s \in Ops : task[s] = "sent" => outcome[s] # "panicked"

\* The exclusive operation in hand has no task, and runs only when drained.
ExclusiveInHand ==
    /\ pc \in {"drain", "exclusive"} =>
          /\ current \in Ops /\ task[current] = "absent" /\ current < next_seq
          /\ \A i \in 1 .. Len(submitQ) : current < submitQ[i]
    /\ pc = "exclusive" => in_flight = 0

\* Permits in use.
PermitsInUse ==
    /\ Cardinality(Holders) <= Permits
    /\ \A r, s \in GpuHolders : r = s

IInv == ControlTypes /\ QueueFresh /\ ReportsFollow /\ ExclusiveInHand
        /\ InFlightExact /\ PermitsInUse

-----------------------------------------------------------------------------
(* Finite sets of operations.                                              *)

LEMMA OpsFinite == ASSUME NEW S \in SUBSET Ops
                   PROVE  IsFiniteSet(S) /\ Cardinality(S) \in Nat
<1>1. IsFiniteSet(Ops)
  BY ExecutorAssumption, FS_Interval DEF ExecutorAssumption, Ops
<1> QED BY <1>1, FS_Subset, FS_CardinalityType

LEMMA OneMore == ASSUME NEW S \in SUBSET Ops, NEW s \in Ops, s \notin S
                 PROVE  Cardinality(S \cup {s}) = Cardinality(S) + 1
  BY OpsFinite, FS_AddElement

LEMMA OneLess == ASSUME NEW S \in SUBSET Ops, NEW s \in S
                 PROVE  /\ Cardinality(S \ {s}) = Cardinality(S) - 1
                        /\ Cardinality(S) > 0
<1>1. Cardinality(S \ {s}) = Cardinality(S) - 1 BY OpsFinite, FS_RemoveElement
<1>2. Cardinality(S \ {s}) \in Nat /\ Cardinality(S) \in Nat BY OpsFinite
<1> QED BY <1>1, <1>2

LEMMA NotMore == ASSUME NEW S \in SUBSET Ops, NEW T \in SUBSET S
                 PROVE  Cardinality(T) <= Cardinality(S)
  BY OpsFinite, FS_Subset

LEMMA PermitsNat == Permits \in Nat /\ Permits >= 1
  BY ExecutorAssumption DEF ExecutorAssumption, Permits

-----------------------------------------------------------------------------
LEMMA ExecutorInit == ASSUME Init PROVE IInv
<1>1. ControlTypes
  BY ExecutorAssumption
  DEF ExecutorAssumption, Init, ControlTypes, Ops, TaskStates, Outcomes, NoOp
<1>2. QueueFresh /\ ReportsFollow /\ ExclusiveInHand
  BY DEF Init, QueueFresh, ReportsFollow, ExclusiveInHand
<1>3. Outstanding = {} /\ Holders = {} /\ GpuHolders = {}
  BY DEF Init, Outstanding, Holders, GpuHolders
<1>4. Cardinality({}) = 0 BY FS_EmptySet
<1>5. InFlightExact BY <1>3, <1>4 DEF Init, InFlightExact
<1>6. PermitsInUse BY <1>3, <1>4, PermitsNat DEF PermitsInUse
<1> QED BY <1>1, <1>2, <1>5, <1>6 DEF IInv

-----------------------------------------------------------------------------
(* The steps that leave the argument's variables alone.                    *)

LEMMA QuietStep ==
    ASSUME IInv,
           UNCHANGED <<next_seq, guard, submitQ, task, outcome, done, in_flight, pc, current>>
    PROVE  IInv'
  BY DEF IInv, ControlTypes, QueueFresh, ReportsFollow, ExclusiveInHand, InFlightExact,
     PermitsInUse, Outstanding, Holders, GpuHolders

LEMMA CallersQuiet ==
    ASSUME IInv,
           \/ \E t \in Submitters : SubmitCheck(t)
           \/ Close \/ CancelFlag \/ CancelClose \/ NextResult \/ DropExecutor
           \/ StoreDone
    PROVE  IInv'
<1>1. UNCHANGED <<next_seq, guard, submitQ, task, outcome, done, in_flight, pc, current>>
  BY DEF SubmitCheck, Close, CancelFlag, CancelClose, NextResult, DropExecutor, StoreDone,
     callerVars, taskVars, loopVars
<1> QED BY <1>1, QuietStep

-----------------------------------------------------------------------------
(* submit.                                                                 *)

LEMMA SubmitStep ==
    ASSUME IInv, NEW t \in Submitters, SubmitSend(t)
    PROVE  IInv'
<1> USE DEF IInv
<1>0. /\ UNCHANGED <<task, outcome, done, in_flight, pc, current>>
      /\ MaxOps \in Nat
  BY ExecutorAssumption DEF SubmitSend, taskVars, loopVars, ExecutorAssumption
<1>1. CASE UNCHANGED <<next_seq, guard, submitQ>> BY <1>0, <1>1, QuietStep
<1>2. CASE /\ next_seq < MaxOps /\ next_seq' = next_seq + 1
           /\ UNCHANGED <<guard, submitQ>>
  BY <1>0, <1>2 DEF ControlTypes, QueueFresh, ReportsFollow, ExclusiveInHand, InFlightExact,
     PermitsInUse, Outstanding, Holders, GpuHolders, Ops
<1>3. ASSUME NEW g \in Guards, next_seq < MaxOps, next_seq' = next_seq + 1,
             guard' = [guard EXCEPT ![next_seq] = g],
             submitQ' = Append(submitQ, next_seq)
      PROVE  IInv'
  <2>1. /\ next_seq \in Ops /\ task[next_seq] = "absent" /\ next_seq \in Nat
        /\ submitQ \in Seq(Ops) /\ Ops \subseteq Nat
    BY <1>0, <1>3 DEF ControlTypes, QueueFresh, Ops
  <2>2. ControlTypes' BY <1>0, <1>3, <2>1 DEF ControlTypes
  <2>3. QueueFresh'
    <3>1. /\ Len(submitQ') = Len(submitQ) + 1 /\ Len(submitQ) \in Nat
          /\ submitQ'[Len(submitQ) + 1] = next_seq
          /\ \A i \in 1 .. Len(submitQ) : submitQ'[i] = submitQ[i] /\ submitQ[i] \in Ops
      BY <1>3, <2>1
    <3>2. \A i \in 1 .. Len(submitQ') :
             submitQ'[i] < next_seq' /\ task'[submitQ'[i]] = "absent"
      <4> SUFFICES ASSUME NEW i \in 1 .. Len(submitQ')
                   PROVE  submitQ'[i] < next_seq' /\ task'[submitQ'[i]] = "absent"
        OBVIOUS
      <4>1. CASE i = Len(submitQ) + 1 BY <4>1, <1>0, <1>3, <2>1, <3>1
      <4>2. CASE i # Len(submitQ) + 1
        <5>1. i \in 1 .. Len(submitQ) BY <4>2, <3>1
        <5>2. submitQ[i] < next_seq /\ task[submitQ[i]] = "absent" /\ submitQ[i] \in Nat
          BY <5>1, <2>1, <3>1 DEF QueueFresh
        <5> QED BY <5>1, <5>2, <1>0, <1>3, <2>1, <3>1
      <4> QED BY <4>1, <4>2
    <3>3. \A i, j \in 1 .. Len(submitQ') : i < j => submitQ'[i] < submitQ'[j]
      BY <1>3, <2>1, <3>1 DEF QueueFresh
    <3>4. \A s \in Ops : s >= next_seq' => task'[s] = "absent"
      BY <1>0, <1>3, <2>1 DEF QueueFresh
    <3> QED BY <3>2, <3>3, <3>4 DEF QueueFresh
  <2>4. ExclusiveInHand' BY <1>0, <1>3, <2>1 DEF ExclusiveInHand, ControlTypes
  <2>5. Holders' = Holders /\ Outstanding' = Outstanding
    BY <1>0 DEF Holders, Outstanding
  <2>6. GpuHolders' = GpuHolders
    BY <1>0, <1>3, <2>1 DEF GpuHolders, ControlTypes
  <2> QED
    BY <1>0, <2>2, <2>3, <2>4, <2>5, <2>6 DEF ReportsFollow, InFlightExact, PermitsInUse
<1> QED BY <1>1, <1>2, <1>3 DEF SubmitSend

-----------------------------------------------------------------------------
(* The tasks.                                                              *)

\* A task moves on: what the rest of the invariant asks of the move.
LEMMA TaskMoves ==
    ASSUME IInv, NEW s \in Ops, NEW st \in TaskStates \ {"absent"}, task[s] # "absent",
           task' = [task EXCEPT ![s] = st],
           outcome' \in [Ops -> Outcomes], \A r \in Ops : r # s => outcome'[r] = outcome[r],
           UNCHANGED <<next_seq, guard, submitQ, in_flight, pc, current>>
    PROVE  /\ QueueFresh' /\ ExclusiveInHand'
           /\ done' \in SUBSET Ops => ControlTypes'
<1> USE DEF IInv
<1>1. task' \in [Ops -> TaskStates] /\ Ops \subseteq Int /\ submitQ \in Seq(Ops)
  BY DEF ControlTypes, Ops
<1>2. \A r \in Ops : task[r] = "absent" <=> task'[r] = "absent"
  BY DEF ControlTypes
<1>3. QueueFresh' BY <1>1, <1>2 DEF QueueFresh
<1>4. ExclusiveInHand' BY <1>1, <1>2 DEF ExclusiveInHand
<1> QED BY <1>1, <1>3, <1>4 DEF ControlTypes

LEMMA AcquireStep ==
    ASSUME IInv, NEW s \in Ops, AcquirePermit(s)
    PROVE  IInv'
<1> USE DEF IInv
<1> DEFINE st == IF guard[s] = "GpuBound" THEN "permit" ELSE "armed"
<1>1. /\ task[s] = "spawned" /\ task' = [task EXCEPT ![s] = st] /\ Cardinality(Holders) < Permits
      /\ UNCHANGED <<next_seq, guard, submitQ, outcome, done, in_flight, pc, current>>
  BY DEF AcquirePermit, callerVars, taskVars, loopVars
<1>2. st \in TaskStates \ {"absent"} BY DEF TaskStates
<1>3. ControlTypes' /\ QueueFresh' /\ ExclusiveInHand'
  BY <1>1, <1>2, TaskMoves DEF ControlTypes
<1>4. s \notin done BY <1>1 DEF ReportsFollow
<1>5. Outstanding' = Outstanding BY <1>1, <1>4 DEF Outstanding, ControlTypes
<1>6. ReportsFollow' BY <1>1, <1>4 DEF ReportsFollow, ControlTypes
<1>7. Holders' = Holders \cup {s} /\ s \notin Holders /\ Holders \in SUBSET Ops
  BY <1>1 DEF Holders, ControlTypes
<1>8. GpuHolders' = GpuHolders BY <1>1 DEF GpuHolders, ControlTypes
<1>9. Cardinality(Holders') <= Permits
  BY <1>1, <1>7, OneMore, OpsFinite, PermitsNat
<1> QED BY <1>1, <1>3, <1>5, <1>6, <1>8, <1>9 DEF InFlightExact, PermitsInUse, Permits

LEMMA AcquireGpuStep ==
    ASSUME IInv, NEW s \in Ops, AcquireGpuPermit(s)
    PROVE  IInv'
<1> USE DEF IInv
<1>1. /\ task[s] = "permit" /\ task' = [task EXCEPT ![s] = "armed"] /\ GpuHolders = {}
      /\ UNCHANGED <<next_seq, guard, submitQ, outcome, done, in_flight, pc, current>>
  BY DEF AcquireGpuPermit, callerVars, taskVars, loopVars
<1>3. ControlTypes' /\ QueueFresh' /\ ExclusiveInHand'
  BY <1>1, TaskMoves DEF ControlTypes, TaskStates
<1>4. s \notin done BY <1>1 DEF ReportsFollow
<1>5. Outstanding' = Outstanding /\ Holders' = Holders
  BY <1>1, <1>4 DEF Outstanding, Holders, ControlTypes
<1>6. ReportsFollow' BY <1>1, <1>4 DEF ReportsFollow, ControlTypes
<1>8. GpuHolders' \subseteq {s} BY <1>1 DEF GpuHolders, ControlTypes
<1> QED BY <1>1, <1>3, <1>5, <1>6, <1>8 DEF InFlightExact, PermitsInUse, Permits

LEMMA StartStep ==
    ASSUME IInv, NEW s \in Ops, TaskStart(s)
    PROVE  IInv'
<1> USE DEF IInv
<1>1. /\ task[s] = "armed" /\ task' = [task EXCEPT ![s] = "running"]
      /\ UNCHANGED <<next_seq, guard, submitQ, outcome, done, in_flight, pc, current>>
  BY DEF TaskStart, callerVars, taskVars, loopVars
<1>3. ControlTypes' /\ QueueFresh' /\ ExclusiveInHand'
  BY <1>1, TaskMoves DEF ControlTypes, TaskStates
<1>4. s \notin done BY <1>1 DEF ReportsFollow
<1>5. Outstanding' = Outstanding /\ Holders' = Holders /\ GpuHolders' = GpuHolders
  BY <1>1, <1>4 DEF Outstanding, Holders, GpuHolders, ControlTypes
<1>6. ReportsFollow' BY <1>1, <1>4 DEF ReportsFollow, ControlTypes
<1> QED BY <1>1, <1>3, <1>5, <1>6 DEF InFlightExact, PermitsInUse, Permits

LEMMA ReportStep ==
    ASSUME IInv, NEW s \in Ops, NEW how \in {"value", "cancelled"},
           task[s] \in {"armed", "running"}, Report(s, how)
    PROVE  IInv'
<1> USE DEF IInv
<1>1. /\ task' = [task EXCEPT ![s] = "sent"] /\ outcome' = [outcome EXCEPT ![s] = how]
      /\ done' = done \cup {s}
      /\ UNCHANGED <<next_seq, guard, submitQ, in_flight, pc, current>>
  BY DEF Report, callerVars, loopVars
<1>2. outcome' \in [Ops -> Outcomes] /\ done' \in SUBSET Ops
  BY <1>1 DEF ControlTypes, Outcomes
<1>3. ControlTypes' /\ QueueFresh' /\ ExclusiveInHand'
  BY <1>1, <1>2, TaskMoves DEF ControlTypes, TaskStates
<1>5. Outstanding' = Outstanding /\ Holders' = Holders /\ GpuHolders' = GpuHolders
  BY <1>1 DEF Outstanding, Holders, GpuHolders, ControlTypes
<1>6. ReportsFollow' BY <1>1 DEF ReportsFollow, ControlTypes
<1> QED BY <1>1, <1>3, <1>5, <1>6 DEF InFlightExact, PermitsInUse, Permits

LEMMA ReleaseStep ==
    ASSUME IInv, NEW s \in Ops, TaskRelease(s)
    PROVE  IInv'
<1> USE DEF IInv
<1>1. /\ task[s] = "sent" /\ task' = [task EXCEPT ![s] = "gone"]
      /\ UNCHANGED <<next_seq, guard, submitQ, outcome, done, in_flight, pc, current>>
  BY DEF TaskRelease, callerVars, taskVars, loopVars
<1>3. ControlTypes' /\ QueueFresh' /\ ExclusiveInHand'
  BY <1>1, TaskMoves DEF ControlTypes, TaskStates
<1>4. outcome[s] # "panicked" BY <1>1 DEF ReportsFollow
<1>5. Outstanding' = Outstanding BY <1>1, <1>4 DEF Outstanding, ControlTypes
<1>6. ReportsFollow' BY <1>1 DEF ReportsFollow, ControlTypes
<1>7. Holders' \subseteq Holders /\ GpuHolders' \subseteq GpuHolders /\ Holders \in SUBSET Ops
  BY <1>1 DEF Holders, GpuHolders, ControlTypes
<1>8. Cardinality(Holders') <= Permits BY <1>7, NotMore, OpsFinite, PermitsNat DEF PermitsInUse
<1> QED BY <1>1, <1>3, <1>5, <1>6, <1>7, <1>8 DEF InFlightExact, PermitsInUse, Permits

LEMMA PanicStep ==
    ASSUME IInv, NEW s \in Ops, TaskPanic(s)
    PROVE  IInv'
<1> USE DEF IInv
<1>1. /\ task[s] = "running" /\ task' = [task EXCEPT ![s] = "gone"]
      /\ outcome' = [outcome EXCEPT ![s] = "panicked"]
      /\ UNCHANGED <<next_seq, guard, submitQ, done, in_flight, pc, current>>
  BY DEF TaskPanic, callerVars, loopVars
<1>2. outcome' \in [Ops -> Outcomes] BY <1>1 DEF ControlTypes, Outcomes
<1>3. ControlTypes' /\ QueueFresh' /\ ExclusiveInHand'
  BY <1>1, <1>2, TaskMoves DEF ControlTypes, TaskStates
<1>4. s \notin done BY <1>1 DEF ReportsFollow
<1>5. Outstanding' = Outstanding BY <1>1, <1>4 DEF Outstanding, ControlTypes
<1>6. ReportsFollow' BY <1>1, <1>4 DEF ReportsFollow, ControlTypes
<1>7. Holders' \subseteq Holders /\ GpuHolders' \subseteq GpuHolders /\ Holders \in SUBSET Ops
  BY <1>1 DEF Holders, GpuHolders, ControlTypes
<1>8. Cardinality(Holders') <= Permits BY <1>7, NotMore, OpsFinite, PermitsNat DEF PermitsInUse
<1> QED BY <1>1, <1>3, <1>5, <1>6, <1>7, <1>8 DEF InFlightExact, PermitsInUse, Permits

-----------------------------------------------------------------------------
(* The loop.                                                               *)

\* Taking a report settles exactly one outstanding operation.
LEMMA ReportTaken ==
    ASSUME IInv, NEW s \in Ops, TakeReport(s), pc # "exclusive",
           pc' \in {"select", "drain", "final", "ended"}, pc' = "drain" => pc = "drain"
    PROVE  IInv'
<1> USE DEF IInv
<1>1. /\ s \in done /\ done' = done \ {s} /\ in_flight' = in_flight - 1
      /\ UNCHANGED <<next_seq, guard, submitQ, task, outcome, current>>
  BY DEF TakeReport, callerVars, taskVars
<1>2. Outstanding' = Outstanding \ {s} /\ s \in Outstanding /\ Outstanding \in SUBSET Ops
  BY <1>1 DEF Outstanding, ReportsFollow
<1>3. InFlightExact' /\ in_flight' \in Nat
  BY <1>1, <1>2, OneLess, OpsFinite DEF InFlightExact
<1>4. ControlTypes' BY <1>1, <1>3 DEF ControlTypes
<1>5. QueueFresh' /\ ReportsFollow' BY <1>1 DEF QueueFresh, ReportsFollow
<1>6. ExclusiveInHand' BY <1>1 DEF ExclusiveInHand
<1>7. PermitsInUse' BY <1>1 DEF PermitsInUse, Holders, GpuHolders, Permits
<1> QED BY <1>3, <1>4, <1>5, <1>6, <1>7

LEMMA TakeStep ==
    ASSUME IInv, NEW s \in Ops, LoopReport(s) \/ DrainReport(s) \/ FinalReport(s)
    PROVE  IInv'
<1>1. TakeReport(s) /\ pc # "exclusive" /\ pc' \in {"select", "drain", "final", "ended"}
      /\ (pc' = "drain" => pc = "drain")
  BY DEF LoopReport, DrainReport, FinalReport
<1> QED BY <1>1, ReportTaken

\* Taking an envelope off the queue.
LEMMA QueueTail ==
    ASSUME ControlTypes, QueueFresh, submitQ # <<>>
    PROVE  /\ Head(submitQ) \in Ops /\ Head(submitQ) < next_seq
           /\ task[Head(submitQ)] = "absent"
           /\ Tail(submitQ) \in Seq(Ops)
           /\ \A i \in 1 .. Len(Tail(submitQ)) :
                 /\ Tail(submitQ)[i] \in Ops
                 /\ Tail(submitQ)[i] < next_seq /\ task[Tail(submitQ)[i]] = "absent"
                 /\ Head(submitQ) < Tail(submitQ)[i]
           /\ \A i, j \in 1 .. Len(Tail(submitQ)) :
                 i < j => Tail(submitQ)[i] < Tail(submitQ)[j]
<1>1. /\ Head(submitQ) = submitQ[1] /\ 1 \in 1 .. Len(submitQ)
      /\ Tail(submitQ) \in Seq(Ops)
      /\ Len(Tail(submitQ)) = Len(submitQ) - 1 /\ Len(submitQ) \in Nat
      /\ \A i \in 1 .. Len(Tail(submitQ)) :
            Tail(submitQ)[i] = submitQ[i + 1] /\ i + 1 \in 1 .. Len(submitQ)
  BY DEF ControlTypes
<1>2. \A i \in 1 .. Len(submitQ) : submitQ[i] \in Ops BY DEF ControlTypes
<1>3. \A i \in 1 .. Len(Tail(submitQ)) : 1 < i + 1
  BY <1>1
<1> QED BY <1>1, <1>2, <1>3 DEF QueueFresh

LEMMA BreakStep ==
    ASSUME IInv, LoopBreak \/ LoopReturn
    PROVE  IInv'
<1> USE DEF IInv
<1>1. /\ pc' \in {"final", "ended"} /\ submitQ' \in {submitQ, Tail(submitQ)}
      /\ submitQ' # submitQ => submitQ # <<>>
      /\ UNCHANGED <<next_seq, guard, task, outcome, done, in_flight, current>>
  BY DEF LoopBreak, LoopReturn, callerVars, taskVars
<1>2. /\ submitQ' \in Seq(Ops)
      /\ \A i \in 1 .. Len(submitQ') : submitQ'[i] < next_seq /\ task[submitQ'[i]] = "absent"
      /\ \A i, j \in 1 .. Len(submitQ') : i < j => submitQ'[i] < submitQ'[j]
  <2>1. CASE submitQ' = submitQ BY <2>1 DEF ControlTypes, QueueFresh
  <2>2. CASE submitQ' = Tail(submitQ) /\ submitQ # <<>> BY <2>2, QueueTail
  <2> QED BY <1>1, <2>1, <2>2
<1>3. ControlTypes' BY <1>1, <1>2 DEF ControlTypes
<1>4. QueueFresh' BY <1>1, <1>2 DEF QueueFresh
<1> QED
  BY <1>1, <1>3, <1>4 DEF ReportsFollow, ExclusiveInHand, InFlightExact, PermitsInUse,
     Outstanding, Holders, GpuHolders, Permits

LEMMA SpawnStep ==
    ASSUME IInv, LoopSpawn
    PROVE  IInv'
<1> USE DEF IInv
<1> DEFINE s == Head(submitQ)
<1>1. /\ pc = "select" /\ submitQ # <<>> /\ submitQ' = Tail(submitQ)
      /\ in_flight' = in_flight + 1 /\ task' = [task EXCEPT ![s] = "spawned"]
      /\ UNCHANGED <<next_seq, guard, outcome, done, pc, current>>
  BY DEF LoopSpawn, callerVars
<1>2. s \in Ops /\ s < next_seq /\ task[s] = "absent" BY <1>1, QueueTail
<1>3. s \notin done BY <1>2 DEF ReportsFollow
<1>4. Outstanding' = Outstanding \cup {s} /\ s \notin Outstanding /\ Outstanding \in SUBSET Ops
  BY <1>1, <1>2, <1>3 DEF Outstanding, ControlTypes
<1>5. InFlightExact' BY <1>1, <1>2, <1>4, OneMore DEF InFlightExact
<1>6. ControlTypes' BY <1>1, <1>2, QueueTail DEF ControlTypes, TaskStates
<1>7. QueueFresh'
  <2> HIDE DEF s
  <2>1. Ops \subseteq Int /\ next_seq \in Int
    BY ExecutorAssumption DEF Ops, ControlTypes, ExecutorAssumption
  <2>2. \A i \in 1 .. Len(submitQ') :
           submitQ'[i] \in Ops /\ submitQ'[i] < next_seq /\ task[submitQ'[i]] = "absent" /\ s < submitQ'[i]
    BY <1>1, QueueTail DEF s
  <2>3. \A r \in Ops : r # s => task'[r] = task[r] BY <1>1, <1>2 DEF ControlTypes
  <2>4. \A i \in 1 .. Len(submitQ') : submitQ'[i] # s /\ task'[submitQ'[i]] = "absent"
    <3> SUFFICES ASSUME NEW i \in 1 .. Len(submitQ')
                 PROVE  submitQ'[i] # s /\ task'[submitQ'[i]] = "absent"
      OBVIOUS
    <3>1. submitQ'[i] \in Ops /\ s < submitQ'[i] /\ task[submitQ'[i]] = "absent" BY <2>2
    <3>2. submitQ'[i] # s BY <3>1, <1>2, <2>1
    <3> QED BY <3>1, <3>2, <2>3
  <2>5. \A i, j \in 1 .. Len(submitQ') : i < j => submitQ'[i] < submitQ'[j]
    BY <1>1, QueueTail
  <2>6. \A r \in Ops : r >= next_seq => task'[r] = "absent"
    BY <1>2, <2>1, <2>3 DEF QueueFresh
  <2> QED BY <1>1, <2>2, <2>4, <2>5, <2>6 DEF QueueFresh
<1>8. ReportsFollow' BY <1>1, <1>2, <1>3 DEF ReportsFollow, ControlTypes
<1>9. Holders' = Holders /\ GpuHolders' = GpuHolders
  BY <1>1, <1>2 DEF Holders, GpuHolders, ControlTypes
<1> QED
  BY <1>1, <1>5, <1>6, <1>7, <1>8, <1>9 DEF ExclusiveInHand, PermitsInUse, Permits

LEMMA ExclusiveTaken ==
    ASSUME IInv, LoopExclusive
    PROVE  IInv'
<1> USE DEF IInv
<1>1. /\ submitQ # <<>> /\ submitQ' = Tail(submitQ) /\ current' = Head(submitQ) /\ pc' = "drain"
      /\ UNCHANGED <<next_seq, guard, task, outcome, done, in_flight>>
  BY DEF LoopExclusive, callerVars, taskVars
<1>2. ControlTypes' BY <1>1, QueueTail DEF ControlTypes
<1>3. QueueFresh' BY <1>1, QueueTail DEF QueueFresh
<1>4. ExclusiveInHand' BY <1>1, QueueTail DEF ExclusiveInHand
<1> QED
  BY <1>1, <1>2, <1>3, <1>4 DEF ReportsFollow, InFlightExact, PermitsInUse,
     Outstanding, Holders, GpuHolders, Permits

LEMMA ExclusiveBegins ==
    ASSUME IInv, ExclusiveStart
    PROVE  IInv'
<1>1. /\ pc = "drain" /\ in_flight = 0 /\ pc' = "exclusive"
      /\ UNCHANGED <<next_seq, guard, submitQ, task, outcome, done, in_flight, current>>
  BY DEF ExclusiveStart, callerVars, taskVars
<1> QED
  BY <1>1 DEF IInv, ControlTypes, QueueFresh, ReportsFollow, ExclusiveInHand, InFlightExact,
     PermitsInUse, Outstanding, Holders, GpuHolders, Permits

\* The operation in hand has no task, so its outcome is nobody else's.
LEMMA ExclusiveEnds ==
    ASSUME IInv, ExclusiveSkip \/ ExclusiveFinish \/ ExclusivePanic
    PROVE  IInv'
<1> USE DEF IInv
<1>1. /\ pc \in {"drain", "exclusive"} /\ pc' \in {"select", "final", "ended", "crashed"}
      /\ current' = NoOp
      /\ \E how \in Outcomes : outcome' = [outcome EXCEPT ![current] = how]
      /\ UNCHANGED <<next_seq, guard, submitQ, task, done, in_flight>>
  BY DEF ExclusiveSkip, ExclusiveFinish, ExclusivePanic, callerVars, Outcomes
<1>2. current \in Ops /\ task[current] = "absent" BY <1>1 DEF ExclusiveInHand
<1>3. /\ outcome' \in [Ops -> Outcomes]
      /\ \A s \in Ops : task[s] # "absent" => outcome'[s] = outcome[s]
  BY <1>1, <1>2 DEF ControlTypes
<1>4. ControlTypes' BY <1>1, <1>3 DEF ControlTypes
<1>5. ReportsFollow' BY <1>1, <1>3 DEF ReportsFollow, ControlTypes
<1>6. Outstanding' = Outstanding BY <1>1, <1>3 DEF Outstanding
<1>7. QueueFresh' /\ ExclusiveInHand' BY <1>1 DEF QueueFresh, ExclusiveInHand
<1> QED
  BY <1>1, <1>4, <1>5, <1>6, <1>7 DEF InFlightExact, PermitsInUse, Holders, GpuHolders, Permits

-----------------------------------------------------------------------------
(* The theorems.                                                           *)

LEMMA ExecutorStep ==
    ASSUME IInv, [Next]_vars
    PROVE  IInv'
<1>1. CASE Submit BY <1>1, CallersQuiet, SubmitStep DEF Submit
<1>2. CASE Close \/ CancelFlag \/ CancelClose \/ NextResult \/ DropExecutor
  BY <1>2, CallersQuiet
<1>3. ASSUME NEW s \in Ops, TaskStep(s) PROVE IInv'
  <2>1. CASE TaskSkip(s) BY <2>1, ReportStep DEF TaskSkip
  <2>2. CASE TaskFinish(s) BY <2>2, ReportStep DEF TaskFinish
  <2> QED
    BY <1>3, <2>1, <2>2, AcquireStep, AcquireGpuStep, StartStep, ReleaseStep, PanicStep
    DEF TaskStep
<1>4. CASE LoopStep
  BY <1>4, TakeStep, BreakStep, SpawnStep, ExclusiveTaken, ExclusiveBegins, ExclusiveEnds,
     CallersQuiet DEF LoopStep
<1>5. CASE UNCHANGED vars
  BY <1>5, QuietStep DEF vars, callerVars, taskVars, loopVars
<1> QED BY <1>1, <1>2, <1>3, <1>4, <1>5 DEF Next

LEMMA InvariantHolds == Spec => []IInv
<1>1. Init => IInv BY ExecutorInit
<1>2. IInv /\ [Next]_vars => IInv' BY ExecutorStep
<1> QED BY <1>1, <1>2, PTL DEF Spec

\* The loop's in_flight is the number of tasks it still has to hear from, for
\* any number of operations, threads and permits, and whatever panics.
THEOREM CounterIsExact == Spec => []InFlightExact
<1>1. IInv => InFlightExact BY DEF IInv
<1> QED BY <1>1, InvariantHolds, PTL

\* ConcurrencyGuard::Exclusive keeps its promise.
THEOREM ExclusiveRunsAlone == Spec => []ExclusiveAlone
<1>1. IInv => ExclusiveAlone
  <2> SUFFICES ASSUME IInv, pc = "exclusive" PROVE Running = {} BY DEF ExclusiveAlone
  <2>1. Cardinality(Outstanding) = 0 BY DEF IInv, ExclusiveInHand, InFlightExact
  <2>2. Outstanding \in SUBSET Ops /\ Running \subseteq Outstanding
    BY DEF Outstanding, Running
  <2>3. \A s \in Outstanding : FALSE
    <3> SUFFICES ASSUME NEW s \in Outstanding PROVE FALSE OBVIOUS
    <3>1. Cardinality(Outstanding) > 0 BY <2>2, OneLess
    <3> QED BY <2>1, <3>1
  <2> QED BY <2>2, <2>3
<1> QED BY <1>1, InvariantHolds, PTL

\* The two semaphores: at most max_concurrent bodies, at most one on the GPU.
THEOREM PermitsBound == Spec => []PermitsRespected
<1>1. IInv => PermitsRespected
  <2> SUFFICES ASSUME IInv PROVE PermitsRespected OBVIOUS
  <2> DEFINE G == {s \in Running : guard[s] = "GpuBound"}
  <2>1. /\ Running \subseteq Holders /\ Holders \in SUBSET Ops /\ Running \in SUBSET Ops
        /\ G \subseteq GpuHolders /\ G \in SUBSET Ops
    BY DEF Running, Holders, GpuHolders
  <2>2. Cardinality(Running) <= Permits
    BY <2>1, NotMore, OpsFinite, PermitsNat DEF IInv, PermitsInUse
  <2>3. Cardinality(G) <= 1
    <3> HIDE DEF G
    <3>1. CASE G = {}
      <4>1. Cardinality({}) = 0 BY FS_EmptySet
      <4> QED BY <3>1, <4>1
    <3>2. CASE G # {}
      <4>1. PICK s : s \in G BY <3>2
      <4>2. G = {s} BY <2>1, <4>1 DEF IInv, PermitsInUse
      <4>3. Cardinality({s}) = 1 BY FS_Singleton
      <4> QED BY <4>2, <4>3
    <3> QED BY <3>1, <3>2
  <2> QED BY <2>2, <2>3 DEF PermitsRespected
<1> QED BY <1>1, InvariantHolds, PTL

\* spawn_concurrent and the exclusive branch keep both guards, for any operations,
\* threads and permits.
THEOREM GuardsAreRespected == Spec => []GuardsRespected
<1>1. ExclusiveAlone /\ PermitsRespected => GuardsRespected BY DEF GuardsRespected
<1> QED BY <1>1, ExclusiveRunsAlone, PermitsBound, PTL

\* cancel: the flag, once up, keeps every task and every exclusive operation
\* that has not begun from beginning.
THEOREM CancelHolds == Spec => CancelStopsStarts
<1> DEFINE Quiet == cancelled => /\ Running' \subseteq Running
                                 /\ pc' = "exclusive" => pc = "exclusive"
<1>1. ASSUME IInv, [Next]_vars PROVE Quiet
  <2> SUFFICES ASSUME cancelled PROVE Quiet OBVIOUS
  <2> USE <1>1
  <2>0. task \in [Ops -> TaskStates] BY DEF IInv, ControlTypes
  <2>1. CASE task' = task /\ (pc' = "exclusive" => pc = "exclusive")
    BY <2>1 DEF Running
  <2>2. ASSUME NEW s \in Ops, NEW st \in TaskStates \ {"running"},
               task' = [task EXCEPT ![s] = st], pc' = pc
        PROVE  Quiet
    BY <2>0, <2>2 DEF Running
  <2>3. CASE Submit
    BY <2>1, <2>3 DEF Submit, SubmitCheck, SubmitSend, taskVars, loopVars
  <2>4. CASE Close \/ CancelFlag \/ CancelClose \/ NextResult \/ DropExecutor
    BY <2>1, <2>4 DEF Close, CancelFlag, CancelClose, NextResult, DropExecutor,
       taskVars, loopVars
  <2>5. ASSUME NEW s \in Ops, TaskStep(s) PROVE Quiet
    <3>1. /\ pc' = pc
          /\ \E st \in TaskStates \ {"running"} : task' = [task EXCEPT ![s] = st]
      BY <2>5 DEF TaskStep, AcquirePermit, AcquireGpuPermit, TaskStart, TaskSkip,
         TaskFinish, TaskRelease, TaskPanic, Report, TaskStates, loopVars
    <3> QED BY <3>1, <2>2
  <2>6. CASE LoopStep /\ ~LoopSpawn
    BY <2>1, <2>6 DEF LoopStep, LoopReport, DrainReport, FinalReport, TakeReport, LoopBreak,
       LoopExclusive, ExclusiveStart, ExclusiveSkip, ExclusiveFinish, ExclusivePanic,
       LoopReturn, StoreDone, taskVars, loopVars
  <2>7. CASE UNCHANGED vars BY <2>1, <2>7 DEF vars, taskVars, loopVars
  <2>8. CASE LoopSpawn BY <2>8 DEF LoopSpawn
  <2> QED BY <2>3, <2>4, <2>5, <2>6, <2>7, <2>8 DEF Next
<1> QED BY <1>1, InvariantHolds, PTL DEF Spec, CancelStopsStarts

-----------------------------------------------------------------------------
(* Executor implements ToolStream: whatever the channels, permits, drain   *)
(* and buffer do, the consumer sees the promised stream and operations run *)
(* beside one another only as promised.                                    *)

-----------------------------------------------------------------------------
(* Least numbers, and ascending listings.                                  *)

LEMMA LeastNat ==
    ASSUME NEW T \in SUBSET Nat, T # {}
    PROVE  \E n \in T : \A m \in T : n <= m
<1> DEFINE R == OpToRel(<, Nat)
<1>1. IsWellFoundedOn(R, Nat)
  BY NatLessThanWellFounded
<1>2. \E x \in T : \A y \in T : ~ (<<y, x>> \in R)
  <2> HIDE DEF R
  <2> QED BY <1>1, WFMin
<1>3. \A x, y \in Nat : y < x => <<y, x>> \in R
  BY DEF OpToRel
<1> HIDE DEF R
<1>4. PICK x \in T : \A y \in T : ~ (<<y, x>> \in R)
  BY <1>2
<1>5. \A y \in T : ~ (y < x)
  BY <1>3, <1>4
<1> QED BY <1>4, <1>5

\* Every rank below the size of a set of numbers is somebody's.
LEMMA Ranked ==
    ASSUME NEW V \in SUBSET Nat, IsFiniteSet(V),
           NEW i \in Nat, i < Cardinality(V)
    PROVE  \E s \in V : Cardinality({r \in V : r < s}) = i
<1> DEFINE Below(s) == {r \in V : r < s}
           Missing == {j \in Nat : j < Cardinality(V) /\ ~ \E s \in V : Cardinality(Below(s)) = j}
<1>1. SUFFICES ASSUME Missing # {} PROVE FALSE
  OBVIOUS
<1>2. PICK j \in Missing : \A m \in Missing : j <= m
  <2> HIDE DEF Missing
  <2>1. Missing \in SUBSET Nat
    BY DEF Missing
  <2> QED BY <1>1, <2>1, LeastNat
<1>3. Cardinality(V) \in Nat /\ j \in Nat /\ j < Cardinality(V)
  BY FS_CardinalityType
\* The least member above a set that is not all of V.
<1>4. ASSUME NEW W \in SUBSET V, W # V, \A w \in W : \A v \in V \ W : w < v
      PROVE  \E s \in V : Below(s) = W
  <2>1. PICK s \in V \ W : \A m \in V \ W : s <= m
    <3>1. V \ W \in SUBSET Nat /\ V \ W # {}
      BY <1>4
    <3> QED BY <3>1, LeastNat
  <2>2. \A r \in V : r \in Nat /\ s \in Nat
    BY <2>1
  <2>3. \A r \in V : r < s <=> r \in W
    BY <1>4, <2>1, <2>2
  <2> QED BY <2>1, <2>3
<1>5. CASE j = 0
  <2>1. V # {}
    BY <1>3, <1>5, FS_EmptySet
  <2>2. PICK s \in V : Below(s) = {}
    <3>1. {} \in SUBSET V /\ {} # V
      BY <2>1
    <3> QED BY <1>4, <3>1
  <2>3. Cardinality(Below(s)) = 0
    BY <2>2, FS_EmptySet
  <2> QED BY <1>5, <2>3
<1>6. CASE j # 0
  <2>1. j - 1 \in Nat /\ j - 1 < Cardinality(V) /\ ~ (j <= j - 1)
    BY <1>3, <1>6
  <2>2. j - 1 \notin Missing
    BY <1>2, <2>1
  <2>3. PICK s \in V : Cardinality(Below(s)) = j - 1
    BY <2>1, <2>2
  <2> DEFINE W == Below(s) \cup {s}
  <2>4. W \in SUBSET V /\ s \notin Below(s) /\ \A r \in V : r \in Nat /\ s \in Nat
    OBVIOUS
  <2>5. IsFiniteSet(Below(s)) /\ Cardinality(W) = j
    <3>1. IsFiniteSet(Below(s))
      BY FS_Subset
    <3>2. Cardinality(W) = Cardinality(Below(s)) + 1
      BY <2>4, <3>1, FS_AddElement
    <3> QED BY <3>1, <3>2, <2>3, <1>3
  <2>6. W # V
    BY <1>3, <2>5
  <2>7. \A w \in W : \A v \in V \ W : w < v
    BY <2>4
  <2>8. PICK t \in V : Below(t) = W
    <3> HIDE DEF W
    <3> QED BY <1>4, <2>4, <2>6, <2>7
  <2>9. Cardinality(Below(t)) = j
    BY <2>5, <2>8
  <2> QED BY <2>9
<1> QED BY <1>5, <1>6

LEMMA AscendingIs ==
    ASSUME NEW V \in SUBSET Nat, IsFiniteSet(V)
    PROVE  /\ Ascending(V) \in Seq(V) /\ Len(Ascending(V)) = Cardinality(V)
           /\ V = {} => Ascending(V) = <<>>
<1>1. Cardinality(V) \in Nat
  BY FS_CardinalityType
<1>2. ASSUME NEW i \in 1 .. Cardinality(V)
      PROVE  (CHOOSE s \in V : Cardinality({r \in V : r < s}) = i - 1) \in V
  <2>1. i - 1 \in Nat /\ i - 1 < Cardinality(V)
    BY <1>1
  <2>2. \E s \in V : Cardinality({r \in V : r < s}) = i - 1
    BY <2>1, Ranked
  <2> QED BY <2>2
<1>3. Ascending(V) \in [1 .. Cardinality(V) -> V]
  BY <1>2 DEF Ascending
<1>4. Ascending(V) \in Seq(V)
  BY <1>1, <1>3, SeqDef
<1>5. Len(Ascending(V)) = Cardinality(V)
  <2>1. DOMAIN Ascending(V) = 1 .. Cardinality(V)
    BY <1>3
  <2>2. DOMAIN Ascending(V) = 1 .. Len(Ascending(V)) /\ Len(Ascending(V)) \in Nat
    BY <1>4, LenProperties
  <2> QED BY <1>1, <2>1, <2>2
<1>6. V = {} => Ascending(V) = <<>>
  BY <1>4, <1>5, FS_EmptySet, EmptySeq
<1> QED BY <1>4, <1>5, <1>6

-----------------------------------------------------------------------------
(* The walk over the buffer.                                               *)

Slots == {"absent", "Pending", "Skipped", "Ready"}

LEMMA StopIs ==
    ASSUME cursor \in 0 .. MaxOps, NEW buf \in [Ops -> Slots]
    PROVE  /\ Stop(buf) \in cursor .. MaxOps
           /\ \A i \in cursor .. (Stop(buf) - 1) : i \in Ops /\ buf[i] \in {"Skipped", "Ready"}
<1> DEFINE T == {n \in cursor .. MaxOps : n = MaxOps \/ buf[n] \in {"absent", "Pending"}}
<1>1. MaxOps \in Nat /\ cursor \in Nat /\ cursor <= MaxOps
  BY ExecutorAssumption DEF ExecutorAssumption
<1>2. PICK n \in T : \A m \in T : n <= m
  <2>1. T \in SUBSET Nat /\ MaxOps \in T
    BY <1>1
  <2> HIDE DEF T
  <2> QED BY <2>1, LeastNat
<1>3. n \in cursor .. MaxOps /\ n \in Nat
  BY <1>1
<1>4. ASSUME NEW i \in cursor .. (n - 1)
      PROVE  i \in Ops /\ buf[i] \in {"Skipped", "Ready"}
  <2>1. i \in cursor .. MaxOps /\ i # MaxOps /\ i \in Ops /\ ~ (n <= i)
    BY <1>1, <1>3 DEF Ops
  <2>2. i \notin T
    <3> HIDE DEF T
    <3> QED BY <1>2, <2>1
  <2>3. buf[i] \in Slots
    BY <2>1
  <2> QED BY <2>1, <2>2, <2>3 DEF Slots
<1>5. /\ n = MaxOps \/ buf[n] \in {"absent", "Pending"}
      /\ \A i \in cursor .. (n - 1) : buf[i] \in {"Skipped", "Ready"}
  BY <1>2, <1>4
<1>6. /\ Stop(buf) \in cursor .. MaxOps
      /\ \A i \in cursor .. (Stop(buf) - 1) : buf[i] \in {"Skipped", "Ready"}
  BY <1>3, <1>5 DEF Stop
<1> QED BY <1>1, <1>6 DEF Ops

LEMMA StopDroppedIs ==
    ASSUME cursor \in 0 .. MaxOps, NEW buf \in [Ops -> Slots]
    PROVE  StopDropped(buf) \in cursor .. Stop(buf)
<1> DEFINE T == {n \in cursor .. Stop(buf) : n = Stop(buf) \/ buf[n] = "Ready"}
<1>1. /\ Stop(buf) \in Nat /\ cursor \in Nat /\ cursor <= Stop(buf)
      /\ \A i \in cursor .. (Stop(buf) - 1) : buf[i] \in {"Skipped", "Ready"}
  BY StopIs, ExecutorAssumption DEF ExecutorAssumption
<1>2. PICK n \in T : \A m \in T : n <= m
  <2>1. T \in SUBSET Nat /\ Stop(buf) \in T
    BY <1>1
  <2> HIDE DEF T
  <2> QED BY <2>1, LeastNat
<1>3. n \in cursor .. Stop(buf) /\ n \in Nat
  BY <1>1
<1>4. ASSUME NEW i \in cursor .. (n - 1)
      PROVE  buf[i] = "Skipped"
  <2>1. i \in cursor .. Stop(buf) /\ i \in cursor .. (Stop(buf) - 1) /\ ~ (n <= i)
    BY <1>1, <1>3
  <2>2. i \notin T
    <3> HIDE DEF T
    <3> QED BY <1>2, <2>1
  <2> QED BY <1>1, <2>1, <2>2
<1> QED BY <1>3, <1>2, <1>4 DEF StopDropped

\* What ToolStream calls the status of an operation, and what it lets the
\* stream do in a step.
Status == [s \in Ops |-> AbsStatus(s)]

Passes ==
    /\ cursor' \in cursor .. MaxOps
    /\ \A s \in cursor .. (cursor' - 1) : Status'[s] \in {"value", "void"}
    /\ Delivered' = IF ~listening THEN Delivered
                    ELSE Delivered \o Ascending({s \in cursor .. (cursor' - 1) : Status'[s] = "value"})

\* Three stretches of a stream, one behind the other.
LEMMA Regroup ==
    ASSUME NEW a \in Seq(Ops), NEW b \in Seq(Ops), NEW c \in Seq(Ops)
    PROVE  (a \o b) \o c = a \o (b \o c) /\ b \o c \in Seq(Ops)
<1>1. (a \o b) \o c = a \o (b \o c)
  BY ConcatAssociative
<1>2. b \o c \in Seq(Ops)
  BY ConcatProperties
<1> QED BY <1>1, <1>2

\* A flush does that, when each filled slot tells how its operation ended.
LEMMA FlushPasses ==
    ASSUME cursor \in 0 .. MaxOps, NEW buf \in [Ops -> Slots],
           results \in Seq(Ops), received \in Seq(Ops),
           flush_buffer(buf), UNCHANGED <<received, listening>>,
           \A s \in Ops : /\ buf[s] = "Ready" => Status'[s] = "value"
                          /\ buf[s] = "Skipped" => Status'[s] = "void"
    PROVE  /\ Passes /\ cursor' \in 0 .. MaxOps
           /\ results' \in Seq(Ops)
           /\ buffer' \in [Ops -> Slots]
           /\ \A s \in Ops : buffer'[s] \in {"Skipped", "Ready"} => buffer'[s] = buf[s]
<1>1. /\ Stop(buf) \in cursor .. MaxOps /\ cursor \in Nat /\ MaxOps \in Nat
      /\ \A i \in cursor .. (Stop(buf) - 1) : i \in Ops /\ buf[i] \in {"Skipped", "Ready"}
      /\ StopDropped(buf) \in cursor .. Stop(buf)
  BY StopIs, StopDroppedIs, ExecutorAssumption DEF ExecutorAssumption
<1>2. cursor' \in cursor .. Stop(buf)
  BY <1>1 DEF flush_buffer
<1>3. cursor' \in cursor .. MaxOps /\ cursor' \in 0 .. MaxOps
  BY <1>1, <1>2
<1>4. \A s \in cursor .. (cursor' - 1) : s \in cursor .. (Stop(buf) - 1)
  <2>1. cursor \in Int /\ cursor' \in Int /\ Stop(buf) \in Int /\ cursor' <= Stop(buf)
    BY <1>1, <1>2
  <2>2. \A a, b, c \in Int : b <= c => \A s \in a .. (b - 1) : s \in a .. (c - 1)
    OBVIOUS
  <2> QED BY <2>1, <2>2
<1>5. \A s \in cursor .. (cursor' - 1) : Status'[s] \in {"value", "void"}
  BY <1>1, <1>4
<1>6. /\ buffer' \in [Ops -> Slots]
      /\ \A s \in Ops : buffer'[s] \in {"Skipped", "Ready"} => buffer'[s] = buf[s]
  <2>1. PICK W : buffer' = [i \in Ops |-> IF i \in W THEN "Pending" ELSE buf[i]]
    BY DEF flush_buffer
  <2> QED BY <2>1 DEF Slots
<1>7. CASE ~listening
  BY <1>3, <1>5, <1>6, <1>7 DEF flush_buffer, Delivered, Passes
<1>8. CASE listening
  <2> DEFINE V == {s \in cursor .. (cursor' - 1) : Status'[s] = "value"}
  <2>1. cursor' = Stop(buf) /\ results' = results \o Flushed(buf)
    BY <1>8 DEF flush_buffer, FlushFails
  <2>2. Flushed(buf) = Ascending(V)
    <3>1. {s \in cursor .. (Stop(buf) - 1) : buf[s] = "Ready"} = V
      BY <1>1, <2>1
    <3> QED BY <3>1 DEF Flushed
  <2>3. Ascending(V) \in Seq(Ops)
    <3>1. V \in SUBSET Ops /\ V \in SUBSET Nat
      BY <1>1, <1>4 DEF Ops
    <3>2. IsFiniteSet(V)
      BY <3>1, OpsFinite
    <3>3. Ascending(V) \in Seq(V)
      <4> HIDE DEF V
      <4> QED BY <3>1, <3>2, AscendingIs
    <3> HIDE DEF V
    <3> QED BY <3>1, <3>3, SeqMonotonic
  <2> HIDE DEF V
  <2>4. results' \in Seq(Ops) /\ Delivered' = Delivered \o Ascending(V)
    <3> DEFINE A == Ascending(V)
    <3>1. results' = results \o A /\ received' = received
      BY <2>1, <2>2
    <3>2. A \in Seq(Ops)
      BY <2>3
    <3> HIDE DEF A
    <3>3. Delivered' = received \o (results \o A)
      BY <3>1 DEF Delivered
    <3>4. (received \o results) \o A = received \o (results \o A) /\ results \o A \in Seq(Ops)
      BY <3>2, Regroup
    <3> QED BY <3>1, <3>3, <3>4 DEF A, Delivered
  <2> QED BY <1>3, <1>5, <1>6, <1>8, <2>4 DEF V, Passes
<1> QED BY <1>7, <1>8

-----------------------------------------------------------------------------
(* The steps of ToolStream, in the words of Executor.                      *)

LEMMA Stutters ==
    ASSUME UNCHANGED <<guard, Status, cursor, Delivered, cancelled, listening>>
    PROVE  UNCHANGED Abs!vars
BY DEF Abs!vars, Status

LEMMA Accepts ==
    ASSUME NEW s \in Ops, NEW g \in Guards, guard[s] = "none",
           guard' = [guard EXCEPT ![s] = g],
           UNCHANGED <<Status, cursor, Delivered, cancelled, listening>>
    PROVE  Abs!Next
BY DEF Abs!Next, Abs!Accept, Abs!Ops, Ops, Guards, Status

LEMMA SameCardinality == ASSUME NEW S PROVE Abs!Cardinality(S) = Cardinality(S)
BY DEF Abs!Cardinality, Cardinality, Abs!IsFiniteSet, IsFiniteSet

LEMMA SameAscending == ASSUME NEW V PROVE Abs!Ascending(V) = Ascending(V)
BY DEF Abs!Ascending, Ascending, Abs!Cardinality, Cardinality, Abs!IsFiniteSet, IsFiniteSet

LEMMA Starts ==
    ASSUME NEW s \in Ops, ~cancelled, guard[s] # "none", Status[s] = "new",
           \A r \in Ops : Status[r] = "running" =>
              /\ "Exclusive" \notin {guard[s], guard[r]}
              /\ ~ (guard[s] = "GpuBound" /\ guard[r] = "GpuBound"),
           Cardinality({r \in Ops : Status[r] = "running"}) < Permits,
           Status' = [Status EXCEPT ![s] = "running"],
           UNCHANGED <<guard, cursor, Delivered, cancelled, listening>>
    PROVE  Abs!Next
<1>1. Abs!Running = {r \in Ops : Status[r] = "running"}
  BY DEF Abs!Running, Abs!Ops, Ops, Status
<1>2. \A r \in Abs!Running : Abs!Compatible(s, r)
  BY <1>1 DEF Abs!Compatible
<1>3. Abs!Start(s)
  BY <1>1, <1>2, SameCardinality DEF Abs!Start, Status
<1> QED BY <1>3 DEF Abs!Next, Abs!Ops, Ops

LEMMA AbsPasses == Passes => \E k \in cursor .. MaxOps : Abs!Pass(k)
<1> SUFFICES ASSUME Passes PROVE Abs!Pass(cursor')
  BY DEF Passes
<1>1. \A V : Abs!Ascending(V) = Ascending(V)
  BY SameAscending
<1>2. /\ \A s \in cursor .. (cursor' - 1) : Status'[s] \in {"value", "void"}
      /\ Delivered' = IF ~listening THEN Delivered
           ELSE Delivered \o Abs!Ascending({s \in cursor .. (cursor' - 1) : Status'[s] = "value"})
  BY <1>1 DEF Passes
<1> QED BY <1>2 DEF Abs!Pass, Status

LEMMA Settles ==
    ASSUME NEW s \in Ops, Passes,
           \/ Status[s] = "running" /\ \E st \in {"value", "lost"} : Status' = [Status EXCEPT ![s] = st]
           \/ /\ Status[s] = "new" /\ guard[s] # "none" /\ cancelled
              /\ Status' = [Status EXCEPT ![s] = "void"],
           UNCHANGED <<guard, cancelled, listening>>
    PROVE  Abs!Next
<1>1. Abs!Settle(s) /\ s \in Abs!Ops
  BY DEF Abs!Settle, Abs!Ops, Ops, Status
<1> QED BY <1>1, AbsPasses DEF Abs!Next, Abs!Progress

LEMMA Advances ==
    ASSUME Passes, UNCHANGED <<Status, guard, cancelled, listening>>
    PROVE  Abs!Next
BY AbsPasses DEF Abs!Next, Abs!Advance, Status

LEMMA Cancels ==
    ASSUME cancelled' = TRUE, UNCHANGED <<guard, Status, cursor, Delivered, listening>>
    PROVE  Abs!Next
BY DEF Abs!Next, Abs!Cancel, Status

LEMMA Abandons ==
    ASSUME listening' = FALSE, \E n \in 0 .. Len(Delivered) : Delivered' = SubSeq(Delivered, 1, n),
           UNCHANGED <<guard, Status, cursor, cancelled>>
    PROVE  Abs!Next
BY DEF Abs!Next, Abs!Abandon, Status

-----------------------------------------------------------------------------
(* The invariant, beside the one of the counter.                           *)

StreamTypes ==
    /\ buffer \in [Ops -> Slots] /\ cursor \in 0 .. MaxOps
    /\ results \in Seq(Ops) /\ received \in Seq(Ops)

\* A filled slot tells how its operation ended.
SlotsTrue ==
    \A s \in Ops : /\ buffer[s] = "Ready" => outcome[s] = "value"
                   /\ buffer[s] = "Skipped" => outcome[s] = "cancelled"

\* Whoever is queued, spawned or in hand has declared what it is.
Declared ==
    /\ \A s \in Ops : s >= next_seq => guard[s] = "none"
    /\ \A i \in 1 .. Len(submitQ) : guard[submitQ[i]] # "none"
    /\ \A s \in Ops : task[s] # "absent" => guard[s] \in {"Safe", "GpuBound"}
    /\ pc \in {"drain", "exclusive"} => guard[current] = "Exclusive"

\* Nobody who has yet to run has ended, and a report is of an operation that has.
Undecided ==
    /\ \A s \in Ops :
         s >= next_seq \/ task[s] \in {"spawned", "permit", "armed", "running"}
           => outcome[s] = "none"
    /\ \A i \in 1 .. Len(submitQ) : outcome[submitQ[i]] = "none"
    /\ pc \in {"drain", "exclusive"} => outcome[current] = "none"
    /\ \A s \in done : outcome[s] \in {"value", "cancelled"}

RInv == IInv /\ StreamTypes /\ SlotsTrue /\ Declared /\ Undecided

AbsStep == Abs!Next \/ UNCHANGED Abs!vars

LEMMA RefineInit == Init => RInv /\ Abs!Init
<1> SUFFICES ASSUME Init PROVE RInv /\ Abs!Init
  OBVIOUS
<1>1. StreamTypes
  BY ExecutorAssumption DEF ExecutorAssumption, Init, StreamTypes, Slots
<1>2. SlotsTrue /\ Declared /\ Undecided
  BY DEF Init, SlotsTrue, Declared, Undecided
<1>3. [s \in Ops |-> AbsStatus(s)] = [s \in Ops |-> "new"]
  BY DEF Init, AbsStatus
<1>4. Delivered = <<>>
  BY DEF Init, Delivered
<1>5. Abs!Init
  BY <1>3, <1>4 DEF Init, Abs!Init, Abs!Ops, Ops
<1> QED BY <1>1, <1>2, <1>5, ExecutorInit DEF RInv

\* What keeps the status of every operation.
LEMMA StatusSame ==
    ASSUME outcome' = outcome, \A s \in Ops : task'[s] = "running" <=> task[s] = "running",
           pc' = "exclusive" <=> pc = "exclusive", pc = "exclusive" => current' = current
    PROVE  Status' = Status
BY DEF Status, AbsStatus

\* A step of a caller or of the consumer's side.
LEMMA AsideKeeps ==
    ASSUME RInv, results' \in Seq(Ops), received' \in Seq(Ops),
           UNCHANGED <<next_seq, guard, submitQ, task, outcome, done, buffer, cursor, pc, current>>
    PROVE  StreamTypes' /\ SlotsTrue' /\ Declared' /\ Undecided' /\ Status' = Status
<1>1. Status' = Status
  BY StatusSame
<1> QED BY <1>1 DEF RInv, StreamTypes, SlotsTrue, Declared, Undecided

LEMMA RefineAside ==
    ASSUME RInv,
           \/ \E t \in Submitters : SubmitCheck(t)
           \/ Close \/ CancelFlag \/ CancelClose \/ NextResult \/ DropExecutor \/ StoreDone
    PROVE  StreamTypes' /\ SlotsTrue' /\ Declared' /\ Undecided' /\ AbsStep
<1> USE DEF AbsStep
<1>1. results \in Seq(Ops) /\ received \in Seq(Ops)
  BY DEF RInv, StreamTypes
<1>2. CASE (\E t \in Submitters : SubmitCheck(t)) \/ Close \/ CancelClose \/ StoreDone
  <2>1. UNCHANGED <<next_seq, guard, submitQ, task, outcome, done, buffer, cursor, pc, current,
                    results, received, cancelled, listening>>
    BY <1>2 DEF SubmitCheck, Close, CancelClose, StoreDone, callerVars, taskVars, loopVars,
       consumerVars
  <2> QED BY <1>1, <2>1, AsideKeeps, Stutters DEF Delivered
<1>3. CASE CancelFlag
  <2>1. /\ UNCHANGED <<next_seq, guard, submitQ, task, outcome, done, buffer, cursor, pc, current,
                       results, received, listening>>
        /\ cancelled' = TRUE
    BY <1>3 DEF CancelFlag, taskVars, loopVars, consumerVars
  <2> QED BY <1>1, <2>1, AsideKeeps, Cancels DEF Delivered
<1>4. CASE NextResult
  <2>1. /\ UNCHANGED <<next_seq, guard, submitQ, task, outcome, done, buffer, cursor, pc, current,
                       cancelled, listening>>
        /\ results # <<>> /\ received' = Append(received, Head(results)) /\ results' = Tail(results)
    BY <1>4 DEF NextResult, callerVars, taskVars, loopVars
  <2>2. results' \in Seq(Ops) /\ received' \in Seq(Ops) /\ Head(results) \in Ops
    BY <1>1, <2>1
  <2>3. Delivered' = Delivered
    <3>1. results = <<Head(results)>> \o Tail(results) /\ Append(received, Head(results)) = received \o <<Head(results)>>
      BY <1>1, <2>1, <2>2
    <3>2. <<Head(results)>> \in Seq(Ops) /\ Tail(results) \in Seq(Ops)
      BY <1>1, <2>1, <2>2
    <3>3. (received \o <<Head(results)>>) \o Tail(results) = received \o (<<Head(results)>> \o Tail(results))
      BY <1>1, <3>2, Regroup
    <3> QED BY <2>1, <3>1, <3>3 DEF Delivered
  <2> QED BY <2>1, <2>2, <2>3, AsideKeeps, Stutters
<1>5. CASE DropExecutor
  <2>1. /\ UNCHANGED <<next_seq, guard, submitQ, task, outcome, done, buffer, cursor, pc, current,
                       received, cancelled>>
        /\ results' = <<>> /\ listening' = FALSE
    BY <1>5 DEF DropExecutor, taskVars, loopVars
  <2>2. results' \in Seq(Ops)
    BY <2>1
  <2>3. \E n \in 0 .. Len(Delivered) : Delivered' = SubSeq(Delivered, 1, n)
    <3>1. Delivered' = received
      BY <1>1, <2>1, ConcatEmptySeq DEF Delivered
    <3>2. Len(received) \in 0 .. Len(Delivered) /\ SubSeq(Delivered, 1, Len(received)) = received
      BY <1>1 DEF Delivered
    <3> QED BY <3>1, <3>2
  <2> QED BY <1>1, <2>1, <2>2, <2>3, AsideKeeps, Abandons
<1> QED BY <1>2, <1>3, <1>4, <1>5

-----------------------------------------------------------------------------
(* submit, and the tasks.                                                  *)

LEMMA RefineSubmit ==
    ASSUME RInv, NEW t \in Submitters, SubmitSend(t)
    PROVE  StreamTypes' /\ SlotsTrue' /\ Declared' /\ Undecided' /\ AbsStep
<1> USE DEF AbsStep
<1>1. /\ UNCHANGED <<task, outcome, done, buffer, cursor, pc, current, results, received,
                     cancelled, listening>>
      /\ MaxOps \in Nat /\ next_seq \in Nat /\ submitQ \in Seq(Ops)
      /\ guard \in [Ops -> Guards \cup {"none"}]
  BY ExecutorAssumption DEF SubmitSend, taskVars, loopVars, consumerVars, ExecutorAssumption,
     RInv, IInv, ControlTypes
<1>2. Status' = Status /\ Delivered' = Delivered
  BY <1>1, StatusSame DEF Delivered
<1>3. StreamTypes' /\ SlotsTrue'
  BY <1>1 DEF RInv, StreamTypes, SlotsTrue
<1>4. CASE UNCHANGED <<next_seq, guard, submitQ>>
  BY <1>1, <1>2, <1>3, <1>4, Stutters DEF RInv, Declared, Undecided
<1>5. CASE next_seq < MaxOps /\ next_seq' = next_seq + 1 /\ UNCHANGED <<guard, submitQ>>
  <2>1. \A s \in Ops : s >= next_seq' => s >= next_seq
    BY <1>1, <1>5 DEF Ops
  <2>2. Declared' /\ Undecided'
    BY <1>1, <1>5, <2>1 DEF RInv, Declared, Undecided
  <2> QED BY <1>1, <1>2, <1>3, <1>5, <2>2, Stutters
<1>6. ASSUME NEW g \in Guards, next_seq < MaxOps, next_seq' = next_seq + 1,
             guard' = [guard EXCEPT ![next_seq] = g], submitQ' = Append(submitQ, next_seq)
      PROVE  Declared' /\ Undecided' /\ AbsStep
  <2>1. next_seq \in Ops /\ g # "none" /\ \A s \in Ops : s >= next_seq' => s >= next_seq /\ s # next_seq
    BY <1>1, <1>6 DEF Ops, Guards
  <2>2. /\ guard[next_seq] = "none" /\ outcome[next_seq] = "none" /\ task[next_seq] = "absent"
    BY <1>1, <2>1 DEF RInv, IInv, QueueFresh, Declared, Undecided
  <2>3. \A i \in 1 .. Len(submitQ') :
           submitQ'[i] = next_seq \/ (i \in 1 .. Len(submitQ) /\ submitQ'[i] = submitQ[i])
    BY <1>1, <1>6
  <2>4. \A s \in Ops : guard'[s] = IF s = next_seq THEN g ELSE guard[s]
    BY <1>1, <1>6, <2>1
  <2>5. \A i \in 1 .. Len(submitQ) : submitQ[i] \in Ops
    BY <1>1
  <2>6. pc \in {"drain", "exclusive"} => current \in Ops /\ current # next_seq
    BY <1>1, <2>2 DEF RInv, IInv, ExclusiveInHand, Declared
  <2>7. Declared'
    <3>1. \A i \in 1 .. Len(submitQ') : guard'[submitQ'[i]] # "none"
      BY <2>1, <2>3, <2>4, <2>5 DEF RInv, Declared
    <3>2. \A s \in Ops : s >= next_seq' => guard'[s] = "none"
      BY <2>1, <2>4 DEF RInv, Declared
    <3>3. \A s \in Ops : task'[s] # "absent" => guard'[s] \in {"Safe", "GpuBound"}
      BY <1>1, <2>2, <2>4 DEF RInv, Declared
    <3>4. pc' \in {"drain", "exclusive"} => guard'[current'] = "Exclusive"
      BY <1>1, <2>4, <2>6 DEF RInv, Declared
    <3> QED BY <3>1, <3>2, <3>3, <3>4 DEF Declared
  <2>8. Undecided'
    BY <1>1, <2>1, <2>2, <2>3 DEF RInv, Undecided
  <2> QED BY <1>1, <1>2, <1>6, <2>1, <2>2, <2>7, <2>8, Accepts
<1> QED BY <1>3, <1>4, <1>5, <1>6 DEF SubmitSend

\* A task moves on and reports nothing.
LEMMA MoveKeeps ==
    ASSUME RInv, NEW s \in Ops, NEW st \in {"permit", "armed", "running", "gone"},
           task[s] # "absent",
           st \in {"permit", "armed", "running"} => task[s] \in {"spawned", "permit", "armed"},
           task' = [task EXCEPT ![s] = st],
           UNCHANGED <<next_seq, guard, submitQ, outcome, done, buffer, cursor, pc, current,
                       results, received>>
    PROVE  StreamTypes' /\ SlotsTrue' /\ Declared' /\ Undecided'
<1>1. \A r \in Ops : task'[r] = IF r = s THEN st ELSE task[r]
  BY DEF RInv, IInv, ControlTypes
<1>2. Undecided'
  BY <1>1 DEF RInv, Undecided, TaskStates
<1>3. StreamTypes' /\ SlotsTrue' /\ Declared'
  BY <1>1 DEF RInv, StreamTypes, SlotsTrue, Declared
<1> QED BY <1>2, <1>3

LEMMA RefineMove ==
    ASSUME RInv, NEW s \in Ops, AcquirePermit(s) \/ AcquireGpuPermit(s) \/ TaskRelease(s)
    PROVE  StreamTypes' /\ SlotsTrue' /\ Declared' /\ Undecided' /\ AbsStep
<1>1. PICK st \in {"permit", "armed", "gone"} :
        /\ task' = [task EXCEPT ![s] = st]
        /\ st = "gone" => task[s] = "sent"
        /\ st # "gone" => task[s] \in {"spawned", "permit"}
  BY DEF AcquirePermit, AcquireGpuPermit, TaskRelease
<1>2. UNCHANGED <<next_seq, guard, submitQ, outcome, done, buffer, cursor, pc, current,
                  results, received, cancelled, listening>>
  BY DEF AcquirePermit, AcquireGpuPermit, TaskRelease, callerVars, loopVars, consumerVars
<1>3. StreamTypes' /\ SlotsTrue' /\ Declared' /\ Undecided'
  BY <1>1, <1>2, MoveKeeps
<1>4. \A r \in Ops : task'[r] = "running" <=> task[r] = "running"
  BY <1>1 DEF RInv, IInv, ControlTypes
<1>5. Status' = Status
  BY <1>2, <1>4, StatusSame
<1> QED BY <1>2, <1>3, <1>5, Stutters DEF AbsStep, Delivered

\* With an exclusive operation at work nothing is outstanding.
LEMMA NothingOut ==
    ASSUME IInv, in_flight = 0, NEW s \in Ops
    PROVE  s \notin Outstanding
<1>1. Outstanding \in SUBSET Ops
  BY DEF Outstanding
<1>2. Cardinality(Outstanding) = 0
  BY DEF IInv, InFlightExact
<1>3. ASSUME s \in Outstanding PROVE FALSE
  <2>1. Cardinality(Outstanding) > 0
    BY <1>1, <1>3, OneLess
  <2> QED BY <1>2, <2>1
<1> QED BY <1>3

LEMMA RefineStart ==
    ASSUME RInv, NEW s \in Ops, TaskStart(s)
    PROVE  StreamTypes' /\ SlotsTrue' /\ Declared' /\ Undecided' /\ AbsStep
<1>1. /\ task[s] = "armed" /\ ~cancelled /\ task' = [task EXCEPT ![s] = "running"]
      /\ UNCHANGED <<next_seq, guard, submitQ, outcome, done, buffer, cursor, pc, current,
                     results, received, cancelled, listening>>
      /\ task \in [Ops -> TaskStates]
  BY DEF TaskStart, callerVars, loopVars, consumerVars, RInv, IInv, ControlTypes
<1>2. StreamTypes' /\ SlotsTrue' /\ Declared' /\ Undecided'
  BY <1>1, MoveKeeps
<1>3. pc # "exclusive"
  <2>1. s \in Outstanding
    BY <1>1 DEF Outstanding
  <2> QED BY <2>1, NothingOut DEF RInv, IInv, ExclusiveInHand
<1>4. \A r \in Ops : Status[r] = "running" => task[r] = "running"
  BY <1>3 DEF Status, AbsStatus
<1>5. Status[s] = "new" /\ outcome[s] = "none"
  BY <1>1, <1>3 DEF Status, AbsStatus, RInv, Undecided
<1>6. Status' = [Status EXCEPT ![s] = "running"]
  <2>1. \A r \in Ops : AbsStatus(r)' = IF r = s THEN "running" ELSE AbsStatus(r)
    BY <1>1, <1>3, <1>5 DEF AbsStatus
  <2> QED BY <2>1 DEF Status
<1>7. /\ guard[s] \in {"Safe", "GpuBound"}
      /\ \A r \in Ops : Status[r] = "running" =>
           guard[r] \in {"Safe", "GpuBound"} /\ ~ (guard[s] = "GpuBound" /\ guard[r] = "GpuBound")
  <2>1. guard[s] \in {"Safe", "GpuBound"}
    BY <1>1 DEF RInv, Declared
  <2>2. ASSUME NEW r \in Ops, Status[r] = "running"
        PROVE  guard[r] \in {"Safe", "GpuBound"} /\ ~ (guard[s] = "GpuBound" /\ guard[r] = "GpuBound")
    <3>1. task[r] = "running" /\ r # s
      BY <1>1, <1>4, <2>2
    <3>2. guard[r] \in {"Safe", "GpuBound"}
      BY <3>1 DEF RInv, Declared
    <3>3. ~ (r \in GpuHolders /\ s \in GpuHolders)
      BY <3>1 DEF RInv, IInv, PermitsInUse
    <3> QED BY <1>1, <3>1, <3>2, <3>3 DEF GpuHolders
  <2> QED BY <2>1, <2>2
<1>8. Cardinality({r \in Ops : Status[r] = "running"}) < Permits
  <2> DEFINE B == {r \in Ops : Status[r] = "running"}
  <2>1. B \in SUBSET Ops /\ s \notin B /\ B \cup {s} \in SUBSET Holders /\ Holders \in SUBSET Ops
    BY <1>1, <1>4 DEF Holders
  <2> HIDE DEF B
  <2>2. Cardinality(B \cup {s}) = Cardinality(B) + 1 /\ Cardinality(B) \in Nat
    BY <2>1, OneMore, OpsFinite
  <2>3. Cardinality(B \cup {s}) <= Cardinality(Holders) /\ Cardinality(Holders) \in Nat
    BY <2>1, NotMore, OpsFinite
  <2>4. Cardinality(Holders) <= Permits /\ Permits \in Nat
    BY PermitsNat DEF RInv, IInv, PermitsInUse
  <2>5. Cardinality(B) < Permits
    BY <2>2, <2>3, <2>4
  <2> QED BY <2>5 DEF B
<1>9. Abs!Next
  BY <1>1, <1>5, <1>6, <1>7, <1>8, Starts DEF Delivered
<1> QED BY <1>2, <1>9 DEF AbsStep

\* An operation ends and the buffer does not move.
LEMMA NoPass ==
    ASSUME RInv, UNCHANGED <<cursor, Delivered>>
    PROVE  Passes
<1>1. /\ cursor \in Nat /\ MaxOps \in Nat /\ cursor \in cursor .. MaxOps
      /\ cursor .. (cursor - 1) = {}
  BY ExecutorAssumption DEF ExecutorAssumption, RInv, StreamTypes
<1>2. Delivered \o Ascending({}) = Delivered
  <2>1. Ascending({}) = <<>>
    BY AscendingIs, FS_EmptySet
  <2>2. Delivered \in Seq(Ops)
    BY ConcatProperties DEF Delivered, RInv, StreamTypes
  <2> QED BY <2>1, <2>2, ConcatEmptySeq
<1>3. {s \in cursor .. (cursor' - 1) : Status'[s] = "value"} = {}
  BY <1>1
<1> QED BY <1>1, <1>2, <1>3 DEF Passes

LEMMA RefineEnd ==
    ASSUME RInv, NEW s \in Ops, TaskSkip(s) \/ TaskFinish(s) \/ TaskPanic(s)
    PROVE  StreamTypes' /\ SlotsTrue' /\ Declared' /\ Undecided' /\ AbsStep
<1>1. PICK how \in {"cancelled", "value", "panicked"}, st \in {"sent", "gone"} :
        /\ task' = [task EXCEPT ![s] = st] /\ outcome' = [outcome EXCEPT ![s] = how]
        /\ how = "cancelled" => task[s] = "armed" /\ cancelled
        /\ how # "cancelled" => task[s] = "running"
        /\ done' = IF how = "panicked" THEN done ELSE done \cup {s}
  BY DEF TaskSkip, TaskFinish, TaskPanic, Report
<1>2. /\ UNCHANGED <<next_seq, guard, submitQ, buffer, cursor, pc, current, results, received,
                     cancelled, listening>>
      /\ task \in [Ops -> TaskStates] /\ outcome \in [Ops -> Outcomes]
  BY DEF TaskSkip, TaskFinish, TaskPanic, Report, callerVars, loopVars, consumerVars, RInv, IInv,
     ControlTypes
<1>3. /\ \A r \in Ops : task'[r] = IF r = s THEN st ELSE task[r]
      /\ \A r \in Ops : outcome'[r] = IF r = s THEN how ELSE outcome[r]
      /\ task[s] \in {"armed", "running"} /\ outcome[s] = "none"
  BY <1>1, <1>2 DEF RInv, Undecided
<1>4. StreamTypes' /\ SlotsTrue' /\ Declared'
  BY <1>2, <1>3 DEF RInv, StreamTypes, SlotsTrue, Declared
<1>5. Undecided'
  <2>1. \A r \in Ops : r >= next_seq => task[r] = "absent"
    BY DEF RInv, IInv, QueueFresh
  <2>2. \A i \in 1 .. Len(submitQ) : submitQ[i] \in Ops /\ task[submitQ[i]] = "absent"
    BY DEF RInv, IInv, ControlTypes, QueueFresh
  <2>3. pc \in {"drain", "exclusive"} => current \in Ops /\ task[current] = "absent"
    BY DEF RInv, IInv, ExclusiveInHand
  <2>4. done \in SUBSET Ops
    BY DEF RInv, IInv, ControlTypes
  <2>5. \A r \in Ops : r >= next_seq' \/ task'[r] \in {"spawned", "permit", "armed", "running"}
                         => outcome'[r] = "none"
    BY <1>2, <1>3, <2>1 DEF RInv, Undecided
  <2>6. \A i \in 1 .. Len(submitQ') : outcome'[submitQ'[i]] = "none"
    BY <1>2, <1>3, <2>2 DEF RInv, Undecided
  <2>7. pc' \in {"drain", "exclusive"} => outcome'[current'] = "none"
    BY <1>2, <1>3, <2>3 DEF RInv, Undecided
  <2>8. \A r \in done' : outcome'[r] \in {"value", "cancelled"}
    BY <1>1, <1>3, <2>4 DEF RInv, Undecided
  <2> QED BY <2>5, <2>6, <2>7, <2>8 DEF Undecided
<1>6. s # current \/ pc # "exclusive"
  BY <1>3 DEF RInv, IInv, ExclusiveInHand
<1>7. Status[s] = IF task[s] = "running" THEN "running" ELSE "new"
  BY <1>3, <1>6 DEF Status, AbsStatus
<1>8. Status' = [Status EXCEPT ![s] = IF how = "value" THEN "value"
                                      ELSE IF how = "cancelled" THEN "void" ELSE "lost"]
  <2>1. \A r \in Ops : AbsStatus(r)' =
          IF r = s THEN IF how = "value" THEN "value" ELSE IF how = "cancelled" THEN "void" ELSE "lost"
          ELSE AbsStatus(r)
    BY <1>1, <1>2, <1>3 DEF AbsStatus
  <2> QED BY <2>1 DEF Status
<1>9. Passes
  BY <1>2, NoPass DEF Delivered
<1>10. guard[s] # "none"
  BY <1>3 DEF RInv, Declared
<1>11. Abs!Next
  BY <1>1, <1>2, <1>3, <1>7, <1>8, <1>9, <1>10, Settles
<1> QED BY <1>4, <1>5, <1>11 DEF AbsStep

-----------------------------------------------------------------------------
(* The loop.                                                               *)

\* A report is taken: its slot is filled and the buffer flushed.
LEMMA RefineReport ==
    ASSUME RInv, NEW s \in Ops, LoopReport(s) \/ DrainReport(s) \/ FinalReport(s)
    PROVE  StreamTypes' /\ SlotsTrue' /\ Declared' /\ Undecided' /\ AbsStep
<1> DEFINE buf == [buffer EXCEPT ![s] = SlotOf(s)]
<1>1. /\ s \in done /\ done' = done \ {s} /\ flush_buffer(buf)
      /\ pc' = pc \/ (pc = "select" /\ pc' = "ended")
      /\ UNCHANGED <<next_seq, guard, submitQ, task, outcome, current, received, cancelled, listening>>
  BY DEF LoopReport, DrainReport, FinalReport, TakeReport, callerVars, taskVars, consumerVars
<1>2. /\ buffer \in [Ops -> Slots] /\ cursor \in 0 .. MaxOps
      /\ results \in Seq(Ops) /\ received \in Seq(Ops)
  BY DEF RInv, StreamTypes
<1>3. outcome[s] \in {"value", "cancelled"}
  BY <1>1 DEF RInv, Undecided
<1>4. /\ buf \in [Ops -> Slots]
      /\ \A r \in Ops : /\ buf[r] = "Ready" => outcome[r] = "value"
                        /\ buf[r] = "Skipped" => outcome[r] = "cancelled"
  <2>1. \A r \in Ops : buf[r] = IF r = s THEN SlotOf(s) ELSE buffer[r]
    BY <1>2
  <2>2. SlotOf(s) \in Slots
    BY DEF SlotOf, Slots
  <2>3. buf \in [Ops -> Slots]
    BY <1>2, <2>2
  <2> QED BY <1>3, <2>1, <2>3 DEF SlotOf, RInv, SlotsTrue
<1>5. Status' = Status
  BY <1>1, StatusSame
<1>6. \A r \in Ops : /\ buf[r] = "Ready" => Status'[r] = "value"
                     /\ buf[r] = "Skipped" => Status'[r] = "void"
  BY <1>4, <1>5 DEF Status, AbsStatus
<1> HIDE DEF buf
<1>7. /\ Passes /\ cursor' \in 0 .. MaxOps
      /\ results' \in Seq(Ops) /\ buffer' \in [Ops -> Slots]
      /\ \A r \in Ops : buffer'[r] \in {"Skipped", "Ready"} => buffer'[r] = buf[r]
  BY <1>1, <1>2, <1>4, <1>6, FlushPasses
<1>8. StreamTypes' /\ SlotsTrue'
  BY <1>1, <1>2, <1>4, <1>7 DEF StreamTypes, SlotsTrue
<1>9. Declared' /\ Undecided'
  BY <1>1 DEF RInv, Declared, Undecided
<1> QED BY <1>1, <1>5, <1>7, <1>8, <1>9, Advances DEF AbsStep

\* The last flush.
LEMMA RefineReturn ==
    ASSUME RInv, LoopReturn
    PROVE  StreamTypes' /\ SlotsTrue' /\ Declared' /\ Undecided' /\ AbsStep
<1>1. /\ pc = "final" /\ pc' = "ended" /\ flush_buffer(buffer)
      /\ UNCHANGED <<next_seq, guard, submitQ, task, outcome, done, current, received,
                     cancelled, listening>>
  BY DEF LoopReturn, callerVars, taskVars, consumerVars
<1>2. /\ buffer \in [Ops -> Slots] /\ cursor \in 0 .. MaxOps
      /\ results \in Seq(Ops) /\ received \in Seq(Ops)
  BY DEF RInv, StreamTypes
<1>3. Status' = Status
  BY <1>1, StatusSame
<1>4. \A r \in Ops : /\ buffer[r] = "Ready" => Status'[r] = "value"
                     /\ buffer[r] = "Skipped" => Status'[r] = "void"
  BY <1>3 DEF Status, AbsStatus, RInv, SlotsTrue
<1>5. /\ Passes /\ cursor' \in 0 .. MaxOps
      /\ results' \in Seq(Ops) /\ buffer' \in [Ops -> Slots]
      /\ \A r \in Ops : buffer'[r] \in {"Skipped", "Ready"} => buffer'[r] = buffer[r]
  BY <1>1, <1>2, <1>4, FlushPasses
<1>6. StreamTypes' /\ SlotsTrue' /\ Declared' /\ Undecided'
  BY <1>1, <1>2, <1>5 DEF RInv, StreamTypes, SlotsTrue, Declared, Undecided
<1> QED BY <1>1, <1>3, <1>5, <1>6, Advances DEF AbsStep

LEMMA TailOf ==
    ASSUME RInv, submitQ # <<>>
    PROVE  /\ Head(submitQ) \in Ops /\ task[Head(submitQ)] = "absent"
           /\ outcome[Head(submitQ)] = "none"
           /\ \A i \in 1 .. Len(Tail(submitQ)) :
                 /\ Tail(submitQ)[i] \in Ops /\ Head(submitQ) # Tail(submitQ)[i]
                 /\ guard[Tail(submitQ)[i]] # "none" /\ outcome[Tail(submitQ)[i]] = "none"
<1>1. submitQ \in Seq(Ops) /\ Len(submitQ) \in Nat /\ 1 \in 1 .. Len(submitQ) /\ Head(submitQ) = submitQ[1]
  BY DEF RInv, IInv, ControlTypes
<1>2. \A i \in 1 .. Len(Tail(submitQ)) : Tail(submitQ)[i] = submitQ[i + 1] /\ i + 1 \in 1 .. Len(submitQ)
  BY <1>1
<1>3. /\ Head(submitQ) \in Ops /\ task[Head(submitQ)] = "absent"
      /\ \A i \in 1 .. Len(Tail(submitQ)) : Tail(submitQ)[i] \in Ops /\ Head(submitQ) < Tail(submitQ)[i]
  BY QueueTail DEF RInv, IInv
<1>4. \A r \in Ops : r \in Int
  BY DEF Ops
<1>5. \A i \in 1 .. Len(Tail(submitQ)) : Head(submitQ) # Tail(submitQ)[i]
  BY <1>3, <1>4
<1> QED BY <1>1, <1>2, <1>3, <1>5 DEF RInv, Declared, Undecided

LEMMA RefineBreak ==
    ASSUME RInv, LoopBreak
    PROVE  StreamTypes' /\ SlotsTrue' /\ Declared' /\ Undecided' /\ AbsStep
<1>1. /\ pc = "select" /\ pc' = "final"
      /\ (submitQ' = submitQ) \/ (submitQ # <<>> /\ submitQ' = Tail(submitQ))
      /\ UNCHANGED <<next_seq, guard, task, outcome, done, current, buffer, cursor, results, received,
                     cancelled, listening>>
  BY DEF LoopBreak, callerVars, taskVars, consumerVars
<1>2. \A i \in 1 .. Len(submitQ') : guard[submitQ'[i]] # "none" /\ outcome[submitQ'[i]] = "none"
  BY <1>1, TailOf DEF RInv, Declared, Undecided
<1>3. StreamTypes' /\ SlotsTrue' /\ Declared' /\ Undecided'
  BY <1>1, <1>2 DEF RInv, StreamTypes, SlotsTrue, Declared, Undecided
<1>4. Status' = Status
  BY <1>1, StatusSame
<1> QED BY <1>1, <1>3, <1>4, Stutters DEF AbsStep, Delivered

LEMMA RefineTaken ==
    ASSUME RInv, LoopSpawn \/ LoopExclusive
    PROVE  StreamTypes' /\ SlotsTrue' /\ Declared' /\ Undecided' /\ AbsStep
<1> DEFINE h == Head(submitQ)
<1>1. /\ pc = "select" /\ submitQ # <<>> /\ submitQ' = Tail(submitQ)
      /\ buffer' = [buffer EXCEPT ![h] = "Pending"]
      /\ \/ /\ task' = [task EXCEPT ![h] = "spawned"] /\ guard[h] \in {"Safe", "GpuBound"}
            /\ pc' = pc /\ current' = current
         \/ task' = task /\ guard[h] = "Exclusive" /\ pc' = "drain" /\ current' = h
      /\ UNCHANGED <<next_seq, guard, outcome, done, cursor, results, received, cancelled, listening>>
  BY DEF LoopSpawn, LoopExclusive, callerVars, taskVars, consumerVars
<1>2. /\ h \in Ops /\ task[h] = "absent" /\ outcome[h] = "none"
      /\ \A i \in 1 .. Len(submitQ') : guard[submitQ'[i]] # "none" /\ outcome[submitQ'[i]] = "none"
  BY <1>1, TailOf
<1>3. buffer \in [Ops -> Slots] /\ task \in [Ops -> TaskStates]
  BY DEF RInv, StreamTypes, IInv, ControlTypes
<1> HIDE DEF h
<1>4. /\ buffer' \in [Ops -> Slots]
      /\ \A r \in Ops : buffer'[r] = IF r = h THEN "Pending" ELSE buffer[r]
      /\ \A r \in Ops : r # h => task'[r] = task[r]
      /\ task'[h] \in {"absent", "spawned"}
  BY <1>1, <1>2, <1>3 DEF Slots
<1>5. StreamTypes' /\ SlotsTrue'
  BY <1>1, <1>4 DEF RInv, StreamTypes, SlotsTrue
<1>6. Declared'
  BY <1>1, <1>2, <1>4 DEF RInv, Declared
<1>7. Undecided'
  BY <1>1, <1>2, <1>4 DEF RInv, Undecided
<1>8. Status' = Status
  BY <1>1, <1>2, <1>4, StatusSame
<1> QED BY <1>1, <1>5, <1>6, <1>7, <1>8, Stutters DEF AbsStep, Delivered

LEMMA RefineExclusiveStart ==
    ASSUME RInv, ExclusiveStart
    PROVE  StreamTypes' /\ SlotsTrue' /\ Declared' /\ Undecided' /\ AbsStep
<1>1. /\ pc = "drain" /\ in_flight = 0 /\ ~cancelled /\ pc' = "exclusive"
      /\ UNCHANGED <<next_seq, guard, submitQ, task, outcome, done, current, buffer, cursor,
                     results, received, cancelled, listening>>
  BY DEF ExclusiveStart, callerVars, taskVars, consumerVars
<1>2. StreamTypes' /\ SlotsTrue' /\ Declared' /\ Undecided'
  BY <1>1 DEF RInv, StreamTypes, SlotsTrue, Declared, Undecided
<1>3. /\ current \in Ops /\ guard[current] = "Exclusive" /\ outcome[current] = "none"
      /\ task[current] = "absent"
  BY <1>1 DEF RInv, IInv, ExclusiveInHand, Declared, Undecided
<1>4. \A r \in Ops : task[r] # "running"
  <2> SUFFICES ASSUME NEW r \in Ops PROVE task[r] # "running"
    OBVIOUS
  <2>1. r \notin Outstanding
    BY <1>1, NothingOut DEF RInv
  <2> QED BY <2>1 DEF Outstanding
<1>5. \A r \in Ops : Status[r] # "running"
  BY <1>1, <1>4 DEF Status, AbsStatus
<1>6. Status[current] = "new"
  BY <1>1, <1>3 DEF Status, AbsStatus
<1>7. Status' = [Status EXCEPT ![current] = "running"]
  <2>1. \A r \in Ops : AbsStatus(r)' = IF r = current THEN "running" ELSE AbsStatus(r)
    BY <1>1, <1>3 DEF AbsStatus
  <2> QED BY <2>1 DEF Status
<1>8. Cardinality({r \in Ops : Status[r] = "running"}) < Permits
  <2>1. {r \in Ops : Status[r] = "running"} = {}
    BY <1>5
  <2>2. Cardinality({}) = 0
    BY FS_EmptySet
  <2> QED BY <2>1, <2>2, PermitsNat
<1>9. Abs!Next
  BY <1>1, <1>3, <1>5, <1>6, <1>7, <1>8, Starts DEF Delivered
<1> QED BY <1>2, <1>9 DEF AbsStep

\* The exclusive operation in hand ends: nobody else's status moves.
LEMMA RefineExclusiveEnd ==
    ASSUME RInv, ExclusiveSkip \/ ExclusiveFinish \/ ExclusivePanic
    PROVE  StreamTypes' /\ SlotsTrue' /\ Declared' /\ Undecided' /\ AbsStep
<1> DEFINE c == current
           Buf(slot) == [buffer EXCEPT ![current] = slot]
<1>1. PICK how \in {"cancelled", "value", "panicked"} :
        /\ outcome' = [outcome EXCEPT ![c] = how]
        /\ how = "cancelled" => pc = "drain" /\ cancelled /\ flush_buffer(Buf("Skipped"))
        /\ how = "value" => pc = "exclusive" /\ flush_buffer(Buf("Ready"))
        /\ how = "panicked" => pc = "exclusive" /\ UNCHANGED <<buffer, cursor, results>>
  BY DEF ExclusiveSkip, ExclusiveFinish, ExclusivePanic
<1>2. /\ UNCHANGED <<next_seq, guard, submitQ, task, done, received, cancelled, listening>>
      /\ pc \in {"drain", "exclusive"} /\ pc' \notin {"drain", "exclusive"}
      /\ outcome \in [Ops -> Outcomes]
  BY DEF ExclusiveSkip, ExclusiveFinish, ExclusivePanic, callerVars, consumerVars, RInv, IInv,
     ControlTypes
<1>3. /\ c \in Ops /\ guard[c] = "Exclusive" /\ outcome[c] = "none" /\ task[c] = "absent" /\ c < next_seq
      /\ \A i \in 1 .. Len(submitQ) : c < submitQ[i]
  BY <1>2 DEF RInv, IInv, ExclusiveInHand, Declared, Undecided
<1>4. \A r \in Ops : outcome'[r] = IF r = c THEN how ELSE outcome[r]
  BY <1>1, <1>2
<1>5. Declared'
  BY <1>2 DEF RInv, Declared
<1>6. Undecided'
  <2>1. \A r \in Ops : r \in Int
    BY DEF Ops
  <2>2. next_seq \in Int /\ done \in SUBSET Ops /\ \A i \in 1 .. Len(submitQ) : submitQ[i] \in Ops
    BY ExecutorAssumption DEF ExecutorAssumption, RInv, IInv, ControlTypes
  <2>3. \A i \in 1 .. Len(submitQ) : submitQ[i] # c
    BY <1>3, <2>1, <2>2
  <2>4. \A r \in Ops : r >= next_seq => r # c
    BY <1>3, <2>1, <2>2
  <2>5. c \notin done
    BY <1>3 DEF RInv, IInv, ReportsFollow
  <2>6. \A r \in Ops : r >= next_seq' \/ task'[r] \in {"spawned", "permit", "armed", "running"}
                         => outcome'[r] = "none"
    BY <1>2, <1>3, <1>4, <2>4 DEF RInv, Undecided
  <2>7. \A i \in 1 .. Len(submitQ') : outcome'[submitQ'[i]] = "none"
    BY <1>2, <1>4, <2>2, <2>3 DEF RInv, Undecided
  <2>8. \A r \in done' : outcome'[r] \in {"value", "cancelled"}
    BY <1>2, <1>4, <2>2, <2>5 DEF RInv, Undecided
  <2> QED BY <1>2, <2>6, <2>7, <2>8 DEF Undecided
<1>7. Status[c] = IF pc = "exclusive" THEN "running" ELSE "new"
  BY <1>2, <1>3 DEF Status, AbsStatus
<1>8. Status' = [Status EXCEPT ![c] = IF how = "value" THEN "value"
                                      ELSE IF how = "cancelled" THEN "void" ELSE "lost"]
  <2>1. \A r \in Ops : AbsStatus(r)' =
          IF r = c THEN IF how = "value" THEN "value" ELSE IF how = "cancelled" THEN "void" ELSE "lost"
          ELSE AbsStatus(r)
    BY <1>1, <1>2, <1>3, <1>4 DEF AbsStatus
  <2> QED BY <2>1 DEF Status
<1>9. /\ buffer \in [Ops -> Slots] /\ cursor \in 0 .. MaxOps
      /\ results \in Seq(Ops) /\ received \in Seq(Ops)
  BY DEF RInv, StreamTypes
<1>10. Passes /\ StreamTypes' /\ SlotsTrue'
  <2>1. CASE how = "panicked"
    <3>1. StreamTypes' /\ SlotsTrue'
      BY <1>1, <1>2, <1>3, <1>4, <2>1 DEF RInv, StreamTypes, SlotsTrue
    <3>2. Passes
      BY <1>1, <1>2, <2>1, NoPass DEF Delivered
    <3> QED BY <3>1, <3>2
  <2>2. ASSUME NEW slot \in {"Skipped", "Ready"}, flush_buffer(Buf(slot)),
               slot = "Ready" => how = "value", slot = "Skipped" => how = "cancelled"
        PROVE  Passes /\ StreamTypes' /\ SlotsTrue'
    <3>1. /\ \A r \in Ops : Buf(slot)[r] = IF r = c THEN slot ELSE buffer[r]
          /\ Buf(slot) \in [Ops -> Slots]
      BY <1>3, <1>9 DEF Slots
    <3>2. \A r \in Ops : /\ Buf(slot)[r] = "Ready" => outcome'[r] = "value"
                         /\ Buf(slot)[r] = "Skipped" => outcome'[r] = "cancelled"
      BY <1>4, <2>2, <3>1 DEF RInv, SlotsTrue
    <3>3. \A r \in Ops : /\ Buf(slot)[r] = "Ready" => Status'[r] = "value"
                         /\ Buf(slot)[r] = "Skipped" => Status'[r] = "void"
      BY <3>2 DEF Status, AbsStatus
    <3> HIDE DEF Buf
    <3>4. /\ Passes /\ cursor' \in 0 .. MaxOps
          /\ results' \in Seq(Ops) /\ buffer' \in [Ops -> Slots]
          /\ \A r \in Ops : buffer'[r] \in {"Skipped", "Ready"} => buffer'[r] = Buf(slot)[r]
      BY <1>2, <1>9, <2>2, <3>1, <3>3, FlushPasses
    <3> QED BY <1>2, <1>9, <3>2, <3>4 DEF StreamTypes, SlotsTrue
  <2> HIDE DEF Buf
  <2> QED BY <1>1, <2>1, <2>2
<1>11. Abs!Next
  BY <1>1, <1>2, <1>3, <1>7, <1>8, <1>10, Settles
<1> QED BY <1>5, <1>6, <1>10, <1>11 DEF AbsStep

-----------------------------------------------------------------------------
(* The theorem.                                                            *)

LEMMA RefineStep ==
    ASSUME RInv, [Next]_vars
    PROVE  RInv' /\ [Abs!Next]_(Abs!vars)
<1>1. IInv'
  BY ExecutorStep DEF RInv
<1>2. CASE UNCHANGED vars
  <2>1. /\ UNCHANGED <<next_seq, guard, submitQ, task, outcome, done, buffer, cursor, pc, current,
                       results, received, cancelled, listening>>
        /\ results' \in Seq(Ops) /\ received' \in Seq(Ops)
    BY <1>2 DEF vars, callerVars, taskVars, loopVars, consumerVars, RInv, StreamTypes
  <2> QED BY <1>1, <2>1, AsideKeeps, Stutters DEF RInv, Delivered
<1>3. CASE Next
  <2>1. StreamTypes' /\ SlotsTrue' /\ Declared' /\ Undecided' /\ AbsStep
    <3>1. CASE Submit
      BY <3>1, RefineAside, RefineSubmit DEF Submit
    <3>2. CASE Close \/ CancelFlag \/ CancelClose \/ NextResult \/ DropExecutor
      BY <3>2, RefineAside
    <3>3. ASSUME NEW s \in Ops, TaskStep(s)
          PROVE  StreamTypes' /\ SlotsTrue' /\ Declared' /\ Undecided' /\ AbsStep
      BY <3>3, RefineMove, RefineStart, RefineEnd DEF TaskStep
    <3>4. CASE LoopStep
      BY <3>4, RefineReport, RefineReturn, RefineBreak, RefineTaken, RefineExclusiveStart,
         RefineExclusiveEnd, RefineAside DEF LoopStep
    <3> QED BY <1>3, <3>1, <3>2, <3>3, <3>4 DEF Next
  <2> QED BY <1>1, <2>1 DEF RInv, AbsStep
<1> QED BY <1>2, <1>3

\* The promises of the module comment and of ConcurrencyGuard are kept, for any
\* threads, operations and permits, whatever panics, is cancelled or dropped:
\* results in submission order, none skipped or twice, guards respected.
THEOREM ToolStreamImplemented == Spec => ImplementsToolStream
<1>1. Init => RInv /\ Abs!Init
  BY RefineInit
<1>2. RInv /\ [Next]_vars => RInv' /\ [Abs!Next]_(Abs!vars)
  BY RefineStep
<1> QED BY <1>1, <1>2, PTL DEF Spec, ImplementsToolStream, Abs!Spec
=============================================================================
