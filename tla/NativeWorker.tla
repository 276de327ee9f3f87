---------------------------- MODULE NativeWorker ----------------------------
(***************************************************************************)
(* The three bounded native workers: a thread that owns a model and its     *)
(* memory reservation, handles that are cloned freely, a queue between      *)
(* them, an unload that never waits and a shutdown that does                *)
(* (src/src/speech/worker.rs, src/src/decision/worker.rs,                   *)
(* src/src/diarization/worker.rs, stream.rs and nemo.rs).                   *)
(*                                                                          *)
(* They are one design with three orders of doing things, and the order is  *)
(* what can be wrong: each worker is a list of steps (Program, Leave), each *)
(* unload another (Unload), one shared access a step.                       *)
(***************************************************************************)
EXTENDS Integers, Sequences, FiniteSets, Functions

CONSTANTS
    Kinds,      \* the workers to model, among speech, decision, diarizer
    Callers,    \* threads of the application
    Streamers,  \* those that open diarization streams too
    Nobody,
    Cap,        \* queue_capacity; the diarizer's queue holds 1
    PcmCap,     \* blocks the queue of a stream holds
    MaxBlocks   \* bound: blocks a stream accepts

ASSUME WorkerAssumption ==
    /\ Kinds \subseteq {"speech", "decision", "diarizer"}
    /\ Nobody \notin Callers /\ Streamers \subseteq Callers
    /\ Cap \in Nat \ {0} /\ PcmCap \in Nat \ {0} /\ MaxBlocks \in Nat

VARIABLES
    kind,     \* which worker this is
    loader,   \* the thread in Runtime::load_*: waiting, refused, failed, loaded
    handles,  \* none, held, dropping (Inner::drop runs), gone
    stop,
    status,   \* up (Ready or Running), stopping, unloaded
    active,   \* the token of the job at work is published
    busy,     \* the diarizer's slot
    queue,    \* jobs sent and not taken
    open,     \* the worker still has the receiving end
    reserved, \* the memory reservation is held
    todo,     \* the steps the worker has before it
    job,      \* the job it took
    result,   \* what came of it
    closing,  \* the steps an unload or shutdown in progress has before it
    closed,   \* none, unloaded, shutdown: what has returned
    call,     \* what each caller is at
    token,    \* its options still pass their check: not cancelled, not late
    reply,    \* what its reply channel holds
    stream    \* its diarization stream

worker == <<open, reserved, todo, job, result>>
shared == <<stop, status, active, busy, queue>>
host   == <<kind, loader, handles, closing, closed>>
asked  == <<call, token, reply, stream>>
vars   == <<worker, shared, host, asked>>

Outcomes == {"none", "ok", "error", "panic"}
NoJob == [who |-> Nobody, dead |-> FALSE, live |-> FALSE]
Jobs == [who : Callers \cup {Nobody}, dead : BOOLEAN, live : BOOLEAN]
NoStream == [pcm |-> 0, accepted |-> 0, eaten |-> 0, finish |-> FALSE, end |-> "none"]

\* What a worker does between taking a job and looking for the next.
Program ==
    CASE kind = "speech" ->
           <<"arm", "recheck", "running", "check", "run", "verify", "disarm", "answer", "ready">>
      [] kind = "decision" ->
           <<"refuse", "running", "arm", "recheck", "check", "run", "verify", "disarm",
             "amend", "answer", "ready">>
      [] kind = "diarizer" ->
           <<"arm", "recheck", "running", "run", "verify", "disarm", "free", "ready", "answer">>

\* Variant: the flag is not read again once the token is published.
ProgramUnchecked == SelectSeq(Program, LAMBDA step : step # "recheck")
\* Variant: the slot is given back before the kernel runs.
ProgramFreesEarly == SelectSeq(<<"free">> \o Program, LAMBDA step : step # "free" \/ kind = "diarizer")
Steps == Program

\* And once its loop is over.
Leave == IF kind = "decision" THEN <<"release", "stop", "gone", "drain", "hangup">>
                              ELSE <<"hangup", "release", "gone">>
\* Variant: the queue stays with the thread.
LeaveOpen == SelectSeq(Leave, LAMBDA step : step \notin {"hangup", "drain"})
\* Variant: the status is set before the reservation is dropped.
LeaveEarly == <<"gone">> \o SelectSeq(Leave, LAMBDA step : step # "gone")
Leaving == Leave

\* Unload, and what the drop of the last handle does.
Unload == IF kind = "diarizer" THEN <<"stop", "stopping", "cancel">>
                               ELSE <<"stop", "cancel", "stopping">>
OnDrop == CASE kind = "speech" -> <<"stop">>
            [] kind = "decision" -> <<"stop", "cancel">>
            [] kind = "diarizer" -> Unload

Room == IF kind = "diarizer" THEN 1 ELSE Cap
LiveSteps == {"open", "look", "poll", "guard", "wait", "push", "flush"}
AtWork == {"run"} \cup LiveSteps

TypeOK ==
    /\ kind \in Kinds
    /\ loader \in {"waiting", "refused", "failed", "loaded"}
    /\ handles \in {"none", "held", "dropping", "gone"}
    /\ status \in {"up", "stopping", "unloaded"}
    /\ \A b \in {stop, active, busy, open, reserved} : b \in BOOLEAN
    /\ queue \in Seq(Jobs) /\ Len(queue) <= Room
    /\ job \in Jobs /\ result \in Outcomes
    /\ closed \in {"none", "unloaded", "shutdown"}
    /\ token \in [Callers -> BOOLEAN]
    /\ reply \in [Callers -> Outcomes]
    /\ \A c \in Callers :
          /\ call[c] \in {"out", "asked", "claimed", "sent", "looking",
                          "opening", "open", "finishing"}
          /\ stream[c].pcm \in 0 .. PcmCap
          /\ stream[c].accepted \in 0 .. MaxBlocks /\ stream[c].eaten \in 0 .. MaxBlocks

Init ==
    /\ kind \in Kinds
    /\ loader = "waiting" /\ handles = "none"
    /\ stop = FALSE /\ status = "up" /\ active = FALSE /\ busy = FALSE /\ queue = <<>>
    /\ open = TRUE /\ reserved = TRUE /\ todo = <<"load">> /\ job = NoJob /\ result = "none"
    /\ closing = <<>> /\ closed = "none"
    /\ call = [c \in Callers |-> "out"] /\ token = [c \in Callers |-> TRUE]
    /\ reply = [c \in Callers |-> "none"] /\ stream = [c \in Callers |-> NoStream]

----------------------------------------------------------------------------
(* Tokens and answers.                                                      *)

\* The options of a job fail their check: cancelled, or out of time.
Dead(j) == IF j.who = Nobody THEN j.dead ELSE ~token[j.who]

\* The worker's or the unloader's cancel of the job at work.
Trip ==
    IF job.who = Nobody
    THEN job' = [job EXCEPT !.dead = TRUE] /\ UNCHANGED token
    ELSE token' = [token EXCEPT ![job.who] = FALSE] /\ UNCHANGED job

\* Jobs are answered on the channel of their caller, if it still listens.  A
\* stream's end is kept where its owner looks for it.
Answered(jobs, r) ==
    [c \in Callers |-> IF \E j \in jobs : j.who = c /\ (~j.live \/ call[c] = "opening")
                       THEN r ELSE reply[c]]
Tell(r) ==
    /\ reply' = IF job.live THEN reply ELSE Answered({job}, r)
    /\ stream' = [c \in Callers |->
         IF job.live /\ job.who = c THEN [stream[c] EXCEPT !.end = r] ELSE stream[c]]

\* The caller leaves its job behind.
Orphaned(c, j) ==
    IF j.who = c THEN [j EXCEPT !.who = Nobody, !.dead = ~token[c]] ELSE j
Abandon(c) ==
    /\ queue' = [i \in 1 .. Len(queue) |-> Orphaned(c, queue[i])]
    /\ job' = Orphaned(c, job)

----------------------------------------------------------------------------
(* The worker, one step at a time.                                          *)

At(step) == todo # <<>> /\ Head(todo) = step
Done == todo' = IF Tail(todo) = <<>> THEN <<"top">> ELSE Tail(todo)

LoadEnds ==
    /\ At("load")
    /\ \/ loader' = "loaded" /\ handles' = "held" /\ todo' = <<"top">>
       \/ loader' = "refused" /\ todo' = Leaving /\ UNCHANGED handles
    /\ UNCHANGED <<open, reserved, job, result, shared, kind, closing, closed, asked>>

\* A failed load returns once the worker has let go of everything.
LoaderReturns ==
    /\ loader = "refused" /\ status = "unloaded"
    /\ loader' = "failed"
    /\ UNCHANGED <<worker, shared, kind, handles, closing, closed, asked>>

Top ==
    /\ At("top")
    /\ todo' = IF stop THEN Leaving ELSE <<"next">>
    /\ UNCHANGED <<open, reserved, job, result, shared, host, asked>>

\* recv_timeout: a job, nothing for 20 ms, or no handle left.
NextJob ==
    /\ At("next")
    /\ \/ /\ queue # <<>>
          /\ job' = Head(queue) /\ queue' = Tail(queue)
          /\ result' = "none" /\ todo' = Steps
       \/ queue = <<>> /\ handles # "gone" /\ todo' = <<"top">> /\ UNCHANGED <<job, result, queue>>
       \/ queue = <<>> /\ handles = "gone" /\ todo' = Leaving /\ UNCHANGED <<job, result, queue>>
    /\ UNCHANGED <<open, reserved, stop, status, active, busy, host, asked>>

\* The decision worker answers a job it took while stopping, and leaves.
RefuseStep ==
    /\ At("refuse")
    /\ IF stop THEN Tell("error") /\ todo' = Leaving /\ job' = NoJob
               ELSE Done /\ UNCHANGED <<job, reply, stream>>
    /\ UNCHANGED <<open, reserved, result, shared, host, call, token>>

Arm ==
    /\ \/ At("arm") /\ active' = TRUE
       \/ At("disarm") /\ active' = FALSE
    /\ Done
    /\ UNCHANGED <<open, reserved, job, result, stop, status, busy, queue, host, asked>>

Recheck ==
    /\ At("recheck") /\ Done
    /\ IF stop THEN Trip ELSE UNCHANGED <<job, token>>
    /\ UNCHANGED <<open, reserved, result, shared, host, call, reply, stream>>

\* Running and ready are not set over stopping; the decision worker's State::set
\* reads the flag instead.
SetStatus ==
    /\ At("running") \/ At("ready")
    /\ Done
    /\ status' = CASE kind # "decision" /\ status = "stopping" -> status
                   [] kind = "decision" /\ stop -> IF At("ready") THEN status ELSE "stopping"
                   [] OTHER -> "up"
    /\ UNCHANGED <<open, reserved, job, result, stop, active, busy, queue, host, asked>>

Check ==
    /\ At("check")
    /\ IF Dead(job)
       THEN result' = "error" /\ todo' = Tail(Tail(Tail(todo)))
       ELSE Done /\ UNCHANGED result
    /\ UNCHANGED <<open, reserved, job, shared, host, asked>>

\* The kernel.  It stops between two native calls when its token is dead.  A
\* panic unwinds the loop; the diarizer catches it around the kernel and
\* leaves after its answer.
Kernel ==
    /\ At("run") /\ ~job.live
    /\ \/ result' \in {"ok", "error"} /\ Done /\ UNCHANGED <<job, reply>>
       \/ kind = "diarizer" /\ result' = "panic" /\ Done /\ UNCHANGED <<job, reply>>
       \/ /\ kind # "diarizer" /\ result' = "none" /\ todo' = Leaving
          /\ reply' = Answered({job}, "error") /\ job' = NoJob
    /\ UNCHANGED <<open, reserved, shared, host, call, token, stream>>

Verify ==
    /\ At("verify") /\ Done
    /\ result' = IF result = "ok" /\ (Dead(job) \/ (stop /\ kind # "diarizer"))
                 THEN "error" ELSE result
    /\ UNCHANGED <<open, reserved, job, shared, host, asked>>

Amend ==
    /\ At("amend") /\ Done
    /\ result' = IF stop THEN "error" ELSE result
    /\ UNCHANGED <<open, reserved, job, shared, host, asked>>

Free ==
    /\ At("free") /\ Done /\ busy' = FALSE
    /\ UNCHANGED <<open, reserved, job, result, stop, status, active, queue, host, asked>>

AnswerStep ==
    /\ At("answer")
    /\ Tell(IF result = "panic" THEN "error" ELSE result)
    /\ IF result = "panic" THEN todo' = Leaving ELSE Done
    /\ job' = NoJob /\ result' = "none"
    /\ UNCHANGED <<open, reserved, shared, host, call, token>>

\* Leaving: the receiver goes and with it the jobs in the queue, the
\* reservation is given back, the status tells it to those who wait.
Depart ==
    /\ \/ At("hangup") /\ open' = FALSE /\ queue' = <<>>
             /\ reply' = Answered(Range(queue), "error")
             /\ UNCHANGED <<reserved, stop, status>>
       \/ At("drain") /\ queue' = <<>> /\ reply' = Answered(Range(queue), "error")
             /\ UNCHANGED <<open, reserved, stop, status>>
       \/ At("release") /\ reserved' = FALSE /\ UNCHANGED <<open, queue, reply, stop, status>>
       \/ At("stop") /\ stop' = TRUE /\ UNCHANGED <<open, queue, reply, reserved, status>>
       \/ At("gone") /\ status' = "unloaded" /\ UNCHANGED <<open, queue, reply, reserved, stop>>
    /\ todo' = Tail(todo)
    /\ UNCHANGED <<job, result, active, busy, host, call, token, stream>>

----------------------------------------------------------------------------
(* A stream at work (run_live).  The receiver of its blocks lives in it.    *)

Then(step) == todo' = <<step>> \o Tail(todo)
Ends(r) == result' = r /\ Done
Eats(c) == stream' = [stream EXCEPT ![c].pcm = @ - 1]
Ready(r) == reply' = Answered({job}, r)

Live ==
    /\ todo # <<>> /\ job.live
    /\ LET c == job.who
           some == c # Nobody /\ stream[c].pcm > 0
       IN  \/ At("run") /\ Then("open") /\ UNCHANGED <<result, reply, stream>>
           \/ At("open") /\ Then("look") /\ Ready("ok") /\ UNCHANGED <<result, stream>>
           \/ At("open") /\ Ends("error") /\ Ready("error") /\ UNCHANGED stream
           \/ At("open") /\ Ends("panic") /\ Ready("error") /\ UNCHANGED stream
           \/ At("look") /\ ~Dead(job) /\ Then("poll") /\ UNCHANGED <<result, reply, stream>>
           \/ /\ Head(todo) \in {"look", "push", "flush"} /\ Dead(job)
              /\ Ends("error") /\ UNCHANGED <<reply, stream>>
           \/ /\ Head(todo) \in {"poll", "wait"} /\ some /\ Eats(c)
              /\ Then("push") /\ UNCHANGED <<result, reply>>
           \/ /\ Head(todo) \in {"poll", "wait"} /\ c = Nobody
              /\ Ends("error") /\ UNCHANGED <<reply, stream>>
           \/ /\ At("poll") /\ c # Nobody /\ ~some
              /\ Then("guard") /\ UNCHANGED <<result, reply, stream>>
           \/ At("wait") /\ c # Nobody /\ ~some /\ Then("look") /\ UNCHANGED <<result, reply, stream>>
           \/ /\ At("guard")
              /\ Then(IF c # Nobody /\ stream[c].finish THEN "flush" ELSE "wait")
              /\ UNCHANGED <<result, reply, stream>>
           \/ /\ At("push") /\ Then("look") /\ UNCHANGED <<result, reply>>
              /\ stream' = IF c = Nobody THEN stream ELSE [stream EXCEPT ![c].eaten = @ + 1]
           \/ At("flush") /\ Ends("ok") /\ UNCHANGED <<reply, stream>>
           \/ /\ Head(todo) \in {"push", "flush"}
              /\ Ends("error") \/ Ends("panic")
              /\ UNCHANGED <<reply, stream>>
    /\ UNCHANGED <<open, reserved, job, shared, host, call, token>>

Worker ==
    \/ LoadEnds \/ Top \/ NextJob \/ RefuseStep \/ Arm \/ Recheck \/ SetStatus \/ Check
    \/ Kernel \/ Live \/ Verify \/ Amend \/ Free \/ AnswerStep \/ Depart

----------------------------------------------------------------------------
(* The callers.                                                             *)

Moves(c, where) == call' = [call EXCEPT ![c] = where]
\* A call is over: with a result, Busy, Unloaded, Cancelled or DeadlineExceeded.
Returns(c) ==
    /\ Moves(c, "out")
    /\ token' = [token EXCEPT ![c] = TRUE] /\ reply' = [reply EXCEPT ![c] = "none"]
Idle(c) == call[c] = "out"

\* The options pass their check and the worker takes work: otherwise the call
\* is over before it began.
Begin(c) ==
    /\ Idle(c) /\ handles = "held" /\ ~stop
    /\ Moves(c, "asked")
    /\ UNCHANGED <<worker, shared, host, token, reply, stream>>

\* Diarizer::claim: the slot is taken with a compare and exchange.
Claim(c) ==
    /\ kind = "diarizer" /\ call[c] = "asked"
    /\ \/ busy /\ Returns(c)
       \/ ~busy /\ Moves(c, "claimed") /\ UNCHANGED <<token, reply>>
    /\ busy' = TRUE
    /\ UNCHANGED <<worker, stop, status, active, queue, host, stream>>

Sends(c, live) ==
    /\ Len(queue) < Room
    /\ queue' = Append(queue, [who |-> c, dead |-> FALSE, live |-> live])
    /\ UNCHANGED busy

\* try_send.  The diarizer gives its slot back on any failure.
Send(c, live) ==
    /\ call[c] = IF kind = "diarizer" THEN "claimed" ELSE "asked"
    /\ live => kind = "diarizer" /\ c \in Streamers
    /\ \/ /\ open /\ Sends(c, live)
          /\ Moves(c, IF live THEN "opening" ELSE IF kind = "diarizer" THEN "looking" ELSE "sent")
          /\ UNCHANGED <<token, reply>>
       \/ /\ ~open \/ Len(queue) >= Room
          /\ Returns(c) /\ busy' = (busy /\ kind # "diarizer") /\ UNCHANGED queue
    /\ UNCHANGED <<worker, stop, status, active, host, stream>>

\* The caller cancels, or its deadline passes, once the job is sent.
Expire(c) ==
    /\ call[c] \notin {"out", "asked", "claimed"} /\ token[c]
    /\ token' = [token EXCEPT ![c] = FALSE]
    /\ UNCHANGED <<worker, shared, host, call, reply, stream>>

\* An answer, or the channel closed without one.
Receive(c) ==
    /\ call[c] = "sent" /\ reply[c] # "none" /\ Returns(c)
    /\ UNCHANGED <<worker, shared, host, stream>>

GivesUp(c) == Returns(c) /\ Abandon(c)
WaitsOn(c, where) == Moves(c, where) /\ UNCHANGED <<job, queue, token, reply>>

\* Nothing yet: the flag is read, then the options (the diarizer reads no
\* flag, its worker answers).
Timeout(c) ==
    /\ call[c] = "sent" /\ reply[c] = "none"
    /\ IF stop /\ kind # "diarizer" THEN GivesUp(c) ELSE WaitsOn(c, "looking")
    /\ UNCHANGED <<open, reserved, todo, result, stop, status, active, busy, host, stream>>
ReadToken(c) ==
    /\ call[c] = "looking"
    /\ IF token[c] THEN WaitsOn(c, "sent") ELSE GivesUp(c)
    /\ UNCHANGED <<open, reserved, todo, result, stop, status, active, busy, host, stream>>

\* start_stream returns a stream, or what ready said.
Opened(c) ==
    /\ call[c] = "opening" /\ reply[c] # "none"
    /\ \/ reply[c] = "error" /\ Returns(c)
             /\ stream' = [stream EXCEPT ![c] = NoStream]
       \/ /\ reply[c] = "ok" /\ Moves(c, "open") /\ UNCHANGED <<token, stream>>
          /\ reply' = [reply EXCEPT ![c] = "none"]
    /\ job' = IF reply[c] = "error" THEN Orphaned(c, job) ELSE job
    /\ UNCHANGED <<open, reserved, todo, result, shared, host>>

\* try_push takes a block while the stream is active and there is room.
Push(c) ==
    /\ call[c] = "open" /\ stream[c].end = "none" /\ ~stream[c].finish /\ token[c]
    /\ job.who = c /\ Head(todo) \in LiveSteps
    /\ stream[c].pcm < PcmCap /\ stream[c].accepted < MaxBlocks
    /\ stream' = [stream EXCEPT ![c].pcm = @ + 1, ![c].accepted = @ + 1]
    /\ UNCHANGED <<worker, shared, host, call, token, reply>>

\* finish stops admission and waits for the end, without a timeout.
Finish(c) ==
    /\ call[c] = "open" /\ Moves(c, "finishing")
    /\ stream' = [stream EXCEPT ![c].finish = @ \/ stream[c].end = "none"]
    /\ UNCHANGED <<worker, shared, host, token, reply>>
Finished(c) ==
    /\ call[c] = "finishing" /\ stream[c].end # "none" /\ Moves(c, "open")
    /\ UNCHANGED <<worker, shared, host, token, reply, stream>>

\* Dropping a stream that has not ended cancels it.
DropStream(c) ==
    /\ call[c] = "open" /\ Returns(c)
    /\ job' = IF job.who # c THEN job
              ELSE [job EXCEPT !.who = Nobody, !.dead = ~token[c] \/ stream[c].end = "none"]
    /\ stream' = [stream EXCEPT ![c] = NoStream]
    /\ UNCHANGED <<open, reserved, todo, result, shared, host>>

Caller(c) ==
    \/ Claim(c) \/ (\E live \in BOOLEAN : Send(c, live)) \/ Receive(c) \/ Timeout(c)
    \/ ReadToken(c) \/ Opened(c) \/ Finished(c)
User(c) == Begin(c) \/ Expire(c) \/ Push(c) \/ Finish(c) \/ DropStream(c)

----------------------------------------------------------------------------
(* Unload, shutdown, and the drop of the last handle.                       *)

StartUnload ==
    /\ handles = "held" /\ closing = <<>> /\ closed = "none"
    /\ \E last \in {"unloaded", "await"} : closing' = Append(Unload, last)
    /\ UNCHANGED <<worker, shared, kind, loader, handles, closed, asked>>

DropHandles ==
    /\ handles = "held" /\ closing = <<>> /\ \A c \in Callers : Idle(c)
    /\ handles' = "dropping" /\ closing' = Append(OnDrop, "forget")
    /\ UNCHANGED <<worker, shared, kind, loader, closed, asked>>

Next2(step) == closing # <<>> /\ Head(closing) = step
Closing ==
    /\ \/ /\ Next2("stop") /\ stop' = TRUE /\ UNCHANGED <<status, job, token, handles, closed>>
       \/ /\ Next2("cancel") /\ UNCHANGED <<stop, status, handles, closed>>
          /\ IF active THEN Trip ELSE UNCHANGED <<job, token>>
       \/ /\ Next2("stopping") /\ UNCHANGED <<stop, job, token, handles, closed>>
          /\ status' = IF status = "unloaded" THEN status ELSE "stopping"
       \/ /\ Next2("unloaded") /\ UNCHANGED <<stop, status, job, token, handles>>
          /\ closed' = "unloaded"
       \/ /\ Next2("await") /\ status = "unloaded" /\ closed' = "shutdown"
          /\ UNCHANGED <<stop, status, job, token, handles>>
       \/ Next2("forget") /\ handles' = "gone" /\ UNCHANGED <<stop, status, job, token, closed>>
    /\ closing' = Tail(closing)
    /\ UNCHANGED <<open, reserved, todo, result, active, busy, queue, kind, loader,
                   call, reply, stream>>

Next ==
    \/ Worker \/ LoaderReturns \/ StartUnload \/ DropHandles \/ Closing
    \/ \E c \in Callers : Caller(c) \/ User(c)

\* Threads run: the worker, whose kernels end, the callers that wait, and an
\* unload under way.  Nobody has to call, push, finish or cancel.
Fairness ==
    /\ WF_vars(Worker) /\ WF_vars(Closing)
    /\ \A c \in Callers : WF_vars(Caller(c))
Spec == Init /\ [][Next]_vars /\ Fairness

----------------------------------------------------------------------------
(* Properties.                                                              *)

\* An unload that has returned has reached the kernel: whatever the worker was
\* doing between its reads of the flag and the publication of the token, a job
\* at work carries a dead one (speech/worker.rs:194, recheck at 327).
UnloadReachesWork ==
    closed # "none" /\ todo # <<>> /\ Head(todo) \in AtWork => Dead(job)

\* A shutdown and a failed load return after the reservation: memory is never
\* offered to another model while this one still holds it (worker.rs:357-361).
ReleasedFirst ==
    (closed = "shutdown" \/ loader = "failed" \/ status = "unloaded")
       => ~reserved /\ (todo # <<>> => Head(todo) \notin AtWork)

\* Queues, streams and the slot keep to their bounds.  The diarizer's slot
\* belongs to one call, one job in the queue or one at work, and is free
\* otherwise: a caller that claimed it finds room in the queue, and none is
\* locked out by a slot nobody holds (diarization/worker.rs:160-183).
SlotHolders ==
    Cardinality({c \in Callers : call[c] = "claimed"}) + Len(queue)
    + (IF "free" \in Range(todo) THEN 1 ELSE 0)
SlotExact ==
    /\ TypeOK
    /\ kind = "diarizer" /\ open => SlotHolders = (IF busy THEN 1 ELSE 0)

\* Whoever waits for the worker gets away: callers, finishes, unloads and
\* shutdowns, whatever is cancelled, refused, unloaded or panics meanwhile.
Waiting(c) == call[c] \in {"sent", "looking", "opening", "finishing"}
EveryoneReturns ==
    /\ \A c \in Callers : Waiting(c) ~> ~Waiting(c)
    /\ closing # <<>> ~> closing = <<>>

\* nemo.rs:87: "An empty queue plus finish means every accepted block was
\* consumed"; docs/diarization.md: "No audio is silently dropped".
AcceptedIsConsumed ==
    \A c \in Callers : stream[c].end = "ok" => stream[c].eaten = stream[c].accepted
=============================================================================
