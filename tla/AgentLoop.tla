------------------------------ MODULE AgentLoop -----------------------------
(***************************************************************************)
(* One run of an agent (src/src/api/agent.rs, run_with) on the thread that *)
(* OwnedAgent::spawn gives it (agent_spawned.rs): at each boundary the     *)
(* waiting messages of its user join the session and the model writes; the *)
(* calls it wrote are run, the parallel ones together, and their results   *)
(* join the session in the order of the calls.  Beside the loop a user     *)
(* steers it, and tools of an MCP server go through the client of          *)
(* McpClient.                                                              *)
(*                                                                         *)
(* What the model writes is any sequence of calls; a tool answers, fails   *)
(* in a way the model can mend (both are "told"), fails in a way that ends *)
(* the run ("fatal"), or panics.                                           *)
(***************************************************************************)
EXTENDS McpClient, Positions, FiniteSetsExt, SequencesExt

CONSTANTS
    Rounds,      \* the turns with calls the model may write, as sequences of tools
    MaxSteps,    \* budgets.max_steps
    MaxCalls,    \* the longest of them
    MaxSteer,    \* bound: messages of the user
    Asks         \* ApprovalMode::AskOnRisky, with a callback

\* grep and the server's tools are safe beside anything; wipe too, but it is
\* risky; push is risky and exclusive; one name is no tool's.
Tools == {"grep", "wipe", "push", "mcp", "search_tools", "unheard_of"}
Risky(tool) == tool \in {"wipe", "push"}
ParallelSafe(tool) == tool \in {"grep", "wipe", "mcp"}
RepeatLimit == 3

ASSUME AgentAssumption ==
    /\ Calls = 1 .. MaxCalls /\ MaxCalls \in Nat /\ MaxSteps \in Nat /\ MaxSteer \in Nat
    /\ Rounds \subseteq UNION {[1 .. n -> Tools] : n \in 1 .. MaxCalls}
    /\ Asks \in BOOLEAN

VARIABLES
    pc,          \* boundary, generating, calls, batch, running, solo, record, shaping, ended
    step,
    session,     \* what this run pushed
    queue,       \* Steering::queue: messages not yet delivered
    sent,        \* how many were ever pushed
    interrupts,  \* which of them are interruptions
    calls,       \* the calls of this round
    next,        \* the loop's index into them
    batch,       \* the calls that wait to run together, or run
    then,        \* where the loop goes once they have run
    running,     \* those that still run
    outcome,     \* outcome[i]: how call i of this round ended, or "none"
    results,     \* the calls that have a result, in the order they got it
    ran,         \* <<step, call>> of every tool that was started
    allowed,     \* the calls of this round the user allowed
    refused,     \* the user refused one, in this round or before
    interrupted, \* the steps an interruption broke off
    recent,
    answer_as,   \* whether the answer is asked for once more in a shape
    finish       \* how the run ended, or "none"

\* What a round of calls leaves alone, the round itself, and what is kept of all rounds.
sessionVars == <<step, session, queue, sent, interrupts, answer_as>>
roundVars == <<calls, next, batch, then, running, outcome, results, allowed>>
memory == <<ran, refused, interrupted, recent>>
agentVars == <<pc, sessionVars, roundVars, memory, finish>>
pipeVars == <<phase, next_id, req, toServer, torn, serverVars>>
vars == <<agentVars, mcpVars>>

User(n) == [what |-> "user", n |-> n]
Said == [what |-> "said"]
Called(s, n) == [what |-> "calls", step |-> s, n |-> n]
Result(s, i) == [what |-> "result", step |-> s, i |-> i]
Instruction == [what |-> "instruction"]

NoRound ==
    /\ calls' = <<>> /\ next' = 1 /\ batch' = {} /\ then' = "record"
    /\ running' = {} /\ results' = <<>> /\ allowed' = {}
    /\ outcome' = [i \in Calls |-> "none"]

Init ==
    /\ McpInit
    /\ pc = "boundary" /\ step = 0 /\ session = <<>> /\ queue = <<>>
    /\ sent = 0 /\ interrupts = {}
    /\ calls = <<>> /\ next = 1 /\ batch = {} /\ then = "record" /\ running = {}
    /\ outcome = [i \in Calls |-> "none"] /\ results = <<>>
    /\ ran = {} /\ allowed = {} /\ refused = FALSE /\ interrupted = {} /\ recent = <<>>
    /\ answer_as \in BOOLEAN /\ finish = "none"

-----------------------------------------------------------------------------
(* The user, on other threads.                                             *)

\* Steering::follow_up and interrupt.  The engine.stop of an interruption, as
\* that of AgentRun::cancel, ends the turn being written sooner: a turn may end
\* at any point, with calls or without.
Push(interrupt) ==
    /\ pc # "ended" /\ phase = "ready" /\ sent < MaxSteer
    /\ running = {}   \* (nobody looks while tools run: as if it came after the last)
    /\ sent' = sent + 1
    /\ queue' = Append(queue, sent + 1)
    /\ interrupts' = IF interrupt THEN interrupts \cup {sent + 1} ELSE interrupts
    /\ UNCHANGED <<pc, step, session, roundVars, memory, answer_as, finish, mcpVars>>

-----------------------------------------------------------------------------
(* The loop.                                                               *)

Ended(how) == pc' = "ended" /\ finish' = how

\* The top of the loop: the budgets, then all that waits is delivered and the
\* model's turn begins.
Boundary ==
    /\ pc = "boundary" /\ phase = "ready"
    /\ \/ /\ step = MaxSteps /\ Ended("budget")
          /\ UNCHANGED <<session, queue>>
       \/ /\ step < MaxSteps /\ Ended("budget")
          /\ UNCHANGED <<session, queue>>
       \/ /\ step < MaxSteps
          /\ session' = session \o [k \in DOMAIN queue |-> User(queue[k])]
          /\ queue' = <<>>
          /\ pc' = "generating" /\ UNCHANGED finish
    /\ UNCHANGED <<step, sent, interrupts, roundVars, memory, answer_as, mcpVars>>

\* Variant: only an interruption keeps the run going.
InterruptPending == \E k \in DOMAIN queue : queue[k] \in interrupts
IsPending == queue # <<>>

\* The turn failed, or used up the tokens of the run: it leaves nothing behind.
TurnIsLost ==
    /\ pc = "generating"
    /\ \E how \in {"error", "budget"} : Ended(how)
    /\ UNCHANGED <<sessionVars, roundVars, memory, mcpVars>>

\* The turn, cut or whole, has no call: what waits is heard, then the
\* answer is shaped.
TurnAnswers ==
    /\ pc = "generating"
    /\ IF IsPending
         THEN /\ pc' = "boundary" /\ step' = step + 1
              /\ session' = Append(session, Said)
              /\ UNCHANGED finish
         ELSE IF answer_as
           THEN /\ pc' = "shaping" /\ session' = session \o <<Said, Instruction>>
                      /\ UNCHANGED <<step, finish>>
           ELSE Ended("answered") /\ session' = Append(session, Said) /\ UNCHANGED step
    /\ UNCHANGED <<queue, sent, interrupts, roundVars, memory, answer_as, mcpVars>>

\* The turn, cut or whole, has calls.  (No more of them than ids are left to make.)
TurnCalls(tools) ==
    /\ pc = "generating"
    /\ Len(SelectSeq(tools, LAMBDA t : t = "mcp")) <= MaxIds + 1 - next_id
    /\ session' = Append(session, Called(step, Len(tools)))
    /\ calls' = tools
    /\ pc' = "calls"
    /\ UNCHANGED <<step, queue, sent, interrupts, next, batch, then, running, outcome, results,
                   memory, allowed, answer_as, finish, mcpVars>>

\* The shaped answer, or the error it ended in.
Shaped ==
    /\ pc = "shaping"
    /\ \/ Ended("answered") /\ session' = Append(session, Said)
       \/ Ended("error") /\ UNCHANGED session
    /\ UNCHANGED <<step, queue, sent, interrupts, roundVars, memory, answer_as, mcpVars>>

\* Variants of the scheduling of a call: everything in one batch, and no look
\* at the queue between calls.
SoloNever(tool) == tool = "search_tools"
Solo(tool) == ~ParallelSafe(tool)

Recent == IF Len(recent) < RepeatLimit THEN Append(recent, calls[next])
          ELSE Append(Tail(recent), calls[next])
Circles == Len(Recent) = RepeatLimit /\ \A k \in 1 .. RepeatLimit : Recent[k] = calls[next]

\* One turn of the loop over the calls.
Consider ==
    /\ pc = "calls"
    /\ IF next > Len(calls) \/ InterruptPending
         THEN /\ pc' = "batch" /\ then' = "record"
              /\ interrupted' = IF next <= Len(calls) THEN interrupted \cup {step} ELSE interrupted
              /\ UNCHANGED <<next, batch, recent, finish>>
         ELSE /\ recent' = Recent
              /\ IF Circles THEN Ended("gave up") /\ UNCHANGED <<next, batch, then>>
                 ELSE IF Solo(calls[next])
                   THEN pc' = "batch" /\ then' = "solo" /\ UNCHANGED <<next, batch, finish>>
                   ELSE /\ batch' = batch \cup {next} /\ next' = next + 1
                        /\ UNCHANGED <<pc, then, finish>>
              /\ UNCHANGED interrupted
    /\ UNCHANGED <<sessionVars, calls, running, outcome, results, ran, allowed, refused, mcpVars>>

\* Tools begin; those of the server ask for its client.
Begin(is) ==
    /\ batch' = is
    /\ running' = is
    /\ ran' = ran \cup {<<step, i>> : i \in is}
    /\ pc' = "running"
    /\ Join({i \in is : calls[i] = "mcp"})

\* The calls among these the user may refuse.
Gated(is) == {i \in is : Asks /\ Risky(calls[i])}

\* run_batch: everyone is asked about first; the refused have their result at once.
RunBatch ==
    /\ pc = "batch"
    /\ \E denied \in SUBSET Gated(batch) :
         /\ outcome' = [i \in Calls |-> IF i \in denied THEN "denied" ELSE outcome[i]]
         /\ results' = results \o Ascending(denied)
         /\ allowed' = allowed \cup (Gated(batch) \ denied)
         /\ refused' = (refused \/ denied # {})
         /\ Begin(batch \ denied)
    /\ UNCHANGED <<sessionVars, calls, next, then, interrupted, recent, finish, pipeVars>>

\* dispatch, or run_search: alone.  A name that is no tool's and a search have
\* their result at once.
RunSolo ==
    /\ pc = "solo"
    /\ next' = next + 1
    /\ then' = "calls"
    /\ \/ /\ calls[next] \in {"search_tools", "unheard_of"}
          /\ outcome' = [outcome EXCEPT ![next] = "told"] /\ results' = Append(results, next)
          /\ pc' = "calls" /\ UNCHANGED <<batch, running, ran, allowed, refused, line, asked, got>>
       \/ /\ next \in Gated({next})
          /\ outcome' = [outcome EXCEPT ![next] = "denied"] /\ results' = Append(results, next)
          /\ refused' = TRUE
          /\ pc' = "calls" /\ UNCHANGED <<batch, running, ran, allowed, line, asked, got>>
       \/ /\ calls[next] \notin {"search_tools", "unheard_of"}
          /\ allowed' = allowed \cup Gated({next})
          /\ Begin({next})
          /\ UNCHANGED <<outcome, results, refused>>
    /\ UNCHANGED <<sessionVars, calls, interrupted, recent, finish, pipeVars>>

\* A tool returns; those of the server when the client has.
Return(i) ==
    /\ pc = "running" /\ i \in running
    /\ running' = running \ {i}
    /\ \E out \in {"told", "fatal"} :
         /\ calls[i] = "mcp" => got[i] # "none" /\ (out = "told" <=> Told(got[i]))
         /\ outcome' = [outcome EXCEPT ![i] = out]
    /\ UNCHANGED <<pc, sessionVars, calls, next, batch, then, results, memory, allowed, finish, mcpVars>>

\* A tool panics on the run's own thread, which takes the session with it; the
\* calls that wait for the client are dropped.
Panic(i) ==
    /\ pc = "running" /\ i \in running /\ calls[i] # "mcp"
    /\ Ended("panicked")
    /\ running' = {} /\ line' = {} /\ req' = Nobody
    /\ UNCHANGED <<sessionVars, calls, next, batch, then, outcome, results, memory, allowed, phase,
                   next_id, toServer, torn, serverVars, asked, got>>

\* All of them have: their results are kept in the order of the calls.
Gather ==
    /\ pc = "running" /\ running = {}
    /\ results' = results \o Ascending(batch)
    /\ batch' = {}
    /\ pc' = then
    /\ UNCHANGED <<sessionVars, calls, next, then, running, outcome, memory, allowed, finish, mcpVars>>

\* Variant: in the order they came.
Unsorted(is) == is
Sorted(is) ==
    [k \in DOMAIN is |-> CHOOSE v \in ToSet(is) :
        Cardinality({j \in DOMAIN is : is[j] < v}) < k /\ k <= Cardinality({j \in DOMAIN is : is[j] <= v})]

\* The results join the session up to the first that ends the run.
Record ==
    /\ pc = "record"
    /\ LET sorted == Sorted(results)
           bad == {i \in Calls : outcome[i] \in {"fatal", "denied"}}
           upto == IF bad = {} THEN Len(sorted) ELSE Min({k \in DOMAIN sorted : sorted[k] \in bad}) - 1
       IN /\ session' = session \o [k \in 1 .. upto |-> Result(step, sorted[k])]
          /\ IF bad # {}
               THEN Ended("tool_failed") /\ UNCHANGED <<step, roundVars>>
               ELSE /\ pc' = "boundary" /\ step' = step + 1
                    /\ NoRound /\ UNCHANGED finish
    /\ UNCHANGED <<queue, sent, interrupts, memory, answer_as, mcpVars>>

-----------------------------------------------------------------------------
Loop ==
    \/ Boundary \/ TurnIsLost \/ TurnAnswers \/ (\E tools \in Rounds : TurnCalls(tools)) \/ Shaped
    \/ Consider \/ RunBatch \/ RunSolo \/ Gather \/ Record
    \/ \E i \in Calls : Return(i) \/ Panic(i)

\* The client works while the server is connected and while its tools run.
Client == ClientStep /\ UNCHANGED agentVars
\* What the server does while nobody waits for it is seen only by who waits
\* next, and happens then.
Server == ServerStep /\ Requesting /\ UNCHANGED agentVars

Next ==
    \/ Loop \/ Client \/ Server
    \/ \E interrupt \in BOOLEAN : Push(interrupt)

Spec == Init /\ [][Next]_vars

\* The run's thread runs, its tools return and its turns end; the client's reads
\* and writes have deadlines.  The server and the user owe nothing.
FairSpec == Spec /\ WF_vars(Loop) /\ WF_vars(Client)

-----------------------------------------------------------------------------
\* What the session holds of a round: the calls that have a result, and how many it has.
Answered(s) == {session[k].i : k \in {k \in DOMAIN session : session[k].what = "result" /\ session[k].step = s}}
CalledIn(s) == {session[k].n : k \in {k \in DOMAIN session : session[k].what = "calls" /\ session[k].step = s}}

\* A step has one turn with calls, and the results of it are those of its first calls, in
\* their order, right after them: answered without a gap, whatever ended first.
InCallOrder ==
    /\ \A k \in DOMAIN session : session[k].what = "result" =>
         /\ k > 1 /\ session[k - 1].what \in {"calls", "result"}
         /\ session[k - 1].step = session[k].step
         /\ session[k].i = IF session[k - 1].what = "calls" THEN 1 ELSE session[k - 1].i + 1
    /\ \A j, k \in DOMAIN session :
         session[j].what = "calls" /\ session[k].what = "calls" /\ session[j].step = session[k].step => j = k

\* A round the run went on from has the result of everything it started, and of
\* all its calls unless an interruption broke it off.
NothingForgotten ==
    \A s \in 0 .. step - 1 : \A n \in CalledIn(s) :
      /\ {i \in Calls : <<s, i>> \in ran} \subseteq Answered(s)
      /\ s \notin interrupted => Answered(s) = 1 .. n

\* A run that a tool's failure ended has recorded what came before that call.
RecordedUpToFailure ==
    finish = "tool_failed" =>
      \E i \in Calls : /\ outcome[i] \in {"fatal", "denied"}
                       /\ Answered(step) = 1 .. i - 1
                       /\ \A j \in 1 .. i - 1 : outcome[j] = "told"

RoundsWhole == InCallOrder /\ NothingForgotten /\ RecordedUpToFailure

\* Every message of the user is in the session, in the order they were sent, or
\* waits; a run that gives its answer unshaped left none waiting.
UserAt == {k \in DOMAIN session : session[k].what = "user"}
SteeringHeard ==
    /\ \E heard \in 0 .. sent :
         /\ {session[k].n : k \in UserAt} = 1 .. heard
         /\ \A j, k \in UserAt : j < k => session[j].n < session[k].n
         /\ queue = [k \in 1 .. sent - heard |-> heard + k]
    /\ finish = "answered" /\ ~answer_as => queue = <<>>
    /\ pc = "shaping" => session[Len(session)] = Instruction

\* An exclusive tool runs alone, after all earlier calls and before all later
\* ones; a risky one runs only when the user said so; and a run in which the
\* user refused ends at that round.
GateHolds ==
    /\ \A i \in running : ~ParallelSafe(calls[i]) =>
         running = {i} /\ \A j \in Calls : j < i => outcome[j] # "none"
    /\ pc = "running" => \A i \in running : Asks /\ Risky(calls[i]) => i \in allowed
    /\ refused => pc \notin {"boundary", "generating", "shaping"}

\* A started run ends.
RunEnds == <>(pc = "ended" \/ phase = "down")

=============================================================================
