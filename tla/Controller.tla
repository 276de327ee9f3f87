----------------------------- MODULE Controller -----------------------------
(***************************************************************************)
(* The inference controller of src/src/controller: one thread that owns    *)
(* every chat runtime, dispatches commands, and between two commands       *)
(* pulls one token for each generating chat.                               *)
(*                                                                         *)
(* Callers and their readers run on other threads.  A command that asks    *)
(* for a generation carries the sending half of a bounded channel; turn t  *)
(* stands for that channel, for the reader behind it and, when the command *)
(* builds a runtime, for the engine session it starts.                     *)
(*                                                                         *)
(* Messages, tokens and specs are reduced to what the control depends on:  *)
(* the kind of request ("text", "strict" for require_full_context,         *)
(* "speech" for a non-text output mode) and whether it opens a microphone. *)
(* Tool calls and media boundaries travel like tokens; ContextTruncated    *)
(* and FinalStats, which no decision reads, are left out.                  *)
(***************************************************************************)
EXTENDS Integers, FiniteSets, Sequences

CONSTANTS
    ChatIds,       \* ids callers give their conversations
    TaskIds,       \* ids of system-task runtimes: BaseTask and stamped ones
    BaseTask,      \* the "chat::label" id of start_ephemeral
    Requests,      \* the requests in play: their kind, and if they open a microphone
    Cap,           \* event_channel_capacity
    MaxActive,     \* max_active_chats
    MaxTurns,      \* bound: how many generation commands are ever sent
    StampsCollide  \* whether two system tasks may fall on one millisecond

Kinds == {"text", "strict", "speech"}

ASSUME ControllerAssumption ==
    /\ ChatIds \cap TaskIds = {}
    /\ BaseTask \in TaskIds
    /\ Requests \subseteq [kind : Kinds, mic : BOOLEAN]
    /\ Cap \in Nat /\ Cap >= 2
    /\ MaxActive \in Nat
    /\ MaxTurns \in Nat
    /\ StampsCollide \in BOOLEAN

Keys == ChatIds \cup TaskIds
Turns == 1 .. MaxTurns
NoTurn == 0
NoRt == [run |-> "none", tx |-> NoTurn, sid |-> NoTurn, kind |-> "text",
         paused |-> FALSE, speech |-> FALSE]

VARIABLES
    chats,      \* chats[k]: the runtime under key k, or NoRt
    older,      \* <<j, k>>: j was last used before k (the order of last_used)
    sessions,   \* the engine's registry of live sessions
    hooks,      \* hooks[s]: the turn session s's Forwarder on the engine's bus reports to
    bare,       \* the engine was replaced for a load that failed; it has no model
    stale,      \* while bare: the bus of the engine that was replaced, as hooks
    chan,       \* chan[t]: the channel of turn t
    turns,      \* how many turns have been asked for
    loop,       \* where the controller thread is
    todo,       \* runtimes this scheduler pass still has to tick
    to_remove   \* finished system tasks this pass will retire

vars == <<chats, older, sessions, hooks, bare, stale, chan, turns, loop, todo, to_remove>>

\* Idle is reserved in the code: no resident runtime is ever left in it.
RunStates == {"Capturing", "Generating", "Paused", "Completed", "Failed"}

Runtime == [run : RunStates \cup {"none"}, tx : Turns \cup {NoTurn},
            sid : Turns \cup {NoTurn}, kind : Kinds,
            paused : BOOLEAN, speech : BOOLEAN]

\* The events that end a stream; Accepted, Token and Speech do not.
Terminal == {"Eos", "Stopped", "Error"}

\* st: is the receiver alive; q: for each event sent and unread, whether it is
\* terminal; done: the reader has seen the end; ended: a terminal
\* event was sent; lost: a terminal event found the channel full.
Channel == [st : {"unused", "open", "closed"}, q : Seq(BOOLEAN), done : BOOLEAN,
            ended : BOOLEAN, lost : BOOLEAN]

TypeOK ==
    /\ chats \in [Keys -> Runtime]
    /\ older \in SUBSET (Keys \X Keys)
    /\ sessions \in SUBSET Turns
    /\ hooks \in [Turns -> Turns \cup {NoTurn}]
    /\ bare \in BOOLEAN
    /\ stale \in [Turns -> Turns \cup {NoTurn}]
    /\ chan \in [Turns -> Channel]
    /\ turns \in 0 .. MaxTurns
    /\ loop \in {"recv", "tick", "pass", "stopped"}
    /\ todo \in SUBSET Keys
    /\ to_remove \in SUBSET Keys
    /\ \A t \in Turns : Len(chan[t].q) <= Cap

\* A bus nothing is registered on.
NoHooks == [s \in Turns |-> NoTurn]

Fresh(st) == [st |-> st, q |-> <<>>, done |-> FALSE, ended |-> FALSE, lost |-> FALSE]

Init ==
    /\ chats = [k \in Keys |-> NoRt]
    /\ older = {}
    /\ sessions = {}
    /\ hooks = NoHooks
    /\ bare = FALSE /\ stale = NoHooks
    /\ chan = [t \in Turns |-> Fresh("unused")]
    /\ turns = 0
    /\ loop = "recv"
    /\ todo = {} /\ to_remove = {}

-----------------------------------------------------------------------------
(* Runtimes.                                                               *)

Resident == {k \in Keys : chats[k] # NoRt}
Generating == {k \in Resident : chats[k].run = "Generating"}
Capturing == {k \in Resident : chats[k].run = "Capturing"}
InFlight == Generating \cup Capturing

\* is_terminal
IsTerminal(rt) == rt.run \in {"Completed", "Failed"}

\* The order of last_used once k was used just now.
Touch(k, order, others) ==
    {p \in order : p[1] # k /\ p[2] # k} \cup {<<j, k>> : j \in others \ {k}}

\* pick_eviction_target: the smallest last_used among the keys in S.
LeastRecent(S) == {k \in S : \A j \in S : <<j, k>> \notin older}

-----------------------------------------------------------------------------
(* Channels.                                                               *)

\* Variant: the channel never fills.
PushUnbounded(c, e) ==
    IF c.st # "open" THEN c
    ELSE [c EXCEPT !.q = Append(c.q, e \in Terminal),
                   !.ended = c.ended \/ e \in Terminal]

\* emit_must_deliver and emit_best_effort: a closed receiver ignores the
\* event, a channel still full after the retries drops it.
Push(c, e) ==
    IF c.st # "open" THEN c
    ELSE IF Len(c.q) < Cap
         THEN [c EXCEPT !.q = Append(c.q, e \in Terminal),
                        !.ended = c.ended \/ e \in Terminal]
         ELSE [c EXCEPT !.lost = c.lost \/ e \in Terminal]

\* The channels after every runtime in S was told e.
Notify(ch, S, e) ==
    [t \in Turns |-> IF \E k \in S : chats[k].tx = t THEN Push(ch[t], e) ELSE ch[t]]

-----------------------------------------------------------------------------
(* terminate_runtime_owned, for every runtime in S: the session is stopped *)
(* and ended, the hook deregistered, and the channel is told (Notify).     *)

Without(S) == [k \in Keys |-> IF k \in S THEN NoRt ELSE chats[k]]
OrderWithout(S) == {p \in older : p[1] \notin S /\ p[2] \notin S}
SidsOf(S) == {chats[k].sid : k \in S}
SessionsWithout(S) == sessions \ SidsOf(S)

\* Variant: the Forwarder stays on the bus.
HooksKept(S) == hooks

HooksWithout(S) == [s \in Turns |-> IF s \in SidsOf(S) THEN NoTurn ELSE hooks[s]]

\* Variant: the runtimes go without a word.
TerminateSilent(S, e) ==
    /\ chats' = Without(S)
    /\ older' = OrderWithout(S)
    /\ sessions' = SessionsWithout(S)
    /\ hooks' = HooksWithout(S)
    /\ chan' = chan

Terminate(S, e) ==
    /\ chats' = Without(S)
    /\ older' = OrderWithout(S)
    /\ sessions' = SessionsWithout(S)
    /\ hooks' = HooksWithout(S)
    /\ chan' = Notify(chan, S, e)

\* One command is taken.  With no runtime resident the loop goes back to a
\* blocking recv without a scheduler pass.
Taken ==
    /\ loop = "recv"
    /\ loop' = IF Resident = {} THEN "recv" ELSE "tick"
    /\ UNCHANGED <<todo, to_remove>>

\* Every command but LoadModel runs on the engine that is there.
Dispatch == Taken /\ UNCHANGED <<bare, stale>>

\* The turn a generation command brings, and its channel.
NextTurn == turns + 1
Opened(st) == [chan EXCEPT ![NextTurn] = Fresh(st)]

Reply(ch, e) == [ch EXCEPT ![NextTurn] = Push(ch[NextTurn], e)]

\* A command answered with an error on its own channel and nothing else.
Refuse(ch) ==
    /\ chan' = Reply(ch, "Error")
    /\ UNCHANGED <<chats, older, sessions, hooks>>

-----------------------------------------------------------------------------
(* StartChat.                                                              *)

\* Variant: the victim is left where it is.
EvictionsOwn(k) == {Resident \cap {k}}

\* Who goes before a new runtime for k is built: the idle runtime k already
\* has, and one least recently used runtime if the map is still at the limit.
Evictions(k) ==
    LET rest == Resident \ {k}
        own == Resident \cap {k}
    IN IF Cardinality(rest) >= MaxActive /\ rest # {}
       THEN {own \cup {v} : v \in LeastRecent(rest)}
       ELSE {own}

AttachedRun(mic) == IF mic THEN "Capturing" ELSE "Generating"

\* What maybe_wake_llm leaves of the registry: a backend that loads a model
\* drops every session it knew.
Woken(live) == {live, {}}

\* The body of StartChat, which ContinueChat also falls back on.  A bare engine
\* has no model to start a session on, nor one to wake.
BuildRuntime(k, kind, mic, ch) ==
    \E S \in Evictions(k) : \E live \in Woken(SessionsWithout(S)) :
        LET told == Notify(ch, S, "Stopped")
            rt == [run |-> AttachedRun(mic), tx |-> NextTurn, sid |-> NextTurn,
                   kind |-> kind, paused |-> FALSE, speech |-> FALSE]
        IN \/ \* start_session or the first pull failed: nothing is left behind
              /\ chan' = Reply(told, "Error")
              /\ chats' = Without(S)
              /\ older' = OrderWithout(S)
              /\ sessions' = live
              /\ hooks' = HooksWithout(S)
           \/ \* a microphone turn nobody waits for is ended at once
              /\ ~bare /\ mic /\ ch[NextTurn].st = "closed"
              /\ chan' = told
              /\ chats' = Without(S)
              /\ older' = OrderWithout(S)
              /\ sessions' = live
              /\ hooks' = HooksWithout(S)
           \/ /\ ~bare /\ ~ (mic /\ ch[NextTurn].st = "closed")
              /\ chan' = Reply(told, "Accepted")
              /\ chats' = [Without(S) EXCEPT ![k] = rt]
              /\ older' = Touch(k, OrderWithout(S), Resident \ S)
              /\ sessions' = live \cup {NextTurn}
              /\ hooks' = [HooksWithout(S) EXCEPT ![NextTurn] = NextTurn]

StartChat(k, kind, mic) ==
    /\ Dispatch
    /\ turns < MaxTurns /\ turns' = turns + 1
    /\ \E st \in {"open", "closed"} :
          IF k \in InFlight
          THEN Refuse(Opened(st))
          ELSE BuildRuntime(k, kind, mic, Opened(st))

-----------------------------------------------------------------------------
(* ContinueChat.                                                           *)

\* Variant: the first turn's Forwarder stays.
RepointedNever(sid) == hooks

\* The hooks once the Forwarder of session sid was registered afresh: on the
\* bus of the engine there is, even if the session is of the one replaced.
Repointed(sid) == [hooks EXCEPT ![sid] = NextTurn]

\* The runtime is there and idle: it is pointed at the new turn before
\* anything that may fail.
ExtendRuntime(k, kind, mic, ch) ==
    LET sid == chats[k].sid
        pointed == [chats[k] EXCEPT !.tx = NextTurn]
        kept == Repointed(sid)
        rest == Resident \ {k}
    IN \/ \* append_messages, pull or the microphone failed
          /\ IF mic
             THEN /\ chan' = Reply(Reply(ch, "Error"), "Stopped")
                                        \* the error, then terminate_runtime
                  /\ chats' = Without({k}) /\ older' = OrderWithout({k})
                  /\ sessions' = SessionsWithout({k})
                  /\ hooks' = HooksWithout({k})
             ELSE /\ chan' = Reply(ch, "Error")
                  /\ chats' = [chats EXCEPT ![k] = pointed]
                  /\ hooks' = kept
                  /\ UNCHANGED <<older, sessions>>
       \/ /\ mic /\ ch[NextTurn].st = "closed"
          /\ chan' = ch
          /\ chats' = Without({k}) /\ older' = OrderWithout({k})
          /\ sessions' = SessionsWithout({k})
          /\ hooks' = HooksWithout({k})
       \/ /\ ~ (mic /\ ch[NextTurn].st = "closed")
          /\ chan' = Reply(ch, "Accepted")
          /\ chats' = [chats EXCEPT ![k] =
                          [pointed EXCEPT !.run = AttachedRun(mic),
                                          !.kind = kind, !.speech = FALSE]]
          /\ older' = Touch(k, older, rest)
          /\ hooks' = kept
          /\ UNCHANGED sessions

ContinueChat(k, kind, mic) ==
    /\ Dispatch
    /\ turns < MaxTurns /\ turns' = turns + 1
    /\ \E st \in {"open", "closed"} :
          IF kind = "strict" \/ k \in InFlight \/ (mic /\ chats[k].run = "Paused")
          THEN Refuse(Opened(st))
          ELSE IF k \in Resident
               THEN ExtendRuntime(k, kind, mic, Opened(st))
               ELSE BuildRuntime(k, kind, mic, Opened(st))

-----------------------------------------------------------------------------
(* The other chat commands.                                                *)

\* A command that finds the microphone idle only answers its own caller.  The
\* work may fail while the session goes on capturing; if it no longer does, if
\* it panicked, or if the answer finds nobody, the runtime goes.
PushMicrophone(k) ==
    /\ Dispatch /\ k \in Capturing
    /\ \/ Terminate({k}, "Error")       \* the capture had already expired
       \/ Terminate({k}, "Stopped")     \* failed for good, or reply dropped
       \/ \E o \in {older, Touch(k, older, Resident)} :    \* refused, or taken
             older' = o /\ UNCHANGED <<chats, sessions, hooks, chan>>
    /\ UNCHANGED turns

CommitMicrophone(k) ==
    /\ Dispatch /\ k \in Capturing
    /\ \/ Terminate({k}, "Error")
       \/ Terminate({k}, "Stopped")
       \/ /\ chats' = [chats EXCEPT ![k].run = "Generating"]
          /\ older' = Touch(k, older, Resident)
          /\ UNCHANGED <<sessions, hooks, chan>>
       \/ UNCHANGED <<chats, older, sessions, hooks, chan>>   \* refused
    /\ UNCHANGED turns

StopChat(k) ==
    /\ Dispatch /\ k \in Resident
    /\ Terminate({k}, "Stopped")
    /\ UNCHANGED turns

\* Pause and resume are refused for a capture, a strict or a non-text request.
Pausable(k) == k \in Resident \ Capturing /\ chats[k].kind = "text"

\* session.pause() is called whatever the runtime is doing; only a generating
\* one loses its puller and becomes Paused.
PauseChat(k) ==
    /\ Dispatch /\ Pausable(k)
    /\ chats' = [chats EXCEPT ![k].paused = TRUE,
                              ![k].run = IF @ = "Generating" THEN "Paused" ELSE @]
    /\ UNCHANGED <<older, sessions, hooks, chan, turns>>

\* A runtime that is not generating is pulled again with its last spec, the
\* finished and the failed ones too; a failed pull is told to its channel.
ResumeChat(k) ==
    /\ Dispatch /\ Pausable(k)
    /\ \/ /\ chats' = [chats EXCEPT ![k].paused = FALSE, ![k].run = "Generating"]
          /\ UNCHANGED chan
       \/ /\ k \notin Generating
          /\ chats' = [chats EXCEPT ![k].paused = FALSE]
          /\ chan' = Notify(chan, {k}, "Error")
    /\ UNCHANGED <<older, sessions, hooks, turns>>

\* start_ephemeral's key: the plain label if it is free, else a stamped one,
\* distinct from the live ones unless two calls share a millisecond.
TaskKeys ==
    IF chats[BaseTask] = NoRt THEN {BaseTask}
    ELSE IF StampsCollide THEN TaskIds \ {BaseTask}
    ELSE (TaskIds \ {BaseTask}) \ Resident

\* SystemInfer ignores the limit on active chats.  `insert` drops whatever
\* runtime it replaces without a word.
SystemInfer ==
    /\ Dispatch
    /\ turns < MaxTurns /\ turns' = turns + 1
    /\ \E st \in {"open", "closed"} :
       \/ Refuse(Opened(st))
       \/ \E k \in TaskKeys :
             /\ ~bare
             /\ chats' = [chats EXCEPT ![k] =
                             [run |-> "Generating", tx |-> NextTurn, sid |-> NextTurn,
                              kind |-> "text", paused |-> FALSE, speech |-> FALSE]]
             /\ older' = Touch(k, older, Resident)
             /\ sessions' = sessions \cup {NextTurn}
             /\ hooks' = [hooks EXCEPT ![NextTurn] = NextTurn]
             /\ chan' = Opened(st)

\* ensure_backend replaces the engine before the load is tried.  When the load
\* then fails, the runtimes stay, with the sessions of the engine they were
\* started on; its bus lives with them, and the controller reaches the new
\* engine's only: an empty registry and an empty bus.  A bare engine has no
\* session on its bus, so the bus a second replacement drops dies at once.
Replaced ==
    /\ sessions' = {} /\ hooks' = NoHooks
    /\ bare' = TRUE
    /\ stale' = IF bare THEN stale ELSE hooks
    /\ UNCHANGED <<chats, older, chan>>

\* A successful LoadModel retires every runtime (ModelReloaded), the last users
\* of a replaced engine among them, and clears the hook bus.  A failed one
\* leaves everything, unless it switched backends first.
LoadModel ==
    /\ Taken
    /\ \/ Terminate(Resident, "Stopped") /\ bare' = FALSE /\ stale' = NoHooks
       \/ UNCHANGED <<chats, older, sessions, hooks, chan, bare, stale>>
       \/ Replaced
    /\ UNCHANGED turns

\* UnloadModel retires every runtime first (Evicted).
UnloadModel ==
    /\ Dispatch /\ Terminate(Resident, "Stopped")
    /\ UNCHANGED turns

\* ReloadModel leaves the runtimes and their hooks alone, but a backend that
\* loads its last model again drops every session it knew.
ReloadModel ==
    /\ Dispatch
    /\ sessions' \in {sessions, {}}
    /\ UNCHANGED <<chats, older, hooks, chan, turns>>

\* Shutdown, or every command sender gone.
Shutdown ==
    /\ loop = "recv" /\ loop' = "stopped"
    /\ Terminate(Resident, "Stopped")
    /\ UNCHANGED <<bare, stale, turns, todo, to_remove>>

-----------------------------------------------------------------------------
(* The scheduler pass.                                                     *)

\* recv_timeout or try_recv found no command.
Poll ==
    /\ loop = "recv" /\ Resident # {}
    /\ loop' = "tick"
    /\ UNCHANGED <<chats, older, sessions, hooks, bare, stale, chan, turns, todo, to_remove>>

\* The pass opens with maintenance, when it is due: expired captures fail with
\* a timeout, and a model idle for long enough (keepwarm) goes with its chats.
\* A load that failed left no model in the residency books to be idle.
TickBegin ==
    /\ loop = "tick" /\ loop' = "pass"
    /\ \E X \in SUBSET Capturing, idle \in BOOLEAN :
          /\ idle => ~bare /\ InFlight \ X = {}
          /\ LET gone == IF idle THEN Resident ELSE X
             IN /\ chats' = Without(gone)
                /\ older' = OrderWithout(gone)
                /\ sessions' = SessionsWithout(gone)
                /\ hooks' = HooksWithout(gone)
                /\ chan' = Notify(Notify(chan, X, "Error"), gone \ X, "Stopped")
                /\ todo' = Generating \ gone
    /\ to_remove' = {}
    /\ UNCHANGED <<bare, stale, turns>>

\* Chats before system tasks.
Ticks(k) == loop = "pass" /\ k \in todo /\ (k \in TaskIds => todo \subseteq TaskIds)

\* Variant: only a system task that completed is retired.
SteppedKeepsFailed(k, rt, c, used) ==
    /\ chats' = [chats EXCEPT ![k] = rt]
    /\ chan' = [chan EXCEPT ![chats[k].tx] = c]
    /\ older' = IF used THEN Touch(k, older, Resident) ELSE older
    /\ todo' = todo \ {k}
    /\ to_remove' = to_remove \cup (IF k \in TaskIds /\ rt.run = "Completed" THEN {k} ELSE {})
    /\ UNCHANGED <<sessions, hooks, bare, stale, turns, loop>>

\* The state of runtime k and its channel after the step; a finished system
\* task is noted for removal.
Stepped(k, rt, c, used) ==
    /\ chats' = [chats EXCEPT ![k] = rt]
    /\ chan' = [chan EXCEPT ![chats[k].tx] = c]
    /\ older' = IF used THEN Touch(k, older, Resident) ELSE older
    /\ todo' = todo \ {k}
    /\ to_remove' = to_remove \cup (IF k \in TaskIds /\ IsTerminal(rt) THEN {k} ELSE {})
    /\ UNCHANGED <<sessions, hooks, bare, stale, turns, loop>>

\* What a reader that hung up turns any step into.
Dead(c) == c.st # "open"

\* Variant: the deadline passes unannounced.
TickTimeoutSilent(k) ==
    /\ Ticks(k)
    /\ Stepped(k, [chats[k] EXCEPT !.run = "Failed", !.speech = FALSE],
               chan[chats[k].tx], FALSE)

TickTimeout(k) ==
    /\ Ticks(k)
    /\ Stepped(k, [chats[k] EXCEPT !.run = "Failed", !.speech = FALSE],
               Push(chan[chats[k].tx], "Error"), FALSE)

\* Speech waiting for room: the pull waits with it.
TickSpeechFull(k) ==
    LET c == chan[chats[k].tx]
    IN /\ Ticks(k) /\ chats[k].speech
       /\ ~Dead(c) /\ Len(c.q) >= Cap
       /\ Stepped(k, chats[k], c, FALSE)

TickSpeechDead(k) ==
    LET c == chan[chats[k].tx]
    IN /\ Ticks(k) /\ chats[k].speech /\ Dead(c)
       /\ Stepped(k, [chats[k] EXCEPT !.run = "Completed", !.speech = FALSE], c, FALSE)

\* The channel after waiting speech, if any, was sent, and whether the pass
\* goes on to pull.
Flushed(k) ==
    IF chats[k].speech THEN Push(chan[chats[k].tx], "Speech") ELSE chan[chats[k].tx]

Pulls(k) ==
    LET c == chan[chats[k].tx]
    IN Ticks(k) /\ (chats[k].speech => ~Dead(c) /\ Len(c.q) < Cap)

\* puller.next() on a session whose pause flag is up yields Paused and nothing
\* else; empty and special tokens change nothing either.
TickNothing(k) ==
    /\ Pulls(k)
    /\ Stepped(k, [chats[k] EXCEPT !.speech = FALSE], Flushed(k), chats[k].speech)

TickToken(k) ==
    /\ Pulls(k) /\ ~chats[k].paused
    /\ Stepped(k, [chats[k] EXCEPT !.speech = FALSE,
                                   !.run = IF Dead(Flushed(k)) THEN "Completed" ELSE @],
               Push(Flushed(k), "Token"), TRUE)

TickSpeech(k) ==
    /\ Pulls(k) /\ ~chats[k].paused /\ chats[k].kind = "speech"
    /\ Stepped(k, [chats[k] EXCEPT !.speech = TRUE], Flushed(k), chats[k].speech)

\* Eos, Stopped, the end of the stream, an error or a panic: one terminal
\* event, then the terminal state (ReceiverDropped if nobody listens).
TickEnd(k) ==
    /\ Pulls(k) /\ ~chats[k].paused
    /\ \E e \in Terminal :
          Stepped(k, [chats[k] EXCEPT !.speech = FALSE,
                                      !.run = IF e = "Error" /\ ~Dead(Flushed(k))
                                              THEN "Failed" ELSE "Completed"],
                  Push(Flushed(k), e), chats[k].speech)

\* The pass ends by retiring the system tasks that finished in it.
PassEnd ==
    /\ loop = "pass" /\ todo = {}
    /\ loop' = "recv"
    /\ Terminate(to_remove, "Stopped")
    /\ to_remove' = {}
    /\ UNCHANGED <<bare, stale, turns, todo>>

-----------------------------------------------------------------------------
(* The readers (TokenStream, and the loops of system_infer).               *)

\* A Forwarder on the bus of the replaced engine holds the sender of turn t; the
\* bus goes with the last runtime that was started on it.
OnStaleBus(t) == Resident # {} /\ \E s \in Turns : stale[s] = t

HasSender(t) ==
    \/ \E k \in Resident : chats[k].tx = t
    \/ \E s \in Turns : hooks[s] = t
    \/ OnStaleBus(t)

\* A reader takes events until the first terminal one.
Read(t) ==
    LET c == chan[t]
    IN /\ c.st = "open" /\ ~c.done /\ c.q # <<>>
       /\ chan' = [chan EXCEPT ![t] = [c EXCEPT !.q = Tail(c.q),
                                                 !.done = Head(c.q)]]
       /\ UNCHANGED <<chats, older, sessions, hooks, bare, stale, turns, loop, todo, to_remove>>

\* recv fails: no event and no sender left.
SeeDisconnect(t) ==
    /\ chan[t].st = "open" /\ ~chan[t].done /\ chan[t].q = <<>> /\ ~HasSender(t)
    /\ chan' = [chan EXCEPT ![t].done = TRUE]
    /\ UNCHANGED <<chats, older, sessions, hooks, bare, stale, turns, loop, todo, to_remove>>

\* The stream is dropped, finished or not; nothing can be read from it again.
DropReceiver(t) ==
    /\ chan[t].st = "open"
    /\ chan' = [chan EXCEPT ![t] = Fresh("closed")]
    /\ UNCHANGED <<chats, older, sessions, hooks, bare, stale, turns, loop, todo, to_remove>>

-----------------------------------------------------------------------------
ChatCommand(k) ==
    \/ \E r \in Requests : StartChat(k, r.kind, r.mic) \/ ContinueChat(k, r.kind, r.mic)
    \/ PushMicrophone(k) \/ CommitMicrophone(k)
    \/ StopChat(k) \/ PauseChat(k) \/ ResumeChat(k)

Tick(k) ==
    \/ TickTimeout(k) \/ TickSpeechFull(k) \/ TickSpeechDead(k)
    \/ TickNothing(k) \/ TickToken(k) \/ TickSpeech(k) \/ TickEnd(k)

Reader(t) == Read(t) \/ SeeDisconnect(t) \/ DropReceiver(t)

Next ==
    \/ \E k \in ChatIds : ChatCommand(k)
    \/ SystemInfer \/ LoadModel \/ UnloadModel \/ ReloadModel \/ Shutdown
    \/ Poll \/ TickBegin \/ PassEnd
    \/ \E k \in Keys : Tick(k)
    \/ \E t \in Turns : Reader(t)

Spec == Init /\ [][Next]_vars

\* What the controller thread does without being asked.
LoopStep == Poll \/ TickBegin \/ PassEnd \/ \E k \in Keys : Tick(k)

\* The controller thread keeps running: each round takes at most one command
\* and then makes a pass, so commands cannot starve it.  A generation that is
\* ticked again and again is ticked past its deadline in the end.  A reader
\* that holds its stream keeps reading it.
Fairness ==
    /\ WF_vars(LoopStep)
    /\ \A k \in Keys : SF_vars(TickTimeout(k))
    /\ \A t \in Turns : WF_vars(Read(t)) /\ WF_vars(SeeDisconnect(t))

FairSpec == Spec /\ Fairness

-----------------------------------------------------------------------------
(* What must hold.                                                         *)

\* Nothing of the engine outlives its runtime: every registered session is the
\* session of exactly one resident runtime, and the hook bus holds one
\* Forwarder per resident session, on the channel of the turn it serves now.
\* The exception is an engine replaced for a load that failed: its runtimes
\* may be missing from the new bus, and what the new bus has of them is of the
\* turn they serve.  Any other load, and none at all, leaves no such engine.
NothingOutlivesItsRuntime ==
    /\ sessions \subseteq SidsOf(Resident)
    /\ \A j, k \in Resident : chats[j].sid = chats[k].sid => j = k
    /\ \A s \in Turns \ SidsOf(Resident) : hooks[s] = NoTurn
    /\ \A k \in Resident :
          hooks[chats[k].sid] # chats[k].tx => bare /\ hooks[chats[k].sid] = NoTurn
    /\ bare => sessions = {}
    /\ ~bare => stale = NoHooks

\* Whether turn t's reader can still be answered, and by a working runtime.
Serving(k, t) ==
    chats[k].tx = t /\ chats[k].run \in {"Generating", "Capturing", "Paused"}

Reading(t) == chan[t].st = "open" /\ ~chan[t].done

\* The last sender of turn t is on the bus of a replaced engine, where neither
\* a new turn nor the end of a runtime replaces or removes it.
Abandoned(t) == OnStaleBus(t) /\ \A k \in Resident : chats[k].tx # t

\* A reader blocked in recv has somebody to wake it: a runtime at work on its
\* turn, or the disconnect.  A runtime that finished, failed or was passed on
\* to another turn leaves no reader behind, unless the end itself was lost, or
\* the Forwarder of the turn is out of reach on a replaced engine's bus.
WaitingReaderHasWriter ==
    \A t \in Turns :
        (Reading(t) /\ chan[t].q = <<>> /\ ~chan[t].lost /\ HasSender(t))
            => Abandoned(t) \/ \E k \in Resident : Serving(k, t)

\* Between two rounds no finished system task is left in the map, however it
\* finished: end of stream, error, timeout, or a reader that hung up.
NoFinishedTaskLingers ==
    loop = "recv" => \A k \in Resident \cap TaskIds : ~IsTerminal(chats[k])

\* A turn is never given up in silence: when a runtime stops working on a
\* turn somebody reads, by finishing, being evicted, replaced, reloaded or
\* unloaded, the end is on the channel (or found it full).
EndIsTold ==
    [][\A k \in InFlight, t \in Turns :
          (chats[k].tx = t /\ chan[t].st = "open" /\ ~Serving(k, t)')
              => (chan'[t].ended \/ chan'[t].lost)]_vars

\* A chat that becomes resident makes room first: it never takes the map past
\* max_active_chats, nor past the size system tasks had already given it.
RoomIsMade ==
    [][\A k \in ChatIds :
          (chats[k] = NoRt /\ chats'[k] # NoRt)
              => \/ Cardinality(Resident') <= Cardinality(Resident)
                 \/ Cardinality(Resident') <= MaxActive]_vars

\* A reader gets its end unless the caller paused the turn, goes on recording,
\* the end was lost to a full channel, or the turn was given to another reader
\* after a load that replaced the engine and failed.
ReaderFreed ==
    \A t \in Turns :
        Reading(t) ~> \/ ~Reading(t)
                      \/ chan[t].lost \/ Abandoned(t)
                      \/ \E k \in Resident : chats[k].tx = t /\ chats[k].run \in {"Paused", "Capturing"}

-----------------------------------------------------------------------------
(* What the comments and tests say, and the code does not keep.            *)

\* "A caller waiting for a terminal event must not be left waiting."
ReaderNeverStranded ==
    \A t \in Turns :
        Reading(t) ~> \/ ~Reading(t)
                      \/ \E k \in Resident : chats[k].tx = t /\ chats[k].run \in {"Paused", "Capturing"}

\* "The stats forwarder was registered with the first turn's channel; point it
\* at this turn's": on an engine that was replaced it stays where it was.
ForwarderFollowsTurn ==
    \A k \in Resident :
        LET bus == IF bare THEN stale ELSE hooks
        IN bus[chats[k].sid] = chats[k].tx
=============================================================================
