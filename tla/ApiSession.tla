----------------------------- MODULE ApiSession -----------------------------
(***************************************************************************)
(* One conversation run on several engines.  The caller owns the session   *)
(* and edits it freely (api/session.rs); a turn binds it to an engine,     *)
(* decides whether the engine may append to what it already holds or has   *)
(* to be given the whole transcript (api/chat.rs, api/turn.rs), and the    *)
(* outcome is written back once the stream has been read (api/event.rs,    *)
(* api/async_turn.rs).  On the other side of a command queue each engine's *)
(* controller keeps at most one runtime for the conversation, which other  *)
(* threads may evict, unload or swap the weights of at any moment.         *)
(*                                                                         *)
(* What a runtime holds is the sequence of messages rendered into its      *)
(* context, by content.  A turn is accepted or it is not; tokens and their *)
(* channel are those of module Controller.                                 *)
(***************************************************************************)
EXTENDS SessionLog

CONSTANTS Engines,       \* engines the session may be run on
          NoEngine,
          Requests,      \* the turns that may be asked for, a subset of AllRequests
          MaxRecords,    \* bound on the message records
          MaxTurns,      \* bound on the turns dispatched
          MaxSteps       \* bound on turns, edits, cancels, failures and swaps together

ASSUME BoundsAssumption == MaxRecords \in Nat /\ MaxTurns \in Nat /\ MaxSteps \in Nat
ASSUME NoEngineAssumption == NoEngine \notin Engines

VARIABLES
    s,          \* the session: system, tools, records, active
    saved,      \* what a replay of its event log yields
    bk,         \* engine bookkeeping of the bound engine
    parked,     \* engine -> bookkeeping put aside, or NoBinding
    bound,      \* the bound engine, or NoEngine
    sent,       \* engine -> messages of this session it is believed to hold
    generation, \* engine -> how often its weights were swapped
    swapping,   \* engine -> weights swapped, not yet noted
    queue,      \* engine -> commands for its controller
    runtime,    \* engine -> its runtime for the conversation, or NoRuntime
    turn,       \* the turn in flight, or NoTurn
    turns,      \* turns dispatched
    spent,      \* of MaxSteps
    unsettled,  \* history: turns an engine took whose outcome never reached the session,
                \* or was rolled back from it with the conversation left open
    edited,     \* history: turns of an engine put aside whose reply an edit took away
    warm        \* history: the engine whose last turn settled and nothing changed since

vars == <<s, saved, bk, parked, bound, sent, generation, swapping, queue, runtime,
          turn, turns, spent, unsettled, edited, warm>>
session == <<s, saved>>
binding == <<bk, parked, bound>>
engines == <<sent, generation, swapping, queue, runtime>>
history == <<unsettled, edited>>

NoBinding == [opened |-> FALSE, gen |-> -1, thinking |-> -1, prefix |-> <<>>, own |-> FALSE]
NoRuntime == [turns |-> {}, state |-> "none"]
NoTurn == [n |-> 0]
Systems == 0 .. 1   \* no prompt, a prompt; a per-turn override is Override
Override == 2
Tools == 0 .. 1
Thinking == 0 .. 1

\* Messages the caller writes, and what a model answers with.
Ask == User("ask")
Rewritten == User("rewritten")
Recording == User("audio")
Answer == Assistant("answer")
Partial == Assistant("partial")
CallOf(id) == Calling(<<id>>)
Pushed == {Ask, Answer} \cup {ToolResult(c) : c \in 1 .. MaxRecords}

-----------------------------------------------------------------------------
(* The session's own operations. *)

Spend == spent < MaxSteps /\ spent' = spent + 1

Do(events) == saved' = Replay(saved, events)

Closed(b) == [b EXCEPT !.opened = FALSE]

\* The transcript under a system prompt: the prompt first, when there is one.
Prompt(system) == IF system = 0 THEN <<>> ELSE <<Message("system", system, <<>>, NoCall)>>
Transcript(x, system) == Prompt(system) \o View(x.active, x.records)

\* The engine's digest would pass, and its runtime holds what x does not show: the
\* digest covers what was acknowledged, the runtime its reply to that, too.
Overtaken(x, b, e) ==
    /\ b.opened
    /\ IsPrefix(b.prefix[3], x.active)
    /\ ~IsPrefix(runtime[e].context, Transcript(x, b.prefix[2]))

\* What an operation on the session leaves alone.
Edits ==
    /\ turn = NoTurn /\ Spend
    /\ bk' = Closed(bk)
    /\ warm' = NoEngine
    /\ UNCHANGED <<parked, bound, engines, turn, turns, unsettled>>

\* after_projection_change closes the bound engine's bookkeeping, and no other's.
Projects(x) ==
    /\ s' = x
    /\ edited' = edited \cup
          UNION {runtime[e].turns : e \in {y \in Engines :
                    runtime[y] # NoRuntime /\ Overtaken(x, parked[y], y)}}

SetSystem(x) ==
    /\ x # s.system
    /\ Edits /\ UNCHANGED edited
    /\ s' = [s EXCEPT !.system = x]
    /\ Do(<<SystemSet(x)>>)

SetTools(x) ==
    /\ x # s.tools
    /\ Edits /\ UNCHANGED edited
    /\ s' = [s EXCEPT !.tools = x]
    /\ Do(<<ToolsSet(x)>>)

Added(x, m) == [x EXCEPT !.records = Append(@, m), !.active = Append(@, Len(x.records) + 1)]
AddedAll(x, ms) ==
    [x EXCEPT !.records = @ \o ms,
              !.active = @ \o [k \in DOMAIN ms |-> Len(x.records) + k]]
Additions(ms) == [k \in DOMAIN ms |-> MessageAdded(ms[k])]

\* A result is pushed for a call the session made; anything else goes.
Pushable(m) ==
    IsResult(m) => \E i \in Range(s.active) : Contains(s.records[i].calls, m.answers)

Push(m) ==
    /\ turn = NoTurn /\ Spend
    /\ Len(s.records) < MaxRecords /\ Pushable(m)
    /\ s' = Added(s, m)
    /\ Do(<<MessageAdded(m)>>)
    /\ warm' = IF m.role = "assistant" THEN NoEngine ELSE warm
    /\ UNCHANGED <<binding, engines, turn, turns, history>>

ReplaceMessage(slot) ==
    LET new == Len(s.records) + 1
        records == Append(s.records, Rewritten)
        next == [s.active EXCEPT ![slot] = new]
    IN  /\ Edits /\ Len(s.records) < MaxRecords
        /\ Rounds(View(next, records), s.records) = Fine
        /\ Projects([s EXCEPT !.records = records, !.active = next])
        /\ Do(<<MessageReplaced(s.active[slot], Rewritten)>>)

RemoveMessage(slot) ==
    LET next == RemoveAt(s.active, slot)
    IN  /\ Edits /\ Whole(next, s.records)
        /\ Projects([s EXCEPT !.active = next])
        /\ Do(<<MessageRemoved(s.active[slot])>>)

\* replace_messages with a summary: recorded first, then made the projection.
ReplaceMessages ==
    LET new == Len(s.records) + 1
    IN  /\ Edits /\ Len(s.records) < MaxRecords
        /\ Projects([s EXCEPT !.records = Append(@, Rewritten), !.active = <<new>>])
        /\ Do(<<MessageRecorded(Rewritten), ContextReplaced(<<new>>)>>)

\* restore_context: known records in any order, each once; the same again is no change.
Orders(V) == {ids \in [1 .. Cardinality(V) -> V] : IsInjective(ids)}

RestoreContext(V) ==
    /\ Edits
    /\ \E ids \in Orders(V) \ {s.active} :
          /\ Whole(ids, s.records)
          /\ Projects([s EXCEPT !.active = ids])
          /\ Do(<<ContextReplaced(ids)>>)

\* edit: whatever the closure leaves, trimmed to a round boundary.
Edit(messages) ==
    LET e == Edited(s.active, s.records, messages)
        ids == Trim(e.ids, e.records)
        fresh == SubSeq(e.records, Len(s.records) + 1, Len(e.records))
        recorded == [k \in DOMAIN fresh |-> MessageRecorded(fresh[k])]
    IN  /\ Edits /\ Len(e.records) <= MaxRecords
        /\ Projects([s EXCEPT !.records = e.records, !.active = ids])
        /\ Do(IF ids = s.active THEN recorded ELSE Append(recorded, ContextReplaced(ids)))

Clear ==
    /\ turn = NoTurn /\ Spend
    /\ s' = [s EXCEPT !.active = <<>>]
    /\ Do(IF s.active = <<>> THEN <<>> ELSE <<ContextReplaced(<<>>)>>)
    /\ bk' = [NoBinding EXCEPT !.thinking = bk.thinking]
    /\ parked' = [e \in Engines |-> NoBinding]
    /\ warm' = NoEngine
    /\ UNCHANGED <<bound, engines, turn, turns, history>>

\* The caller goes on with a fork: a new id, so nothing any engine holds is
\* this conversation's.  Nothing of the parent's can still be in flight here.
Fork(ids, at) ==
    /\ turn = NoTurn /\ Spend
    /\ \A e \in Engines : queue[e] = <<>>
    /\ Whole(ids, s.records)
    /\ s' = [s EXCEPT !.active = ids]
    /\ Do(<<Forked(at)>>)
    /\ bk' = NoBinding /\ parked' = [e \in Engines |-> NoBinding] /\ bound' = NoEngine
    /\ sent' = [e \in Engines |-> 0]
    /\ runtime' = [e \in Engines |-> NoRuntime]
    /\ warm' = NoEngine
    /\ UNCHANGED <<generation, swapping, queue, turn, turns, history>>

\* Deserialize: the log is read back under the same id, by this process or
\* the next; the bookkeeping is not persisted.
Reopen ==
    /\ turn = NoTurn /\ Spend
    /\ s' = saved
    /\ bk' = NoBinding /\ parked' = [e \in Engines |-> NoBinding] /\ bound' = NoEngine
    /\ warm' = NoEngine
    /\ UNCHANGED <<saved, engines, turn, turns, history>>

-----------------------------------------------------------------------------
(* Dispatching a turn. *)

\* The digest of the first "count" entries: tools, prompt, ids.
Digest(x, count, tools) ==
    LET rest == count - (IF x.system # 0 /\ count > 0 THEN 1 ELSE 0)
        take == IF rest < Len(x.active) THEN rest ELSE Len(x.active)
    IN  <<tools, IF count > 0 THEN x.system ELSE 0, SubSeq(x.active, 1, take)>>

PrefixStillHeld(x, b, count, tools) ==
    /\ count > 0 /\ count <= Len(Transcript(x, x.system))
    /\ b.prefix = Digest(x, count, tools)

\* A slip: the tail is taken as it comes.
TailUnchecked(x, b, count) == TRUE

\* Every message after the prefix must be one the backend renders: its own
\* reply at most, and that first.
TailIsAppendable(x, b, count) ==
    LET tail == SubSeq(View(x.active, x.records), 1 + count - Len(Prompt(x.system)), Len(x.active))
    IN  \A k \in DOMAIN tail : tail[k].role = "assistant" => k = 1 /\ b.own

\* note_engine: park what the engine left behind holds, bring back e's.
NoteEngine(b, e) == IF bound = e THEN b ELSE parked[e]

Parked(b, e) ==
    IF bound = e THEN parked
    ELSE [x \in Engines |-> CASE x = e -> NoBinding
                              [] x = bound /\ x # e /\ b.opened -> b
                              [] OTHER -> parked[x]]

NoteModel(b, g) == [b EXCEPT !.gen = g, !.opened = @ /\ b.gen = g]
NoteThinking(b, t) == [b EXCEPT !.thinking = t, !.opened = @ /\ b.thinking = t]

\* Turn::run, stream and stream_async, which a turn may leave in different
\* ways; Chat::send with its tool loop; start_microphone.  A Chat::stream, and
\* a round of the agent, is a turn left after its end: nothing is written back.
Apis == {"turn", "chat", "microphone"}

\* A per-turn prefix: another prompt, or another tool set than the session's.
AllOverrides == [system : {0, Override}, tools : {-1} \cup Tools]
NoOverride == [system |-> 0, tools |-> -1]

AllRequests ==
    {q \in [api : Apis, over : AllOverrides, thinking : Thinking,
            staged : {<<>>, <<Ask>>, <<Answer>>}] :
        /\ q.api = "microphone" => q.over = NoOverride
        /\ q.api = "chat" => q.over.system = 0}   \* Chat::tools offers a set for the turn

ASSUME RequestsAssumption == Requests \subseteq AllRequests

PerTurn(api, over) == api = "turn" /\ over # NoOverride

Pending(x, opened, count) ==
    LET whole == Transcript(x, x.system)
    IN  IF opened THEN SubSeq(whole, count + 1, Len(whole)) ELSE whole

Dispatch(e, api, staged, over, thinking) ==
    LET microphone == api = "microphone"
        wire == IF microphone THEN staged \o <<Recording>> ELSE <<>>
        x == IF microphone THEN s ELSE AddedAll(s, staged)
        b0 == IF PerTurn(api, over) THEN Closed(bk) ELSE bk
        b1 == NoteThinking(NoteModel(NoteEngine(b0, e), generation[e]), thinking)
        b2 == IF over.system # 0 \/ \E k \in DOMAIN wire : wire[k].role = "assistant"
              THEN Closed(b1) ELSE b1
        tools == IF over.tools = -1 THEN x.tools ELSE over.tools
        held == sent[e]
        b3 == [b2 EXCEPT !.opened = /\ @
                                    /\ PrefixStillHeld(x, b2, held, tools)
                                    /\ TailIsAppendable(x, b2, held)]
        system == IF over.system # 0 THEN over.system ELSE x.system
        start == ~b3.opened
    IN  /\ turn = NoTurn /\ turns < MaxTurns /\ Spend
        /\ Len(s.records) + Len(wire) + Len(staged) < MaxRecords
        /\ s' = x
        /\ Do(IF microphone THEN <<>> ELSE Additions(staged))
        /\ bk' = b3 /\ parked' = Parked(b0, e) /\ bound' = e
        /\ turns' = turns + 1
        /\ turn' = [n |-> turns + 1, engine |-> e, api |-> api, staged |-> wire,
                    tools |-> tools, closes |-> PerTurn(api, over),
                    got |-> 0, end |-> "none",
                    cold |-> /\ start /\ warm = e
                             /\ over = NoOverride /\ thinking = bk.thinking
                             /\ \A k \in DOMAIN staged : staged[k].role # "assistant"]
        /\ queue' = [queue EXCEPT ![e] = Append(@,
              [kind |-> IF start THEN "start" ELSE "continue", n |-> turns + 1,
               messages |-> (IF over.system # 0 THEN Transcript(x, system)
                             ELSE Pending(x, ~start, held)) \o wire,
               prefix |-> IF start THEN <<>> ELSE SubSeq(Transcript(x, x.system), 1, held),
               pins |-> <<tools, thinking>>, capture |-> microphone,
               asked |-> Transcript(x, system) \o wire])]
        /\ warm' = NoEngine
        /\ UNCHANGED <<sent, generation, swapping, runtime, history>>

\* A legacy Chat whose session holds media the engine refuses: the session is
\* bound, then what the builder had appended is rolled back (rollback_to).
Refuse(e, m, thinking) ==
    LET x == Added(s, m)
        next == [x EXCEPT !.active = Trim(s.active, x.records)]
        b == NoteThinking(NoteModel(NoteEngine(bk, e), generation[e]), thinking)
    IN  /\ turn = NoTurn /\ Spend
        /\ Len(s.records) < MaxRecords /\ Pushable(m)
        /\ s' = next
        /\ Do(<<MessageAdded(m), ContextReplaced(next.active)>>)
        /\ bk' = b /\ parked' = Parked(bk, e) /\ bound' = e
        /\ unsettled' = unsettled \cup
              UNION {runtime[y].turns : y \in {z \in Engines :
                        /\ runtime[z] # NoRuntime
                        /\ Overtaken(next, IF z = e THEN b ELSE parked'[z], z)}}
        /\ warm' = NoEngine
        /\ UNCHANGED <<engines, turn, turns, edited>>

-----------------------------------------------------------------------------
(* The controllers. *)

Reading(n) == turn # NoTurn /\ turn.n = n
\* What the reader of turn n sees next: an acknowledgement or the end.
Told(n, got, end) == IF Reading(n) THEN [turn EXCEPT !.got = got, !.end = end] ELSE turn
Ended(n, end) == IF Reading(n) /\ turn.end = "none" THEN [turn EXCEPT !.end = end] ELSE turn

InFlight(r) == r.state \in {"generating", "capturing"}

Command(e, kind) == queue[e] # <<>> /\ Head(queue[e]).kind = kind
Taken(e) == queue' = [queue EXCEPT ![e] = Tail(@)]

Controlled == <<session, binding, sent, generation, swapping, turns, history, warm>>

Opened(c, messages) ==
    [turns |-> {c.n}, n |-> c.n, state |-> IF c.capture THEN "capturing" ELSE "generating",
     context |-> messages, pins |-> c.pins, asked |-> c.asked, wants |-> c.pins]

\* StartChat: whatever runtime there was is retired, and one is built from
\* the whole transcript.
Start(e, c, messages) ==
    \/ /\ InFlight(runtime[e])
       /\ turn' = Ended(c.n, "error")
       /\ UNCHANGED <<runtime, spent>>
    \/ /\ ~InFlight(runtime[e])
       /\ IF c.capture /\ ~Reading(c.n)
          THEN runtime' = [runtime EXCEPT ![e] = NoRuntime]
          ELSE runtime' = [runtime EXCEPT ![e] = Opened(c, messages)]
       /\ turn' = Told(c.n, Len(messages), "none")
       /\ UNCHANGED spent
    \/ /\ ~InFlight(runtime[e]) /\ Spend
       /\ runtime' = [runtime EXCEPT ![e] = NoRuntime]
       /\ turn' = Ended(c.n, "error")

StartChat(e) ==
    /\ Command(e, "start")
    /\ Taken(e)
    /\ Start(e, Head(queue[e]), Head(queue[e]).messages)
    /\ UNCHANGED Controlled

\* The backends append what they did not generate themselves.
Appendable(messages) == Among(messages, {m \in Range(messages) : m.role # "assistant"})

\* A runtime between turns, with what it generated last.
Idle(r, reply) ==
    [r EXCEPT !.state = "idle", !.context = @ \o reply, !.n = 0, !.asked = <<>>, !.wants = <<>>]

Continued(r, c) ==
    [r EXCEPT !.turns = @ \cup {c.n}, !.n = c.n,
              !.state = IF c.capture THEN "capturing" ELSE "generating",
              !.context = @ \o Appendable(c.messages), !.asked = c.asked, !.wants = c.pins]

ContinueChat(e) ==
    LET c == Head(queue[e])
        r == runtime[e]
    IN  /\ Command(e, "continue") /\ r # NoRuntime
        /\ Taken(e)
        /\ \/ /\ InFlight(r)
              /\ turn' = Ended(c.n, "error")
              /\ UNCHANGED <<runtime, spent>>
           \/ /\ ~InFlight(r)
              /\ IF c.capture /\ ~Reading(c.n)
                 THEN runtime' = [runtime EXCEPT ![e] = NoRuntime]
                 ELSE runtime' = [runtime EXCEPT ![e] = Continued(r, c)]
              /\ turn' = Told(c.n, Len(c.messages), "none")
              /\ UNCHANGED spent
           \/ /\ ~InFlight(r) /\ Spend   \* the puller could not be attached
              /\ runtime' = [runtime EXCEPT ![e] =
                    IF c.capture THEN NoRuntime ELSE Idle(Continued(r, c), <<>>)]
              /\ turn' = Ended(c.n, "error")
        /\ UNCHANGED Controlled

\* The runtime is gone: rebuilt from the prefix the command carries.
Rebuild(e) ==
    LET c == Head(queue[e])
    IN  /\ Command(e, "continue") /\ runtime[e] = NoRuntime
        /\ Taken(e)
        /\ Start(e, c, c.prefix \o c.messages)
        /\ UNCHANGED Controlled

StopChat(e) ==
    /\ Command(e, "stop")
    /\ Taken(e)
    /\ runtime' = [runtime EXCEPT ![e] = NoRuntime]
    /\ turn' = IF InFlight(runtime[e]) THEN Ended(runtime[e].n, "stopped") ELSE turn
    /\ UNCHANGED <<Controlled, spent>>

\* The generation ends by itself with a reply.  A reader that is gone makes
\* it end without one, and takes the runtime along.
Finish(e) ==
    /\ runtime[e].state = "generating"
    /\ \E reply \in {Answer, CallOf(Len(s.records) + 1)} :
          /\ runtime' = [runtime EXCEPT ![e] =
                IF Reading(@.n) THEN Idle(@, <<reply>>)
                ELSE NoRuntime]
          /\ turn' = Ended(runtime[e].n, IF reply = Answer THEN "answer" ELSE "call")
    /\ UNCHANGED <<Controlled, queue, spent>>

\* A decode error or a panic takes the runtime; a timeout leaves it, idle.
Break(e) ==
    /\ InFlight(runtime[e]) /\ Spend
    /\ \/ runtime' = [runtime EXCEPT ![e] = NoRuntime]
       \/ runtime' = [runtime EXCEPT ![e] = Idle(@, <<Partial>>)]
    /\ turn' = Ended(runtime[e].n, "error")
    /\ UNCHANGED <<Controlled, queue>>

\* Evicted for another chat, idle too long, or unloaded with its model.
Evict(e) ==
    /\ runtime[e].state = "idle"
    /\ runtime' = [runtime EXCEPT ![e] = NoRuntime]
    /\ UNCHANGED <<Controlled, queue, turn, spent>>

-----------------------------------------------------------------------------
(* Other threads of the process. *)

\* load_model, unload_model and reload_model: the controller ends every
\* runtime before it answers; the caller notes it afterwards.
Swap(e) ==
    /\ ~swapping[e] /\ Spend
    /\ swapping' = [swapping EXCEPT ![e] = TRUE]
    /\ runtime' = [runtime EXCEPT ![e] = NoRuntime]
    /\ turn' = IF InFlight(runtime[e]) THEN Ended(runtime[e].n, "stopped") ELSE turn
    /\ UNCHANGED <<session, binding, sent, generation, queue, turns, history, warm>>

NoteSwap(e) ==
    /\ swapping[e]
    /\ swapping' = [swapping EXCEPT ![e] = FALSE]
    /\ generation' = [generation EXCEPT ![e] = @ + 1]
    /\ sent' = [sent EXCEPT ![e] = 0]
    /\ warm' = NoEngine
    /\ UNCHANGED <<session, binding, queue, runtime, turn, turns, spent, history>>

\* mark_sent for one session too many clears everybody's counts.
ClearSent(e) ==
    /\ sent[e] # 0 /\ Spend
    /\ sent' = [sent EXCEPT ![e] = 0]
    /\ warm' = NoEngine
    /\ UNCHANGED <<session, binding, generation, swapping, queue, runtime, turn, turns,
                   history>>

\* Canceller::cancel from any thread, while the turn runs.
Cancel ==
    /\ turn # NoTurn /\ Spend
    /\ queue' = [queue EXCEPT ![turn.engine] = Append(@, [kind |-> "stop", n |-> turn.n])]
    /\ UNCHANGED <<session, binding, sent, generation, swapping, runtime, turn, turns,
                   history, warm>>

-----------------------------------------------------------------------------
(* The caller, reading its stream. *)

\* commit: the staged messages and the recording become the session's.
Commit ==
    LET e == turn.engine
    IN  /\ turn # NoTurn /\ turn.api = "microphone"
        /\ turn.got > 0 /\ turn.staged # <<>>
        /\ runtime[e].state = "capturing" /\ runtime[e].n = turn.n
        /\ runtime' = [runtime EXCEPT ![e].state = "generating"]
        /\ s' = AddedAll(s, turn.staged)
        /\ Do(Additions(turn.staged))
        /\ turn' = [turn EXCEPT !.staged = <<>>]
        /\ UNCHANGED <<binding, sent, generation, swapping, queue, turns, spent,
                       history, warm>>

\* A slip: the reply that follows is not marked as the engine's own.
SettledForeign(b) ==
    LET e == turn.engine
        count == (IF b.opened THEN sent[e] ELSE 0) + turn.got
    IN  IF turn.got = 0 THEN [b |-> b, sent |-> sent]
        ELSE [b |-> [b EXCEPT !.opened = TRUE, !.prefix = Digest(s, count, turn.tools)],
              sent |-> [sent EXCEPT ![e] = count]]

\* settle: what the engine acknowledged becomes what it is believed to hold.
Settled(b) ==
    LET e == turn.engine
        count == (IF b.opened THEN sent[e] ELSE 0) + turn.got
    IN  IF turn.got = 0 THEN [b |-> b, sent |-> sent]
        ELSE [b |-> [b EXCEPT !.opened = TRUE, !.prefix = Digest(s, count, turn.tools),
                              !.own = TRUE],
              sent |-> [sent EXCEPT ![e] = count]]

Reply ==
    CASE turn.end = "answer" -> <<Answer>>
      [] turn.end = "call" -> <<CallOf(Len(s.records) + 1)>>
      [] OTHER -> <<>>

Replied(reply, b) ==
    /\ s' = AddedAll(s, reply)
    /\ Do(Additions(reply))
    /\ bk' = b

\* StreamCore::complete, and Chat::send reading its stream to the end: the
\* acknowledgement is recorded, then the reply.  A cancelled turn keeps what
\* it produced, or nothing.
Complete ==
    LET e == turn.engine
        cancelled == turn.end = "stopped"
        after == Settled(bk)
    IN  /\ turn # NoTurn /\ turn.staged = <<>>
        /\ turn.end \in {"answer", "call", "stopped"}
        /\ sent' = after.sent
        /\ \E partial \in (IF cancelled THEN {<<>>, <<Partial>>} ELSE {<<>>}) :
              Replied(IF cancelled THEN partial ELSE Reply,
                      IF turn.api # "chat" /\ (cancelled \/ turn.closes)
                      THEN Closed(after.b) ELSE after.b)
        /\ turn' = NoTurn
        /\ warm' = IF /\ ~cancelled /\ ~turn.closes /\ turn.tools = s.tools
                      /\ sent'[e] = Len(Transcript(s, s.system)) /\ sent'[e] > 0
                      /\ generation[e] = bk.gen
                   THEN e ELSE NoEngine
        /\ UNCHANGED <<parked, bound, generation, swapping, queue, runtime, turns, spent,
                       history>>

\* The turn ends without its outcome reaching the session.
Unsettled(closed) ==
    /\ turn' = NoTurn
    /\ bk' = IF closed THEN Closed(bk) ELSE bk
    /\ unsettled' = IF bk.opened /\ ~closed THEN unsettled \cup {turn.n} ELSE unsettled
    /\ UNCHANGED <<session, parked, bound, generation, swapping, runtime, turns, spent, edited>>

\* A stream dropped before its end, a committed capture's among them, an error
\* event, a Chat::stream whatever its end: nothing is written back.
Leave ==
    /\ turn # NoTurn /\ turn.staged = <<>>
    /\ turn.api = "chat" => turn.end = "error"   \* Chat::send reads to the end
    /\ Unsettled(FALSE)
    /\ UNCHANGED <<sent, queue, warm>>

\* AsyncEventStream's drop cancels and closes.
LeaveAsync ==
    /\ turn # NoTurn /\ turn.api = "turn"
    /\ Unsettled(TRUE)
    /\ queue' = [queue EXCEPT ![turn.engine] = Append(@, [kind |-> "stop", n |-> turn.n])]
    /\ UNCHANGED <<sent, warm>>

\* MicrophoneTurn's drop, before a commit that went through: stop, forget, close.
LeaveMicrophone ==
    /\ turn # NoTurn /\ turn.api = "microphone" /\ turn.staged # <<>>
    /\ Unsettled(TRUE)
    /\ queue' = [queue EXCEPT ![turn.engine] = Append(@, [kind |-> "stop", n |-> turn.n])]
    /\ sent' = [sent EXCEPT ![turn.engine] = 0]
    /\ UNCHANGED warm

-----------------------------------------------------------------------------
Init ==
    /\ s = BlankLog /\ saved = BlankLog
    /\ bk = NoBinding /\ parked = [e \in Engines |-> NoBinding] /\ bound = NoEngine
    /\ sent = [e \in Engines |-> 0]
    /\ generation = [e \in Engines |-> 0]
    /\ swapping = [e \in Engines |-> FALSE]
    /\ queue = [e \in Engines |-> <<>>]
    /\ runtime = [e \in Engines |-> NoRuntime]
    /\ turn = NoTurn
    /\ turns = 0 /\ spent = 0
    /\ unsettled = {} /\ edited = {}
    /\ warm = NoEngine

Shown == View(s.active, s.records)

Owner ==
    \/ \E x \in Systems : SetSystem(x)
    \/ \E x \in Tools : SetTools(x)
    \/ \E m \in Pushed : Push(m)
    \/ \E slot \in DOMAIN s.active : ReplaceMessage(slot) \/ RemoveMessage(slot)
    \/ ReplaceMessages
    \/ \E V \in SUBSET DOMAIN s.records : RestoreContext(V)
    \/ \E slot \in DOMAIN s.active :
          \/ Edit(RemoveAt(Shown, slot))
          \/ Edit([Shown EXCEPT ![slot] = Rewritten])
    \/ Clear
    \/ Fork(s.active, 0)
    \/ \E slot \in DOMAIN s.active : Fork(SubSeq(s.active, 1, slot), s.active[slot])
    \/ Reopen
    \/ \E e \in Engines, m \in Pushed : Refuse(e, m, 0)

Run ==
    \E e \in Engines, q \in Requests : Dispatch(e, q.api, q.staged, q.over, q.thinking)

Reader == Complete \/ Leave \/ LeaveAsync \/ LeaveMicrophone \/ Commit \/ Cancel

Controllers ==
    \E e \in Engines :
        \/ StartChat(e) \/ ContinueChat(e) \/ Rebuild(e) \/ StopChat(e)
        \/ Finish(e) \/ Break(e) \/ Evict(e)

Others == \E e \in Engines : Swap(e) \/ NoteSwap(e) \/ ClearSent(e)

Next == Owner \/ Run \/ Reader \/ Controllers \/ Others

Spec == Init /\ [][Next]_vars

-----------------------------------------------------------------------------
(* Properties *)

\* Every variable stays within its type; the active projection names records,
\* each at most once.
TypeOK ==
    /\ s.system \in Systems /\ s.tools \in Tools
    /\ Len(s.records) <= MaxRecords
    /\ \A i \in DOMAIN s.active : s.active[i] \in DOMAIN s.records
    /\ IsInjective(s.active)
    /\ bound \in Engines \cup {NoEngine} /\ warm \in Engines \cup {NoEngine}
    /\ sent \in [Engines -> Nat] /\ generation \in [Engines -> Nat]
    /\ \A e \in Engines :
          /\ runtime[e].state \in {"none", "idle", "generating", "capturing"}
          /\ parked[e].opened => e # bound
    /\ turns \in 0 .. MaxTurns /\ spent \in 0 .. MaxSteps

\* However the session was edited, whatever engine it was run on and whatever
\* was evicted, swapped or forgotten meanwhile, a turn that is accepted runs
\* on exactly the transcript it was dispatched with, under its prompt, tools
\* and reasoning policy ("slower, never wrong", chat.rs begin).  Excepted are
\* a runtime that took in a turn whose outcome never reached an open session
\* or was rolled back from it, and one whose reply an edit took away while its engine was put aside.
Excepted == unsettled \cup edited

ViewIsTranscript ==
    \A e \in Engines :
        InFlight(runtime[e]) /\ runtime[e].turns \cap Excepted = {} =>
            /\ runtime[e].context = runtime[e].asked
            /\ runtime[e].pins = runtime[e].wants

\* The same without the second exception: "if the session comes back to it with
\* the prefix intact, the next turn appends instead of re-prefilling ... parking
\* never asserts anything" (session.rs note_engine).
ParkedIsTranscript ==
    \A e \in Engines :
        InFlight(runtime[e]) /\ runtime[e].turns \cap unsettled = {} =>
            runtime[e].context = runtime[e].asked

\* The model never sees what the caller said twice: whatever became of earlier
\* turns, "the next one rebuilds - slower, never wrong" (chat.rs begin).
Said(messages) == Len(SelectSeq(messages, LAMBDA m : m.role = "user"))
SeenOnce ==
    \A e \in Engines :
        InFlight(runtime[e]) => Said(runtime[e].context) <= Said(runtime[e].asked)

\* The event log is the truth: reading it back yields the very session the
\* caller holds, well formed, after any sequence of edits, forks and turns.
Restored == TypeOK /\ saved = s

\* Owning the history costs nothing in speed: after a turn that settled, the
\* next one on that engine, with nothing but messages of the user and of tools
\* added in between, is a continuation and not a new start.
FollowUpIsWarm == turn # NoTurn => ~turn.cold
=============================================================================
