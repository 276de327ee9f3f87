---------------------------- MODULE LlamaSession ----------------------------
(* One chat's session on the llama.cpp backend (backend/llama/session.rs,    *)
(* puller.rs) and the snapshots of it that are kept on disk (kv/, commands.rs*)
(* save_all_chat_kv).  A session holds a transcript and a KV cache that is   *)
(* never re-rendered: replies stand in it as they were sampled, later turns  *)
(* are added as a delta, an overflow clears it and starts over.              *)
(*                                                                           *)
(* The caller keeps the conversation, sends it whole (StartChat) or what is  *)
(* new of it (ContinueChat), and may rewrite it between turns.               *)
EXTENDS Truncation, FiniteSets, FiniteSetsExt

CONSTANTS
    Models,         \* model identities (the header of a snapshot names one)
    Ctx,            \* tokens of the context the session was created with
    MaxTokens,      \* stopping.max_tokens
    ToolsSize,      \* tokens of the tool block; 0 for a session without tools
    Margin,         \* 64: room a restored session must have left
    Sizes,          \* sizes of what users say and tools answer
    Lengths,        \* tokens replies are sampled as, where the context has room
    Others,         \* other chats with snapshots in the store, newest first:
                    \* a sequence of [chat, size]
    KeepFiles, Budget,          \* PIO_KV_KEEP_FILES, PIO_KV_BUDGET_MB
    Stuck,          \* chats whose snapshot file cannot be removed
    MaxMessages,    \* bound: messages of the conversation, and of a transcript
    MaxEdits,       \* bound: rewrites of the conversation
    MaxSaves        \* bound: passes that save snapshots

ASSUME LlamaSessionAssumption ==
    /\ \A i, j \in DOMAIN Others :
          Others[i].chat # "mine" /\ (i # j => Others[i].chat # Others[j].chat)
    /\ Len(Others) \in Nat /\ DOMAIN Others = 1 .. Len(Others)
    /\ \A i \in DOMAIN Others : Others[i].size \in Nat
    /\ {Ctx, MaxTokens, ToolsSize, Margin, KeepFiles, Budget, MaxMessages} \subseteq Nat
    /\ Sizes \subseteq Nat /\ Lengths \subseteq 0 .. MaxTokens

VARIABLES
    model,      \* the model that is loaded
    history,    \* the conversation, as the caller has it
    held,       \* how much of it the caller believes the runtime to have
    live,       \* the runtime: none, starting, pulling, idle, or idle with
                \* its decode state lost (broken)
    sess,       \* Session: model, messages, kv, cur_pos; restored is history
    cut,        \* locals of ColdStart::apply: removed, est_remove
    disk,       \* the store, newest first: chat, size, snap
    count       \* ids handed out, edits and saves made

vars == <<model, history, held, live, sess, cut, disk, count>>

NoSession == [model |-> 0, messages |-> <<>>, kv |-> <<>>, cur_pos |-> 0, restored |-> FALSE]
NoCut == [removed |-> 0, est |-> 0]
NoSnap == [messages |-> <<>>, kv |-> <<>>, cur_pos |-> 0, model |-> 0]

Message(role, size, calls, answers) ==
    [role |-> role, id |-> count.ids + 1, size |-> size, calls |-> calls, answers |-> answers]
NextId == count' = [count EXCEPT !.ids = @ + 1]

\* What Session::new puts before a conversation that has no system message.
System == [role |-> "system", id |-> 0, size |-> 1, calls |-> {}, answers |-> NoCall]
WithSystem(ms) == <<System>> \o ms

Entry(chat, size, snap) == [chat |-> chat, size |-> size, snap |-> snap]

Init ==
    /\ model \in Models
    /\ history = <<>> /\ held = 0
    /\ live = "none" /\ sess = NoSession /\ cut = NoCut
    /\ disk = [i \in DOMAIN Others |-> Entry(Others[i].chat, Others[i].size, NoSnap)]
    /\ count = [ids |-> 0, edits |-> 0, saves |-> 0]

-----------------------------------------------------------------------------
(* The cache: blocks of a message each, rendered or sampled.                *)

Block(m, by) == [of |-> m, by |-> by, size |-> m.size]
ToolBlock == [of |-> [System EXCEPT !.role = "tools"], by |-> "prompt", size |-> ToolsSize]
Rendered(ms) == [i \in DOMAIN ms |-> Block(ms[i], "prompt")]
Prompt(ms) == (IF ToolsSize = 0 THEN <<>> ELSE <<ToolBlock>>) \o Rendered(ms)
Size(kv) == Tokens(kv)

\* What of a sequence is in S, in its order.
Among(s, S) ==
    LET upTo[n \in 0 .. Len(s)] ==
            IF n = 0 THEN <<>>
            ELSE IF s[n] \in S THEN Append(upTo[n - 1], s[n]) ELSE upTo[n - 1]
    IN upTo[Len(s)]

\* Replies are never rendered again: they are in the cache as sampled.
NotReplies(ms) == Among(ms, {m \in ToSet(ms) : m.role # "assistant"})

-----------------------------------------------------------------------------
(* The caller's conversation.                                               *)

Resting == live \notin {"starting", "pulling"}
LastOf(s) == s[Len(s)]
Open(ms) == (UNION {ms[i].calls : i \in DOMAIN ms}) \ {ms[i].answers : i \in DOMAIN ms}
Unanswered == Open(history)
Asking ==
    /\ history # <<>> /\ LastOf(history).role \in {"user", "tool"}
    /\ Unanswered = {}

Say(size) ==
    /\ Resting /\ Len(history) < MaxMessages /\ Unanswered = {}
    /\ history' = Append(history, Message("user", size, {}, NoCall)) /\ NextId
    /\ UNCHANGED <<model, held, live, sess, cut, disk>>

Answer(size) ==
    /\ Resting /\ Len(history) < MaxMessages
    /\ \E c \in Unanswered :
          history' = Append(history, Message("tool", size, {}, c))
    /\ NextId
    /\ UNCHANGED <<model, held, live, sess, cut, disk>>

\* The caller takes messages back, whole rounds of them, or puts a reply in other words. Either
\* closes the conversation: its next turn is a StartChat.
Edit ==
    /\ Resting /\ count.edits < MaxEdits /\ history # <<>>
    /\ \/ \E n \in 0 .. Len(history) - 1 :
             Open(SubSeq(history, 1, n)) = {} /\ history' = SubSeq(history, 1, n)
       \/ /\ LastOf(history).role = "assistant" /\ LastOf(history).calls = {}
          /\ history' = [history EXCEPT ![Len(history)] = Message("assistant", 1, {}, NoCall)]
    /\ held' = 0
    /\ count' = [count EXCEPT !.ids = @ + 1, !.edits = @ + 1]
    /\ UNCHANGED <<model, live, sess, cut, disk>>

-----------------------------------------------------------------------------
(* The snapshots of chats on disk.                                          *)

Without(d, chat) == Among(d, {e \in ToSet(d) : e.chat # chat})
Saved(d, e) == <<e>> \o Without(d, e.chat)

\* Variant: a file that cannot be removed is discounted all the same.
SweptBlind(d) ==
    LET upTo[n \in 0 .. Len(d)] ==
            IF n = 0 THEN <<>>
            ELSE LET kept == upTo[n - 1]
                     left == Among(kept, {e \in ToSet(kept) : e.chat \notin Stuck})
                     goes == n > KeepFiles \/ Tokens(left) + d[n].size > Budget
                 IN IF goes /\ d[n].chat \notin Stuck THEN kept ELSE Append(kept, d[n])
    IN upTo[Len(d)]

\* enforce_budget: newest first, each file beyond the count or past the bytes
\* is removed, and discounted only when it is really gone.
Swept(d) ==
    LET upTo[n \in 0 .. Len(d)] ==
            IF n = 0 THEN <<>>
            ELSE LET kept == upTo[n - 1]
                     goes == n > KeepFiles \/ Tokens(kept) + d[n].size > Budget
                 IN IF goes /\ d[n].chat \notin Stuck THEN kept ELSE Append(kept, d[n])
    IN upTo[Len(d)]

Snap == [messages |-> sess.messages, kv |-> sess.kv, cur_pos |-> sess.cur_pos, model |-> sess.model]

\* A chat at rest is written, a lost one is not, and a write may fail; the
\* sweep comes last.
SaveAll ==
    /\ Resting /\ count.saves < MaxSaves /\ count' = [count EXCEPT !.saves = @ + 1]
    /\ \/ disk' = Swept(disk)
       \/ live = "idle" /\ disk' = Swept(Saved(disk, Entry("mine", Size(sess.kv), Snap)))

\* LoadModel: the runtimes stay, with the weights they were made for.
Load(m) ==
    /\ SaveAll /\ model' = m
    /\ UNCHANGED <<history, held, live, sess, cut>>

\* The idle unload saves and retires every runtime.
Retire == live' = "none" /\ sess' = NoSession /\ UNCHANGED held
Unload == SaveAll /\ Retire /\ UNCHANGED <<model, history, cut>>

\* Evicted for another chat or by UnloadModel: nothing is saved.
Evict == Resting /\ live # "none" /\ Retire /\ UNCHANGED <<model, history, cut, disk, count>>

-----------------------------------------------------------------------------
(* A new session.                                                           *)

\* The snapshot covers the conversation without its last message, or without
\* its last reply and message.
Covers(snap, ms, k) ==
    /\ k > 0 /\ snap.messages = SubSeq(ms, 1, k)
    /\ k = Len(ms) - 2 => ms[k + 1].role = "assistant"
Splits(snap, ms) == {k \in {Len(ms) - 1, Len(ms) - 2} : Covers(snap, ms, k)}

Delta(ms, k) == NotReplies(SubSeq(ms, k + 1, Len(ms)))

\* try_restore, when it does not miss.
Restorable(snap, ms) ==
    /\ snap.model = model /\ snap.cur_pos # 0 /\ Len(ms) >= 2
    /\ \E k \in Splits(snap, ms) :
          Delta(ms, k) # <<>> /\ snap.cur_pos + Tokens(Delta(ms, k)) + Margin < Ctx

Restored(snap, ms) ==
    LET k == Max(Splits(snap, ms))
    IN [model |-> model, messages |-> ms,
        kv |-> snap.kv \o Rendered(Delta(ms, k)),
        cur_pos |-> snap.cur_pos + Tokens(Delta(ms, k)), restored |-> TRUE]

Fresh(ms) ==
    [model |-> model, messages |-> ms, kv |-> Prompt(ms),
     cur_pos |-> Size(Prompt(ms)), restored |-> FALSE]

\* The first pull takes the decode state out of its slot.
Attach(s) == live' = "pulling" /\ sess' = s /\ held' = Len(history)
Refuse == live' = "none" /\ sess' = NoSession /\ UNCHANGED held

\* The prompt is decoded as a whole, or the session does not come to be.
Prefill(ms) ==
    \/ Size(Prompt(ms)) <= Ctx /\ Attach(Fresh(ms))
    \/ Size(Prompt(ms)) > Ctx /\ Refuse

\* StartChat: what the runtime had is dropped, a snapshot is tried, and what is
\* too long is cut before the first decode.
Start ==
    /\ Resting /\ Asking
    /\ LET ms == WithSystem(history)
           snaps == {disk[i].snap : i \in {j \in DOMAIN disk : disk[j].chat = "mine"}}
           usable == {snap \in snaps : Restorable(snap, ms)}
           limit == Limit(Ctx, MaxTokens)
       IN \/ \E snap \in usable : Attach(Restored(snap, ms)) /\ cut' = NoCut
          \/ usable = {} /\ ~MustTruncate(ms, limit) /\ Prefill(ms) /\ cut' = NoCut
          \/ /\ usable = {} /\ MustTruncate(ms, limit)
             /\ live' = "starting" /\ sess' = [NoSession EXCEPT !.messages = ms]
             /\ cut' = [removed |-> 0, est |-> EstRemove(ms, limit)]
             /\ UNCHANGED held
    /\ UNCHANGED <<model, history, disk, count>>

Estimating == cut.removed < cut.est /\ Len(sess.messages) > 2
Overlong == Tokens(sess.messages) > Limit(Ctx, MaxTokens) /\ Len(sess.messages) > 2

\* The first loop drops the estimate; it asks for progress nowhere.
ColdBatch ==
    /\ live = "starting" /\ Estimating
    /\ LET ms == DropOldestRound(sess.messages, Oldest(sess.messages))
       IN /\ sess' = [sess EXCEPT !.messages = ms]
          /\ cut' = [cut EXCEPT !.removed = @ + Len(sess.messages) - Len(ms)]
    /\ UNCHANGED <<model, history, held, live, disk, count>>

\* The second drops until the conversation fits or nothing can go.
ColdTrim ==
    /\ live = "starting" /\ ~Estimating
    /\ LET ms == DropOldestRound(sess.messages, Oldest(sess.messages))
       IN \/ /\ Overlong /\ ms # sess.messages
             /\ sess' = [sess EXCEPT !.messages = ms]
             /\ UNCHANGED <<held, live, cut>>
          \/ /\ ~Overlong \/ ms = sess.messages
             /\ Prefill(sess.messages) /\ cut' = NoCut
    /\ UNCHANGED <<model, history, disk, count>>
-----------------------------------------------------------------------------
(* A reply.                                                                 *)

Room == Ctx - sess.cur_pos

Reply(calls) == Message("assistant", 1, calls, NoCall)
Unread == [Reply({}) EXCEPT !.id = 0]

\* The puller samples n tokens and gives the state back when it is dropped:
\* at the end of the reply, at the token limit, when the context is full, on a
\* stop or a timeout. Rendered, a reply is one token here, sampled as many
\* as it takes.
\* When the caller has read it to its end it is part of the conversation;
\* otherwise the caller starts over.
PullEnd(n, calls) ==
    /\ live = "pulling"
    /\ live' = "idle"
    /\ LET Sampled(r) == [sess EXCEPT !.kv = Append(@, [of |-> r, by |-> "sampled", size |-> n]),
                                      !.cur_pos = @ + n]
       IN \/ n = 0 /\ UNCHANGED <<history, held, sess, count>>
          \/ /\ n > 0 /\ sess' = Sampled(Reply(calls)) /\ NextId
             /\ history' = Append(history, Reply(calls)) /\ UNCHANGED held
          \/ /\ n > 0 /\ sess' = Sampled(Unread) /\ held' = 0
             /\ UNCHANGED <<history, count>>
    /\ UNCHANGED <<model, cut, disk>>
-----------------------------------------------------------------------------
(* A session that goes on: append_messages.                                 *)

New == SubSeq(history, held + 1, Len(history))

\* Variant: the cache is cleared, the position is not.
ClearedAtOld(pos) == pos

\* Where the position is after clear_kv_cache.
ClearedAt(pos) == 0

\* The overflow probe counts the transcript as rendered, without tools; what
\* is too long is compacted and decoded again from nothing, still without.
Overflow(ms) ==
    LET working == WarmStart(ms, Limit(Ctx, MaxTokens))
        from == ClearedAt(sess.cur_pos)
    IN IF Tokens(working) > Limit(Ctx, MaxTokens)
       THEN /\ sess' = [sess EXCEPT !.messages = ms, !.kv = <<>>, !.cur_pos = from]
            /\ live' = "idle" /\ UNCHANGED held
       ELSE Attach([sess EXCEPT !.messages = working, !.kv = Rendered(working),
                                !.cur_pos = from + Tokens(working), !.restored = FALSE])

\* Only what is new and not a reply is decoded; a decode that fails takes the
\* decode state with it.
Extend(ms) ==
    LET delta == NotReplies(New)
    IN IF sess.cur_pos + Tokens(delta) > Ctx
       THEN /\ live' = "broken" /\ UNCHANGED held
            /\ sess' = [sess EXCEPT !.messages = ms, !.kv = <<>>, !.cur_pos = 0]
       ELSE Attach([sess EXCEPT !.messages = ms, !.kv = @ \o Rendered(delta),
                                !.cur_pos = @ + Tokens(delta)])

\* ContinueChat on the runtime the caller began. The transcript is extended
\* first, whatever comes of the rest.
Continue ==
    /\ live \in {"idle", "broken"} /\ held > 0 /\ held < Len(history) /\ Asking
    /\ LET ms == sess.messages \o New
       IN /\ Len(ms) <= MaxMessages + 1
          /\ \/ /\ live = "broken"
                /\ sess' = [sess EXCEPT !.messages = ms] /\ UNCHANGED <<live, held>>
             \/ /\ live = "idle" /\ Tokens(ms) > Limit(Ctx, MaxTokens) /\ Overflow(ms)
             \/ /\ live = "idle" /\ Tokens(ms) <= Limit(Ctx, MaxTokens) /\ Extend(ms)
    /\ UNCHANGED <<model, history, cut, disk, count>>

Next ==
    \/ \E size \in Sizes : Say(size) \/ Answer(size)
    \/ Edit
    \/ \E m \in Models : Load(m)
    \/ Unload \/ Evict
    \/ Start \/ ColdBatch \/ ColdTrim \/ Continue
    \/ \E n \in Lengths, c \in {{}, {count.ids + 1}} : PullEnd(Lesser(n, Room), c)

Fairness == WF_vars(ColdBatch) /\ WF_vars(ColdTrim)

Spec == Init /\ [][Next]_vars
FairSpec == Spec /\ Fairness
-----------------------------------------------------------------------------
(* Properties.                                                              *)

TypeOK ==
    /\ model \in Models
    /\ held \in 0 .. Len(history) /\ Len(history) <= MaxMessages + 1
    /\ live \in {"none", "starting", "pulling", "idle", "broken"}
    /\ cut.removed \in 0 .. Len(sess.messages) + cut.removed
    /\ \A i, j \in DOMAIN disk : disk[i].chat = disk[j].chat => i = j

\* What the cache says: its blocks without the tools and without replies the
\* caller never made part of the transcript.
Spoken ==
    LET said == [i \in DOMAIN sess.kv |-> sess.kv[i].of]
        Counts(m) ==
            /\ m.role # "tools"
            /\ m.role = "assistant" => m \in ToSet(sess.messages)
    IN Among(said, {m \in ToSet(said) : Counts(m)})

\* Whatever was appended, refused, compacted, saved and restored: the cache of a
\* session that can be used holds its transcript, message by message and with
\* each reply in its place (a restore takes the last reply on trust), the
\* position is the end of it, and nothing is generated from an empty cache
\* (session.rs:1672-1690, 1787-1870).
KvIsTranscript ==
    /\ TypeOK
    /\ live \in {"pulling", "idle"} =>
        /\ sess.cur_pos = Size(sess.kv) /\ sess.cur_pos <= Ctx
        /\ sess.kv = <<>> => live = "idle"
        /\ sess.kv # <<>> =>
              IF sess.restored
              THEN NotReplies(Spoken) = NotReplies(sess.messages)
              ELSE Spoken = sess.messages

\* No truncation or compaction takes away what the model is asked, or the
\* system prompt: a reply is generated right behind the message it answers.
AskedIsAnswered ==
    live = "pulling" =>
        /\ LastOf(sess.kv).of = LastOf(history)
        /\ Head(sess.messages).role = "system"

\* Truncation of a new session never separates a call from its result
\* (truncate.rs:180-184).
Paired(ms, i, j) == i < j /\ ms[j].answers # NoCall /\ ms[j].answers \in ms[i].calls
DropsWholeRounds ==
    [][live = "starting" =>
         \A i, j \in DOMAIN sess.messages :
            (Paired(sess.messages, i, j) /\ sess'.messages # <<>>) =>
               (sess.messages[i] \in ToSet(sess'.messages)
                  <=> sess.messages[j] \in ToSet(sess'.messages))]_vars

\* After every sweep the files that could be removed and were kept are the
\* newest and fit the budget together with everything newer that is still
\* there (store.rs:86-101).
StoreWithinBudget ==
    \A i \in DOMAIN disk :
        disk[i].chat \notin Stuck =>
            /\ i <= KeepFiles
            /\ Tokens(SubSeq(disk, 1, i)) <= Budget

-----------------------------------------------------------------------------
(* What the comments say, and the code does not keep.                       *)

\* truncate.rs:8-9: "iterative per-msg drops until fits or only 2 messages
\* remain".
StartReturns == live = "starting" ~> live # "starting"
=============================================================================
