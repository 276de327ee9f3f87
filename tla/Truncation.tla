----------------------------- MODULE Truncation -----------------------------
(* Fitting a conversation into a context window: session_rt/truncate.rs,     *)
(* session_rt/compaction.rs, generation_reserve of session_rt/prompt.rs and  *)
(* round_len of journal/turn.rs.  A message is a record with its role, its   *)
(* size in tokens, the ids of the tool calls it makes and the id it answers. *)
EXTENDS Naturals, Sequences, SequencesExt

CONSTANTS
    KeepRecent,     \* DEFAULT_KEEP_RECENT: messages a compaction leaves alone
    MinReserve,     \* 64: the least reserve, where half the window allows it
    SummarySize     \* tokens of a <compact-summary>

ASSUME TruncationAssumption ==
    /\ KeepRecent \in Nat \ {0}
    /\ {MinReserve, SummarySize} \subseteq Nat

NoCall == 0
NoLimit == 0

Lesser(a, b) == IF a <= b THEN a ELSE b
Greater(a, b) == IF a >= b THEN a ELSE b

Tokens(ms) ==
    LET upTo[n \in 0 .. Len(ms)] == IF n = 0 THEN 0 ELSE upTo[n - 1] + ms[n].size
    IN upTo[Len(ms)]

StartsWithSystem(ms) == ms # <<>> /\ Head(ms).role = "system"

\* What is kept free for the reply: max_tokens or a quarter of the window,
\* between the least reserve and half the window.
GenerationReserve(ctx, max_tokens) ==
    LET half == ctx \div 2
        asked == IF max_tokens = NoLimit THEN ctx \div 4 ELSE max_tokens
        least == Greater(Lesser(half, MinReserve), 1)
    IN Lesser(Greater(asked, least), Greater(half, 1))

Limit(ctx, max_tokens) == ctx - Lesser(GenerationReserve(ctx, max_tokens), ctx)

-----------------------------------------------------------------------------
(* Rounds.                                                                  *)

\* Calls of the round that begins at `at` and are not answered at position j.
Awaiting(ms, at) ==
    LET open[j \in at .. Len(ms)] ==
            IF j = at THEN ms[at].calls
            ELSE IF ms[j].calls # {} THEN open[j - 1] \cup ms[j].calls
            ELSE open[j - 1] \ {ms[j].answers}
    IN open

\* Variant: no rounds, as before round_len.
ClosingsNone(ms, at) == {}

\* Where the round is closed: at an answer that leaves nothing open.
Closings(ms, at) ==
    {j \in at + 1 .. Len(ms) :
        /\ ms[j].calls = {} /\ ms[j].answers # NoCall
        /\ Awaiting(ms, at)[j] = {}}

\* How many messages from `at` form one indivisible tool round.
RoundLen(ms, at) ==
    IF ms[at].calls = {} \/ Closings(ms, at) = {} THEN 1
    ELSE (CHOOSE j \in Closings(ms, at) : \A k \in Closings(ms, at) : j <= k) - at + 1

\* The oldest round is dropped whole, or not at all when fewer than two
\* messages would remain.
DropOldestRound(ms, at) ==
    IF \/ at > Len(ms) \/ Len(ms) <= 2
       \/ Len(ms) - RoundLen(ms, at) < 2
    THEN ms
    ELSE SubSeq(ms, 1, at - 1) \o SubSeq(ms, at + RoundLen(ms, at), Len(ms))

Oldest(ms) == IF StartsWithSystem(ms) THEN 2 ELSE 1

-----------------------------------------------------------------------------
(* A new session.                                                           *)

MustTruncate(ms, limit) == Tokens(ms) > limit /\ Len(ms) > 2

\* How many messages the first pass aims to remove.
EstRemove(ms, limit) ==
    Lesser((Tokens(ms) - limit) \div Greater(Tokens(ms) \div Len(ms), 1),
           Len(ms) - Oldest(ms))

-----------------------------------------------------------------------------
(* A session that goes on.                                                  *)

Summary == [role |-> "system", id |-> 0, size |-> SummarySize, calls |-> {}, answers |-> NoCall]

\* Variant: the window of recent messages is one short.
CompactedShort(ms) ==
    LET split == Len(ms) - Lesser(KeepRecent, Len(ms))
        body == Oldest(ms) - 1
    IN IF Len(ms) <= KeepRecent + 3 \/ split <= body THEN ms
       ELSE SubSeq(ms, 1, body) \o <<Summary>> \o SubSeq(ms, split + 2, Len(ms))

\* Everything but the recent messages and the system prompt becomes a summary.
Compacted(ms) ==
    LET split == Len(ms) - Lesser(KeepRecent, Len(ms))
        body == Oldest(ms) - 1
    IN IF Len(ms) <= KeepRecent + 3 \/ split <= body THEN ms
       ELSE SubSeq(ms, 1, body) \o <<Summary>> \o SubSeq(ms, split + 1, Len(ms))

\* Repeating a step until the conversation fits or the step changes nothing:
\* a conversation of n messages needs no more than n steps.
Until(Fits(_), Step(_), ms) ==
    LET after[n \in 0 .. Len(ms)] ==
            IF n = 0 THEN ms
            ELSE LET now == after[n - 1] IN IF Fits(now) THEN now ELSE Step(now)
    IN after[Len(ms)]

\* What WarmStart makes of a conversation; it fails when even that is too long.
WarmStart(ms, limit) ==
    LET short == Until(LAMBDA now : Tokens(now) <= limit, Compacted, ms)
    IN Until(LAMBDA now : Len(now) <= 2 \/ Tokens(now) <= limit,
             LAMBDA now : DropOldestRound(now, Oldest(now)), short)
=============================================================================
