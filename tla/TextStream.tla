----------------------------- MODULE TextStream -----------------------------
(***************************************************************************)
(* A generated reply on its way to the reader.  The backend samples tokens *)
(* of its vocabulary and passes their text through the output filter       *)
(* (backend/common/output_filter.rs), which stops at a stop sequence and   *)
(* takes tool calls out; the events reach the assembler of the turn        *)
(* (api/event.rs), which splits reasoning from visible text and builds the *)
(* message.  Every stage holds text back until later tokens decide it.     *)
(***************************************************************************)
EXTENDS TextParsers

CONSTANTS Vocabularies,  \* [tokens, most]: sets of tokens a model may emit, and how many
          Spaces,        \* fragments that are white space
          Newline,       \* the one of them that ends a line
          Words          \* fragments that are neither markup nor space

VARIABLES
    vocabulary, \* the model generating
    text,       \* history: everything decoded so far
    produced,   \* tokens sampled
    filter,     \* the output filter
    pending,    \* events ready for the puller's caller
    reply       \* the assembler

vars == <<vocabulary, text, produced, filter, pending, reply>>

-----------------------------------------------------------------------------
(* The output filter: accumulated text, tokens held, tool parser, done. *)

NewFilter == [acc |-> <<>>, held |-> <<>>, parser |-> NewParser, done |-> FALSE]

\* The held tokens as far as the first n fragments go, each a push of its own.
EmitChunks(parser, held, n) ==
    LET Chunk(st, t) ==
            LET cut == Upto(t, Min({Len(t), st.left}))
            IN  [p |-> IF cut = <<>> THEN st.p ELSE ParserPush(st.p, cut), left |-> st.left - Len(cut)]
    IN  FoldLeft(Chunk, [p |-> parser, left |-> n], held).p

EmitHeld(parser, held) == EmitChunks(parser, held, Len(FlattenSeq(held)))

\* `events` is what a step of the filter adds to the pending queue.
Filtered(f, events) == [filter |-> f, events |-> events]
Passed(f, parser) ==
    Filtered([f EXCEPT !.acc = <<>>, !.held = <<>>, !.parser = [parser EXCEPT !.out = <<>>]], parser.out)
Ended(f, parser) ==
    Filtered([f EXCEPT !.acc = <<>>, !.held = <<>>, !.parser = [parser EXCEPT !.out = <<>>], !.done = TRUE],
             Append(parser.out, [kind |-> "end"]))

PushToken(f, token) ==
    LET acc == f.acc \o token
        held == Append(f.held, token)
        state == StopState(acc)
    IN  IF StopPatterns = {} THEN Passed(f, ParserPush(f.parser, token))
        ELSE CASE state = "clean" -> Passed(f, EmitHeld(f.parser, held))
               [] state = "partial" -> Filtered([f EXCEPT !.acc = acc, !.held = held], <<>>)
               [] state = "full" -> Ended(f, ParserFlush(EmitChunks(f.parser, held, EmitAt(acc))))

\* Variant: The held tokens are dropped at the end.
FinalizeTextDropping(f) == Ended(f, ParserFlush(f.parser))

\* A terminal signal from outside the matcher: what was held is content.
FinalizeText(f) == Ended(f, ParserFlush(EmitHeld(f.parser, f.held)))

-----------------------------------------------------------------------------
(* The assembler: the splitter, the parts so far, the channel of the open    *)
(* run, white space held at its end, whether a scaffold was seen, the calls. *)

NewReply == [splitter |-> NewSplitter, parts |-> <<>>, open |-> "none", held |-> <<>>,
             scaffolded |-> FALSE, calls |-> <<>>, finished |-> FALSE]

Leading(t, set) == Max({k \in 0 .. Len(t) : \A i \in 1 .. k : t[i] \in set})
Trailing(t, set) == Max({k \in 0 .. Len(t) : \A i \in Len(t) - k + 1 .. Len(t) : t[i] \in set})

CloseRun(r) == [r EXCEPT !.open = "none", !.held = <<>>]

\* A run's first white space is the template's.
TrimFresh(r, e) ==
    CASE e.channel = "reasoning" -> From(e.text, Leading(e.text, Spaces))
      [] e.channel = "visible" /\ r.scaffolded -> From(e.text, Leading(e.text, {Newline}))
      [] OTHER -> e.text

AddText(r, channel, chunk, fresh) ==
    IF ~fresh /\ r.parts # <<>> /\ Last(r.parts).channel = channel
    THEN [r EXCEPT !.parts[Len(r.parts)].text = @ \o chunk]
    ELSE [r EXCEPT !.parts = Append(@, [channel |-> channel, text |-> chunk])]

\* `emit`: one channel-tagged stretch of text.
Emit(r0, e) ==
    LET r1 == [r0 EXCEPT !.scaffolded = @ \/ e.channel = "reasoning"]
        r == IF r1.open # e.channel THEN CloseRun(r1) ELSE r1
        fresh == r.open = "none"
        new == IF fresh THEN TrimFresh(r, e) ELSE e.text
        whole == r.held \o new
        kept == IF e.channel = "reasoning" THEN Len(whole) - Trailing(whole, Spaces) ELSE Len(whole)
        opened == [r EXCEPT !.open = e.channel, !.held = From(whole, kept)]
    IN  CASE new = <<>> -> r
          [] new # <<>> /\ kept = 0 -> opened
          [] OTHER -> AddText(opened, e.channel, Upto(whole, kept), fresh)

EmitAll(r, splitter) ==
    FoldLeft(Emit, [r EXCEPT !.splitter = [splitter EXCEPT !.out = <<>>]], splitter.out)

PushEvent(r, e) ==
    CASE e.kind = "text" -> EmitAll(r, SplitterPush(r.splitter, e.text))
      [] e.kind = "call" -> [r EXCEPT !.calls = Append(@, e.format)]
      [] e.kind = "end" -> [CloseRun(EmitAll(r, FlushPending(r.splitter))) EXCEPT !.finished = TRUE]

-----------------------------------------------------------------------------
(* Behaviour *)

Init ==
    /\ vocabulary \in Vocabularies
    /\ text = <<>>
    /\ produced = 0
    /\ filter = NewFilter
    /\ pending = <<>>
    /\ reply = NewReply

Step(r) == filter' = r.filter /\ pending' = r.events

\* The puller samples only when nothing is pending and it has not ended.
Sample(token) ==
    /\ pending = <<>> /\ ~filter.done
    /\ produced < vocabulary.most
    /\ produced' = produced + 1
    /\ text' = text \o token
    /\ Step(PushToken(filter, token))
    /\ UNCHANGED <<vocabulary, reply>>

\* The end-of-generation token, the token limit or the stop flag.
Finalize ==
    /\ pending = <<>> /\ ~filter.done
    /\ Step(FinalizeText(filter))
    /\ UNCHANGED <<vocabulary, text, produced, reply>>

Deliver ==
    /\ pending # <<>>
    /\ reply' = PushEvent(reply, Head(pending))
    /\ pending' = Tail(pending)
    /\ UNCHANGED <<vocabulary, text, produced, filter>>

Next ==
    \/ \E token \in vocabulary.tokens : Sample(token)
    \/ Finalize
    \/ Deliver

Spec == Init /\ [][Next]_vars

-----------------------------------------------------------------------------
(* Properties *)

TypeOK ==
    /\ vocabulary \in Vocabularies
    /\ produced \in 0 .. vocabulary.most
    /\ filter.done \in BOOLEAN
    /\ FlattenSeq(filter.held) = filter.acc
    /\ filter.parser.think \in Formats \cup {NoThink}
    /\ reply.open \in {"none", "visible", "reasoning"}
    /\ reply.splitter.channel \in {"visible", "reasoning"}
    /\ \A i \in DOMAIN reply.parts : reply.parts[i].channel \in {"visible", "reasoning"}

\* The message and the calls of a reply, and those of one generated as a
\* single token.
Message(r) == [parts |-> r.parts, calls |-> r.calls]
InOnePiece(t) ==
    LET first == PushToken(NewFilter, t)
        last == IF first.filter.done THEN Filtered(first.filter, <<>>) ELSE FinalizeText(first.filter)
    IN  FoldLeft(PushEvent, NewReply, first.events \o last.events)

\* The message and the calls depend on the text the model wrote and not on
\* where its tokens happened to end, for the cuts the vocabularies make: stops,
\* white space and the markers of reasoning and of calls are found across token
\* boundaries (reply_parts.rs holds a shorter marker back to preserve
\* "streaming/batch equivalence"; the stop matcher and the tool parser hold the
\* beginnings of theirs).  The marker of a rehearsed call is never cut
\* inside: behind its bracket, a cut loses the call (SplitNameIsSeen).
CutsDoNotMatter == reply.finished => Message(reply) = Message(InOnePiece(text))

\* What the reader must be shown: the words up to the stop, in order.
Wanted == SelectSeq(IF Stops(text) = {} THEN text ELSE Upto(text, EmitAt(text)),
                    LAMBDA w : w \in Words)
Shown == SelectSeq(FlattenSeq([i \in DOMAIN reply.parts |-> reply.parts[i].text]),
                   LAMBDA w : w \in Words)

\* Nothing the model wrote before the stop is dropped, repeated or reordered
\* by the three holds, whatever was being held when the reply ended
\* (output_filter.rs finalize: dropping the held tokens "lost three legit
\* content tokens"), and nothing after the stop is shown.
\* What was shown on the way never has to be taken back: no part of a stop is
\* ever streamed.  And the filter holds the tokens whose text it has accumulated.
NothingLost == TypeOK /\ IsPrefix(Shown, Wanted) /\ (reply.finished => Shown = Wanted)

\* tool_calls.rs:99-101: the trailing run of name characters is held "so a split
\* `name[ARGS]{..}` rehearsal still sees its name".
SplitNameIsSeen == reply.finished => reply.calls = InOnePiece(text).calls
=============================================================================
