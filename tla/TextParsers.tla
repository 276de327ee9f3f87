---------------------------- MODULE TextParsers ----------------------------
(***************************************************************************)
(* The three incremental scanners a generated reply goes through: the stop *)
(* matcher (backend/common/stop_matcher.rs), the tool-call parser          *)
(* (backend/common/tool_calls.rs) and the splitter of reasoning from       *)
(* visible text (generation/reply_parts.rs).                               *)
(*                                                                         *)
(* Text is a sequence of fragments: the pieces of the markers a chunk      *)
(* boundary may fall between, and words that stand for everything else.    *)
(* What a JSON body holds is reduced to whether it decodes.                *)
(***************************************************************************)
EXTENDS Integers, Sequences, SequencesExt, FiniteSets

CONSTANTS StopPatterns,  \* [text, keep]: a stop and how much of it is content
          Formats,       \* [kind, open, close]: think scaffolds and call formats
          Opens, Closes, \* markers that begin and end reasoning for the splitter
          NameFragments, \* fragments a tool name may be made of
          Enabled        \* the enabled tool names, each a sequence of fragments

ASSUME KindsAssumption ==
    \A f \in Formats : f.kind \in {"think", "closed", "native", "rehearsal"}

From(s, k) == SubSeq(s, k + 1, Len(s))      \* what follows the first k fragments
Upto(s, k) == SubSeq(s, 1, k)

\* How many fragments precede each occurrence of p in s.
Occurrences(p, s) == {k \in 0 .. Len(s) - Len(p) : SubSeq(s, k + 1, k + Len(p)) = p}

\* The longest end of s that is the beginning, and not the whole, of a literal.
Undecided(s, literals) ==
    Max({0} \cup {k \in 1 .. Len(s) : \E l \in literals : IsStrictPrefix(From(s, Len(s) - k), l)})

-----------------------------------------------------------------------------
(* Stops *)

\* The earliest stop in the accumulated text: where its kept part ends.
Stops(s) == {<<k, p>> \in (0 .. Len(s)) \X StopPatterns : k \in Occurrences(p.text, s)}

EmitAt(s) == LET first == CHOOSE m \in Stops(s) : \A o \in Stops(s) : m[1] <= o[1]
             IN  first[1] + first[2].keep

StopState(s) ==
    CASE Stops(s) # {} -> "full"
      [] Stops(s) = {} /\ Undecided(s, {p.text : p \in StopPatterns}) > 0 -> "partial"
      [] OTHER -> "clean"

-----------------------------------------------------------------------------
(* Tool calls.  A parser holds back `buf`, is inside the reasoning block     *)
(* `think` or in none, and has released `out`: stretches of text and calls.  *)

NoThink == [kind |-> "none"]
NewParser == [buf |-> <<>>, think |-> NoThink, out |-> <<>>]
TextOut(t) == IF t = <<>> THEN <<>> ELSE <<[kind |-> "text", text |-> t]>>
CallOut(f) == <<[kind |-> "call", format |-> f.kind]>>

\* Literals whose beginning may be waiting at the end of the buffer.
HoldLiterals == {f.open : f \in Formats}

\* Triggers in the buffer and the earliest of them.
TriggersIn(b) == {<<k, f>> \in (0 .. Len(b)) \X Formats : k \in Occurrences(f.open, b)}
FirstTrigger(b) == CHOOSE t \in TriggersIn(b) : \A o \in TriggersIn(b) : t[1] <= o[1]

\* How long a run of name fragments the text ends with.
NameRun(b) ==
    Max({k \in 0 .. Len(b) : \A i \in Len(b) - k + 1 .. Len(b) : b[i] \in NameFragments})

\* Variant: Only the beginnings of literals are held, not a name before one.
SafeEndUnnamed(b) == Len(b) - Undecided(b, HoldLiterals)

\* What of the buffer may be released when no trigger is in it.
SafeEnd(b) ==
    LET literal == Len(b) - Undecided(b, HoldLiterals)
        named == Len(b) - NameRun(b)
    IN  IF \E f \in Formats : f.kind = "rehearsal" THEN Min({literal, named}) ELSE literal

\* A body runs from its brace to the one that balances it; it decodes when
\* nothing but the two braces is in it.
Balanced(b) == {k \in 1 .. Len(b) : b[k] = "}"}
Decodes(body) == body = <<"{", "}">>

NeedMore(k) == [go |-> "more", keep |-> k]
NotACall(k) == [go |-> "text", keep |-> k]
EnterThink(k) == [go |-> "think", keep |-> k]
Judged(body, from, end) ==
    IF Decodes(body) THEN [go |-> "call", keep |-> from, end |-> end] ELSE NotACall(end)

\* `<tool_call>..</tool_call>`, `<function=..>..</function>`: nothing is
\* decided before the close tag.
ResolveClosed(b, at, f) ==
    LET start == at + Len(f.open)
        closes == Occurrences(f.close, From(b, start))
        body == Upto(From(b, start), Min(closes))
    IN  IF closes = {} THEN NeedMore(at)
        ELSE Judged(body, at, start + Len(body) + Len(f.close))

\* Gemma's and Mistral's forms: a balanced body right after the tag, then a
\* close tag that may be missing.
ResolveNative(b, at, f, atEos) ==
    LET start == at + Len(f.open)
        rest == From(b, start)
        ends == Balanced(rest)
        body == Upto(rest, Min(ends))
        tail == From(rest, Min(ends))
        closed == IF IsPrefix(f.close, tail) THEN Len(f.close) ELSE 0
    IN  CASE rest = <<>> -> NeedMore(at)
          [] rest # <<>> /\ Head(rest) # "{" -> NotACall(start)
          [] rest # <<>> /\ Head(rest) = "{" ->
               IF ends = {} \/ (~atEos /\ IsStrictPrefix(tail, f.close)) THEN NeedMore(at)
               ELSE Judged(body, at, start + Len(body) + closed)

\* `name[ARGS]{..}`: a call only when the name before the marker is enabled.
ResolveRehearsal(b, at, f) ==
    LET named == at - NameRun(Upto(b, at))
        start == at + Len(f.open)
        rest == From(b, start)
        ends == Balanced(rest)
        body == Upto(rest, Min(ends))
    IN  CASE SubSeq(b, named + 1, at) \notin Enabled -> NotACall(start)
          [] SubSeq(b, named + 1, at) \in Enabled /\ (rest = <<>> \/ (Head(rest) = "{" /\ ends = {})) ->
               NeedMore(named)
          [] SubSeq(b, named + 1, at) \in Enabled /\ rest # <<>> /\ Head(rest) # "{" -> NotACall(start)
          [] OTHER -> Judged(body, named, start + Len(body))

Resolve(b, at, f, atEos) ==
    CASE f.kind = "think" -> EnterThink(at + Len(f.open))
      [] f.kind = "closed" -> ResolveClosed(b, at, f)
      [] f.kind = "native" -> ResolveNative(b, at, f, atEos)
      [] f.kind = "rehearsal" -> ResolveRehearsal(b, at, f)

\* Release k fragments of the buffer as text.
Release(p, k) == [p EXCEPT !.buf = From(@, k), !.out = @ \o TextOut(Upto(p.buf, k))]

\* Inside a reasoning block everything up to its own close marker is text.
ThinkEnd(p) ==
    LET closes == Occurrences(p.think.close, p.buf)
    IN  IF closes = {} THEN Len(p.buf) - Undecided(p.buf, {p.think.close})
        ELSE Min(closes) + Len(p.think.close)
ThinkCloses(p) == Occurrences(p.think.close, p.buf) # {}

RECURSIVE Drain(_, _)
Drain(p, atEos) ==
    CASE p.think # NoThink ->
           IF ThinkCloses(p)
           THEN Drain([Release(p, ThinkEnd(p)) EXCEPT !.think = NoThink], atEos)
           ELSE Release(p, ThinkEnd(p))
      [] p.think = NoThink /\ TriggersIn(p.buf) = {} -> Release(p, SafeEnd(p.buf))
      [] OTHER ->
           LET t == FirstTrigger(p.buf)
               r == Resolve(p.buf, t[1], t[2], atEos)
               q == Release(p, r.keep)
           IN  CASE r.go = "more" -> q
                 [] r.go = "text" -> Drain(q, atEos)
                 [] r.go = "think" -> Drain([q EXCEPT !.think = t[2]], atEos)
                 [] r.go = "call" ->
                      Drain([q EXCEPT !.buf = From(p.buf, r.end), !.out = @ \o CallOut(t[2])], atEos)

ParserPush(p, text) == Drain([p EXCEPT !.buf = @ \o text], FALSE)

\* The end of the stream: a balanced call resolves, the rest is text.
ParserFlush(p) ==
    LET q == Drain(p, TRUE)
    IN  IF p.buf = <<>> THEN p ELSE [Release(q, Len(q.buf)) EXCEPT !.think = NoThink]

-----------------------------------------------------------------------------
(* Channels.  A splitter is in a channel and carries the beginning of what   *)
(* may become a marker; it emits stretches of text with their channel.       *)

NewSplitter == [channel |-> "visible", carry |-> <<>>, run |-> <<>>, out |-> <<>>]

Markers(channel) == IF channel = "visible" THEN Opens ELSE Closes
Other(channel) == IF channel = "visible" THEN "reasoning" ELSE "visible"

EndRun(sp) ==
    [sp EXCEPT !.run = <<>>,
               !.out = IF sp.run = <<>> THEN @ ELSE Append(@, [channel |-> sp.channel, text |-> sp.run])]

\* A marker of the channel, shorter or longer, may still complete.
MayExtend(buf, channel) == \E m \in Markers(channel) : IsStrictPrefix(buf, m)
Matching(buf, channel) == {m \in Markers(channel) : m # <<>> /\ IsPrefix(m, buf)}

RECURSIVE Scan(_, _)
Scan(sp, buf) ==
    CASE buf = <<>> -> EndRun(sp)
      [] buf # <<>> /\ MayExtend(buf, sp.channel) -> [EndRun(sp) EXCEPT !.carry = buf]
      [] OTHER ->
           LET matched == Matching(buf, sp.channel)
           IN  IF matched # {}
               THEN Scan([EndRun(sp) EXCEPT !.channel = Other(@)], From(buf, Max({Len(m) : m \in matched})))
               ELSE Scan([sp EXCEPT !.run = Append(@, Head(buf))], Tail(buf))

SplitterPush(sp, text) == Scan([sp EXCEPT !.carry = <<>>], sp.carry \o text)

\* What was carried is emitted in the channel it was found in.
FlushPending(sp) == EndRun([sp EXCEPT !.carry = <<>>, !.run = sp.carry])
=============================================================================
