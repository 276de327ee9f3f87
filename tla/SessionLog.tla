----------------------------- MODULE SessionLog -----------------------------
(***************************************************************************)
(* A conversation as its owner holds it (src/src/api/session.rs): the      *)
(* system prompt, the tool set, every message version that ever existed    *)
(* and the active projection, all of them a replay of an append-only event *)
(* log.  This module is the pure part: the events, what a replay makes of  *)
(* them, the tool-round rule and the operations' results.                  *)
(*                                                                         *)
(* A message is its role, a text and, for tool rounds, the calls it makes  *)
(* and the call it answers.  A record's id is its index in "records".      *)
(***************************************************************************)
EXTENDS Integers, Sequences, SequencesExt, FiniteSets

\* A tool result that names no call, and a message that is no result.
IdLess == -1
NoCall == 0

Message(role, text, calls, answers) ==
    [role |-> role, text |-> text, calls |-> calls, answers |-> answers]

User(text) == Message("user", text, <<>>, NoCall)
Assistant(text) == Message("assistant", text, <<>>, NoCall)
Calling(calls) == Message("assistant", "call", calls, NoCall)
ToolResult(call) == Message("tool", "result", <<>>, call)

IsResult(m) == m.role = "tool"

\* What of a list is in S, in its order.
Among(list, S) ==
    LET upTo[n \in 0 .. Len(list)] ==
            IF n = 0 THEN <<>>
            ELSE IF list[n] \in S THEN Append(upTo[n - 1], list[n]) ELSE upTo[n - 1]
    IN  upTo[Len(list)]

-----------------------------------------------------------------------------
(* The tool-round rule (check_rounds_over). *)

\* The walk over a projection: what has been declared and answered, which
\* calls an id-less result may still answer, and the first orphan met.
WalkStart == [declared |-> <<>>, answered |-> {}, open |-> <<>>, orphan |-> NoCall]

WalkResult(w, m) ==
    CASE m.answers # IdLess /\ ~Contains(w.declared, m.answers) ->
           [w EXCEPT !.orphan = m.answers]
      [] m.answers # IdLess /\ Contains(w.declared, m.answers) ->
           [w EXCEPT !.answered = @ \cup {m.answers},
                     !.open = SelectSeq(@, LAMBDA c : c # m.answers)]
      [] m.answers = IdLess /\ w.open = <<>> -> [w EXCEPT !.orphan = IdLess]
      [] OTHER -> [w EXCEPT !.answered = @ \cup {Head(w.open)}, !.open = Tail(@)]

WalkStep(w, m) ==
    CASE w.orphan # NoCall -> w
      [] m.calls # <<>> /\ w.orphan = NoCall ->
           [w EXCEPT !.declared = @ \o m.calls, !.open = m.calls]
      [] m.calls = <<>> /\ IsResult(m) /\ w.orphan = NoCall -> WalkResult(w, m)
      [] OTHER -> w

Walk(view) == FoldLeft(WalkStep, WalkStart, view)

\* What some stored result names, shown or not; an id-less one names nothing.
AnsweredSomewhere(records) ==
    {records[i].answers : i \in {k \in DOMAIN records : IsResult(records[k])}} \ {IdLess}

Hanging(w, records) ==
    SelectSeq(w.declared, LAMBDA c : c \notin w.answered /\ c \in AnsweredSomewhere(records))

\* The verdict on a projection: fine, a result without its call, or a call
\* without a result that exists.
Fine == [what |-> "fine", call |-> NoCall]

Rounds(view, records) ==
    LET w == Walk(view)
        hanging == Hanging(w, records)
    IN  CASE w.orphan # NoCall -> [what |-> "orphan", call |-> w.orphan]
          [] w.orphan = NoCall /\ hanging # <<>> ->
               [what |-> "unanswered", call |-> Head(hanging)]
          [] OTHER -> Fine

\* The messages a list of ids shows.
View(ids, records) == [k \in DOMAIN ids |-> records[ids[k]]]

Whole(ids, records) == Rounds(View(ids, records), records) = Fine

\* trim_to_round_boundary: drop what the verdict names until it is fine.
FirstUnattributed(ids, records) ==
    CHOOSE k \in DOMAIN ids :
        /\ Walk(View(SubSeq(ids, 1, k), records)).orphan # NoCall
        /\ \A j \in 1 .. k - 1 : Walk(View(SubSeq(ids, 1, j), records)).orphan = NoCall

Dropped(ids, records) ==
    LET v == Rounds(View(ids, records), records)
    IN  CASE v.what = "orphan" /\ v.call = IdLess -> {ids[FirstUnattributed(ids, records)]}
          [] v.what = "orphan" /\ v.call # IdLess ->
               {i \in Range(ids) : IsResult(records[i]) /\ records[i].answers = v.call}
          [] v.what = "unanswered" -> {i \in Range(ids) : Contains(records[i].calls, v.call)}
          [] OTHER -> {}

\* Each pass but the last drops something: as many passes as ids are enough.
Trim(ids, records) ==
    LET left[n \in 0 .. Len(ids)] ==
            IF n = 0 THEN ids
            ELSE Among(left[n - 1], Range(left[n - 1]) \ Dropped(left[n - 1], records))
    IN  left[Len(ids)]

\* ids_for_edited: an unchanged message keeps its record, matched in order;
\* any other is recorded anew.  Yields the ids and the records afterwards.
EditStart(records) == [ids |-> <<>>, cursor |-> 0, records |-> records]

EditStep(active, e, m) ==
    LET found == {k \in e.cursor + 1 .. Len(active) : e.records[active[k]] = m}
        first == CHOOSE k \in found : \A j \in found : k <= j
    IN  IF found # {}
        THEN [e EXCEPT !.ids = Append(@, active[first]), !.cursor = first]
        ELSE [e EXCEPT !.records = Append(@, m), !.ids = Append(@, Len(e.records) + 1)]

Edited(active, records, messages) ==
    LET upTo[n \in 0 .. Len(messages)] ==
            IF n = 0 THEN EditStart(records) ELSE EditStep(active, upTo[n - 1], messages[n])
    IN  upTo[Len(messages)]

-----------------------------------------------------------------------------
(* The event log.  "saved" is the fold of replay over the events so far. *)

BlankLog == [system |-> 0, tools |-> 0, records |-> <<>>, active |-> <<>>]

SystemSet(x) == [kind |-> "system_set", system |-> x]
ToolsSet(x) == [kind |-> "tools_set", tools |-> x]
MessageAdded(m) == [kind |-> "message_added", message |-> m]
MessageReplaced(old, m) == [kind |-> "message_replaced", old |-> old, message |-> m]
MessageRemoved(id) == [kind |-> "message_removed", id |-> id]
MessageRecorded(m) == [kind |-> "message_recorded", message |-> m]
ContextReplaced(ids) == [kind |-> "context_replaced", active |-> ids]
Forked(at) == [kind |-> "forked", at |-> at]

\* A replacement keeps its slot; a slip would move it to the end.
MovedToEnd(active, old, new) == Append(Among(active, Range(active) \ {old}), new)
InSlot(active, old, new) == [k \in DOMAIN active |-> IF active[k] = old THEN new ELSE active[k]]

\* One event of replay.
Replayed(log, ev) ==
    LET new == Len(log.records) + 1
    IN  CASE ev.kind = "system_set" -> [log EXCEPT !.system = ev.system]
          [] ev.kind = "tools_set" -> [log EXCEPT !.tools = ev.tools]
          [] ev.kind = "message_added" ->
               [log EXCEPT !.records = Append(@, ev.message), !.active = Append(@, new)]
          [] ev.kind = "message_replaced" ->
               [log EXCEPT !.records = Append(@, ev.message),
                           !.active = InSlot(@, ev.old, new)]
          [] ev.kind = "message_removed" ->
               [log EXCEPT !.active = Among(@, Range(@) \ {ev.id})]
          [] ev.kind = "message_recorded" -> [log EXCEPT !.records = Append(@, ev.message)]
          [] ev.kind = "context_replaced" ->
               [log EXCEPT !.active = Among(ev.active, DOMAIN log.records)]
          [] ev.kind = "forked" /\ Contains(log.active, ev.at) ->
               [log EXCEPT !.active = SubSeq(@, 1, CHOOSE k \in DOMAIN @ : @[k] = ev.at)]
          [] OTHER -> log

Replay(log, events) ==
    LET upTo[n \in 0 .. Len(events)] ==
            IF n = 0 THEN log ELSE Replayed(upTo[n - 1], events[n])
    IN  upTo[Len(events)]
=============================================================================
