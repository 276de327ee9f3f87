----------------------------- MODULE JournalLog -----------------------------
(***************************************************************************)
(* The append-only journal of src/src/journal: the file JsonlJournal       *)
(* writes, what read_all makes of it after a torn write, the notes replayed *)
(* from it, and the turns a projection may choose from.                    *)
(*                                                                         *)
(* A line is one record.  How a write ends is one of Writes: no byte       *)
(* arrived, a part that is text, a part cut inside a character, all but    *)
(* the newline, or the whole line.  Only the last line of a file can lack  *)
(* its newline, and the next append goes on where it stops.                *)
(***************************************************************************)
EXTENDS Naturals, FiniteSets, Sequences, SequencesExt

CONSTANTS
    Notes,      \* keys of the scratch
    Values,     \* values a note can have
    NoValue,    \* an absent note
    Calls,      \* ids the model gives its tool calls
    Budget      \* RecentTurns.budget, in messages

ASSUME JournalAssumption == NoValue \notin Values /\ Budget \in Nat

Writes == {"none", "half", "mangled", "bare", "whole"}

Plain == [kind : {"input", "assistant", "wake"}]
Rounds == [kind : {"call", "result"}, of : Calls]
Mutations == [kind : {"set"}, key : Notes, value : Values] \cup [kind : {"delete"}, key : Notes]
Entries == Plain \cup Rounds \cup Mutations

Entry(k) == [kind |-> k]
Wake == Entry("wake")

-----------------------------------------------------------------------------
(* The file.                                                               *)

\* Lines that serde reads back ("ok"), that are text but no record ("bad"),
\* and that are not UTF-8.
Line(rec, w) ==
    IF w \in {"half", "mangled"}
    THEN [is |-> IF w = "half" THEN "bad" ELSE "mangled", nl |-> FALSE]
    ELSE [is |-> "ok", nl |-> w = "whole", rec |-> rec]

Torn(f) == f # <<>> /\ ~Last(f).nl

\* What one write_all of rec makes of file f.
Write(f, rec, w) ==
    IF w = "none" THEN f
    ELSE IF ~Torn(f) THEN Append(f, Line(rec, w))
    ELSE [f EXCEPT ![Len(f)] =
            [is |-> IF "mangled" \in {@.is, Line(rec, w).is} THEN "mangled" ELSE "bad",
             nl |-> w = "whole"]]

\* read_all succeeds: a line that does not parse is passed over when it is the
\* last, and bytes that are not UTF-8 fail wherever they are.
Readable(f) ==
    \A i \in DOMAIN f : f[i].is = "ok" \/ (f[i].is = "bad" /\ i = Len(f))

\* What read_all returns.
Records(f) ==
    LET good == IF f # <<>> /\ Last(f).is # "ok" THEN Front(f) ELSE f
    IN [i \in DOMAIN good |-> good[i].rec]

\* Variant: the last id itself.
NextIdAgain(f) == IF Records(f) = <<>> THEN 0 ELSE Last(Records(f)).id

\* JsonlJournal::open: the id after the last one read.
NextId(f) == IF Records(f) = <<>> THEN 0 ELSE Last(Records(f)).id + 1

\* Something was appended behind a torn line and joined with it.
Damaged(f) == \E i \in DOMAIN f : f[i].is = "bad" /\ (f[i].nl \/ i < Len(f))

-----------------------------------------------------------------------------
(* The scratch: a fold over the journal.                                   *)

EmptyScratch == [n \in Notes |-> NoValue]

Applied(s, e) ==
    CASE e.kind = "set" -> [s EXCEPT ![e.key] = e.value]
      [] e.kind = "delete" -> [s EXCEPT ![e.key] = NoValue]
      [] OTHER -> s

Replayed(log) ==
    LET after[i \in 0 .. Len(log)] ==
            IF i = 0 THEN EmptyScratch ELSE Applied(after[i - 1], log[i].entry)
    IN after[Len(log)]

-----------------------------------------------------------------------------
(* Turns and the projection.                                               *)

\* Variant: the first answer closes the round, whatever else was asked.
AwaitingFirst(log) ==
    LET after[i \in 0 .. Len(log)] ==
            IF i = 0 THEN {}
            ELSE LET e == log[i].entry
                 IN CASE e.kind = "call" -> after[i - 1] \cup {e.of}
                      [] e.kind = "result" -> {}
                      [] OTHER -> after[i - 1]
    IN after

\* Turn::group's `awaiting`, after each record: the calls not yet answered.
Awaiting(log) ==
    LET after[i \in 0 .. Len(log)] ==
            IF i = 0 THEN {}
            ELSE LET e == log[i].entry
                 IN CASE e.kind = "call" -> after[i - 1] \cup {e.of}
                      [] e.kind = "result" -> after[i - 1] \ {e.of}
                      [] OTHER -> after[i - 1]
    IN after

\* A turn is named by its first record: one that finds no round open.
TurnStarts(log) == {i \in DOMAIN log : Awaiting(log)[i - 1] = {}}

TurnOf(log, i) ==
    CHOOSE s \in TurnStarts(log) : s <= i /\ \A t \in TurnStarts(log) : t <= i => t <= s

\* is_conversational
Spoken(log) == {i \in DOMAIN log : log[i].entry.kind \in {"input", "assistant", "call", "result"}}

\* RecentTurns::keep: the newest conversational turns that fit the budget
\* together, and the newest one whether it fits or not.
Kept(log) ==
    LET spoken == {TurnOf(log, i) : i \in Spoken(log)}
    IN {s \in spoken : \/ Cardinality({i \in Spoken(log) : i >= s}) <= Budget
                       \/ \A t \in spoken : t <= s}

\* The records a wake shows the model.
Projected(log) == {i \in Spoken(log) : TurnOf(log, i) \in Kept(log)}
=============================================================================
