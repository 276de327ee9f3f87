------------------------------ MODULE Resident ------------------------------
(***************************************************************************)
(* The agent of src/src/journal/resident.rs: a journal on disk, the notes  *)
(* folded from it, and the scheduler that decides when to wake.  A caller  *)
(* drives it (&mut self, so one operation at a time); the process may die  *)
(* at any moment, between two appends of one operation too, and is opened  *)
(* again over the same file.                                               *)
(***************************************************************************)
EXTENDS JournalLog

CONSTANTS
    Batches,      \* what a run may hand to `finished`: sequences of entries
    IdleAfter,    \* Heartbeat.idle_after
    Crashes,      \* how a write that the process dies in may end
    Errors,       \* how a write that returns an error may end
    MaxEntries,   \* bound: positions in the journal
    MaxCrashes    \* bound: restarts

ASSUME ResidentAssumption ==
    /\ Batches \subseteq Seq(Entries)
    /\ IdleAfter \in Nat
    /\ Crashes \subseteq Writes /\ Errors \subseteq Writes
    /\ MaxEntries \in Nat /\ MaxCrashes \in Nat

VARIABLES
    file,       \* the lines on disk
    up,         \* the process runs and holds the agent
    next,       \* JsonlJournal.next
    scratch,    \* Resident.scratch
    pending,    \* WakeScheduler.pending: the owed wake, or "none"
    busy,       \* WakeScheduler.busy
    idle_wakes, \* WakeScheduler.idle_wakes
    due,        \* the interval has passed since last_wake
    run,        \* the caller was given a Wake and has not finished
    writing,    \* what `finished` has still to append
    acked,      \* history: records whose append returned Ok
    barren,     \* history: heartbeats in a row that changed nothing
    crashes     \* how many times the process died

schedule == <<pending, busy, idle_wakes, due, run, barren>>
vars == <<file, up, next, scratch, schedule, writing, acked, crashes>>

RecordOf(e) == [id |-> next, entry |-> e]
Ids == 0 .. MaxEntries

TypeOK ==
    /\ \A i \in DOMAIN file : file[i].is \in {"ok", "bad", "mangled"} /\ file[i].nl \in BOOLEAN
    /\ up \in BOOLEAN
    /\ next \in Ids
    /\ scratch \in [Notes -> Values \cup {NoValue}]
    /\ pending \in {"none", "asked", "heartbeat"}
    /\ idle_wakes \in 0 .. IdleAfter
    /\ {busy, due, run} \subseteq BOOLEAN
    /\ writing \in Seq(Entries)
    /\ acked \subseteq [id : Ids, entry : Entries]
    /\ crashes \in 0 .. MaxCrashes

Init ==
    /\ file = <<>> /\ acked = {} /\ crashes = 0
    /\ up = TRUE /\ next = 0 /\ scratch = EmptyScratch
    /\ pending = "none" /\ busy = FALSE /\ idle_wakes = 0 /\ due = TRUE
    /\ run = FALSE /\ writing = <<>> /\ barren = 0

\* The process starts or ends: a scheduler that remembers nothing, no run.
Anew(isUp) ==
    /\ up' = isUp
    /\ pending' = "none" /\ busy' = FALSE /\ idle_wakes' = 0 /\ due' = isUp
    /\ run' = FALSE /\ writing' = <<>> /\ barren' = 0

\* A poll of a new scheduler finds no last_wake and is due.
Open ==
    /\ ~up /\ Readable(file)
    /\ next' = NextId(file)
    /\ scratch' = Replayed(Records(file))
    /\ Anew(TRUE)
    /\ UNCHANGED <<file, acked, crashes>>

-----------------------------------------------------------------------------
(* JsonlJournal::append, as the operations below use it.                   *)

\* The line was written and synced.
Landed(e) ==
    /\ next < MaxEntries /\ next' = next + 1
    /\ file' = Write(file, RecordOf(e), "whole")
    /\ acked' = acked \cup {RecordOf(e)}

\* Opening, writing or syncing failed; bytes may have arrived all the same.
Failed(e) ==
    /\ \E w \in Errors : file' = Write(file, RecordOf(e), w)
    /\ UNCHANGED <<next, acked>>

Idle == up /\ writing = <<>>

\* What the process may be appending.
InHand ==
    IF writing # <<>> THEN {Head(writing)}
    ELSE Mutations \cup {Entry("input")} \cup (IF busy THEN {} ELSE {Wake})

\* The process dies, in the middle of an append or not.
Crash ==
    /\ up /\ crashes < MaxCrashes /\ crashes' = crashes + 1
    /\ next < MaxEntries
    /\ \/ UNCHANGED file
       \/ \E e \in InHand, w \in Crashes : file' = Write(file, RecordOf(e), w)
    /\ next' = 0 /\ scratch' = EmptyScratch
    /\ Anew(FALSE)
    /\ UNCHANGED acked

-----------------------------------------------------------------------------
(* The operations.                                                         *)

\* remember and forget: journal first, then fold.
Note(e) ==
    /\ Idle
    /\ \/ Landed(e) /\ scratch' = Applied(scratch, e)
       \/ Failed(e) /\ UNCHANGED scratch
    /\ UNCHANGED <<up, schedule, writing, crashes>>

\* WakeScheduler::request follows the append; every source asks for a wake.
Receive ==
    /\ Idle
    /\ \/ /\ Landed(Entry("input"))
          /\ pending' = "asked" /\ idle_wakes' = 0 /\ barren' = 0
          /\ UNCHANGED <<busy, due, run>>
       \/ Failed(Entry("input")) /\ UNCHANGED schedule
    /\ UNCHANGED <<up, scratch, writing, crashes>>

Tick ==
    /\ up /\ ~due /\ due' = TRUE
    /\ UNCHANGED <<file, up, next, scratch, pending, busy, idle_wakes, run,
                   barren, writing, acked, crashes>>

\* poll while a run is on: one heartbeat is owed, however many fall due.
PollBusy ==
    /\ Idle /\ busy /\ pending = "none" /\ due
    /\ pending' = "heartbeat" /\ due' = FALSE
    /\ UNCHANGED <<file, up, next, scratch, busy, idle_wakes, run, barren,
                   writing, acked, crashes>>

\* Variant: the run is handed out and the scheduler not told.
BeginUnmarked(beats) ==
    \/ /\ Readable(file) /\ Landed(Wake)
       /\ run' = TRUE /\ barren' = beats /\ UNCHANGED busy
    \/ /\ Readable(file) => Failed(Wake)
       /\ ~Readable(file) => UNCHANGED <<file, next, acked>>
       /\ UNCHANGED <<busy, run, barren>>

\* The rest of Resident::poll once the scheduler said yes: replay, write the
\* wake down, begin.  If either fails the scheduler has already moved on.
Begin(beats) ==
    \/ /\ Readable(file) /\ Landed(Wake)
       /\ busy' = TRUE /\ run' = TRUE /\ barren' = beats
    \/ /\ Readable(file) => Failed(Wake)
       /\ ~Readable(file) => UNCHANGED <<file, next, acked>>
       /\ UNCHANGED <<busy, run, barren>>

OneMore == IF barren > IdleAfter THEN barren ELSE barren + 1

PollPending ==
    /\ Idle /\ ~busy /\ pending # "none"
    /\ pending' = "none" /\ due' = FALSE
    /\ Begin(IF pending = "heartbeat" THEN OneMore ELSE 0)
    /\ UNCHANGED <<up, scratch, idle_wakes, writing, crashes>>

Bored == idle_wakes >= IdleAfter

PollHeartbeat ==
    /\ Idle /\ ~busy /\ pending = "none" /\ ~Bored /\ due
    /\ due' = FALSE /\ idle_wakes' = idle_wakes + 1
    /\ Begin(OneMore)
    /\ UNCHANGED <<up, scratch, pending, writing, crashes>>

\* finished with nothing to write.
FinishEmpty ==
    /\ Idle /\ run
    /\ busy' = FALSE /\ run' = FALSE
    /\ UNCHANGED <<file, up, next, scratch, pending, idle_wakes, due, barren,
                   writing, acked, crashes>>

Finish ==
    /\ Idle /\ run
    /\ writing' \in Batches \ {<<>>}
    /\ UNCHANGED <<file, up, next, scratch, schedule, acked, crashes>>

\* One round of the loop in `finished`.  An error returns at once: what was
\* appended stays, the scheduler is not told, and the caller may call again.
FinishAppend ==
    /\ up /\ writing # <<>>
    /\ \/ /\ Landed(Head(writing))
          /\ scratch' = Applied(scratch, Head(writing))
          /\ writing' = Tail(writing)
          /\ IF Tail(writing) = <<>>
             THEN busy' = FALSE /\ run' = FALSE /\ idle_wakes' = 0 /\ barren' = 0
             ELSE UNCHANGED <<busy, run, idle_wakes, barren>>
       \/ /\ Failed(Head(writing)) /\ writing' = <<>>
          /\ UNCHANGED <<scratch, busy, run, idle_wakes, barren>>
    /\ UNCHANGED <<up, pending, due, crashes>>

Next ==
    \/ Open \/ Crash \/ Tick
    \/ \E e \in Mutations : Note(e)
    \/ Receive
    \/ PollBusy \/ PollPending \/ PollHeartbeat
    \/ FinishEmpty \/ Finish \/ FinishAppend

Spec == Init /\ [][Next]_vars

-----------------------------------------------------------------------------
(* What must hold.                                                         *)

\* Until something is appended behind a torn line, every record whose append
\* returned Ok is read back, whatever died or failed since, and a torn tail
\* does not keep the journal from opening.
AckedReplayed ==
    Damaged(file) \/ (Readable(file) /\ acked \subseteq ToSet(Records(file)))

\* Positions in what is read back only go up: no restart hands one out twice.
IdsIncrease ==
    Readable(file) =>
        \A i, j \in DOMAIN Records(file) : i < j => Records(file)[i].id < Records(file)[j].id

\* The notes in memory are what a restart would rebuild from the file.
ScratchIsReplay ==
    up /\ Readable(file) /\ ~Damaged(file) => scratch = Replayed(Records(file))

\* What the file gives back after any crash: store.rs:100-175.
JournalKept == AckedReplayed /\ IdsIncrease

\* A projection shows a call and the answer to it together or not at all,
\* also in a journal cut by a crash in the middle of a round.
ProjectionWhole ==
    LET log == Records(file)
        Shown == Projected(log)
        Answers(i, j) ==
            /\ i < j /\ log[i].entry.kind = "call" /\ log[j].entry.kind = "result"
            /\ log[i].entry.of = log[j].entry.of
            /\ \A m \in i + 1 .. j - 1 : log[m].entry # log[j].entry
    IN Readable(file) => \A i, j \in DOMAIN log : Answers(i, j) => (i \in Shown <=> j \in Shown)

\* The memory rebuilt from the journal is the one that was lost, and a
\* projection of it shows whole rounds: scratch.rs, projection.rs.
RebuiltWhole == TypeOK /\ ScratchIsReplay /\ ProjectionWhole

\* No second run is handed out while the caller still has one: a poll that
\* used up what was owed, or the interval, and wrote its wake down.
NeverConcurrent ==
    [][/\ up' /\ next' # next
       /\ (due /\ ~due') \/ (pending # "none" /\ pending' = "none")
       => ~run]_vars

\* What was asked for is given up for a run, for a wake that could not be
\* written down, or with the process; never for a heartbeat.
AskedIsKept ==
    [][pending = "asked" /\ pending' # "asked"
          => ~up' \/ (run' /\ ~run) \/ (next' = next /\ ~busy)]_vars

\* The scheduler keeps what it was asked and never wakes an agent that runs:
\* wake.rs:160-200.
WakesKept == NeverConcurrent /\ AskedIsKept

-----------------------------------------------------------------------------
(* What the comments and tests say, and the code does not keep.            *)

\* "refusing to load any of it would turn a torn write into total loss"
HistoryLoads == Readable(file)

\* "Consecutive wakes that changed nothing before heartbeats stop."
BoredomStops == barren <= IdleAfter
=============================================================================
