--------------------------- MODULE ResidentProofs ---------------------------
(***************************************************************************)
(* Proofs about Resident: positions in the journal only go up, what was    *)
(* acknowledged is read back and the notes are what a restart rebuilds,    *)
(* whatever writes die or fail in the ways the theorems name; projected    *)
(* rounds are whole; and the scheduler hands out one run at a time.        *)
(***************************************************************************)
EXTENDS Resident, SequenceTheorems, WellFoundedInduction, TLAPS

Recs == [id : Nat, entry : Entries]
FileLines == [is : {"ok"}, nl : BOOLEAN, rec : Recs] \cup [is : {"bad", "mangled"}, nl : BOOLEAN]

\* The positions of the lines that hold a record.
Good(f) == {i \in 1 .. Len(f) : f[i].is = "ok"}

LEMMA FileLinesAre ==
    ASSUME NEW l \in FileLines
    PROVE  /\ l.is \in {"ok", "bad", "mangled"} /\ l.nl \in BOOLEAN
           /\ l.is = "ok" => l.rec \in Recs
BY DEF FileLines

LEMMA LineType ==
    ASSUME NEW r \in Recs, NEW w \in Writes, w # "none"
    PROVE  /\ Line(r, w) \in FileLines
           /\ Line(r, w).nl = (w = "whole")
           /\ Line(r, w).is = "ok" => w \in {"bare", "whole"} /\ Line(r, w).rec = r
           /\ w \in {"bare", "whole"} => Line(r, w).is = "ok"
           /\ Line(r, w).is = "mangled" => w = "mangled"
<1>1. CASE w \in {"half", "mangled"}
  <2> DEFINE kind == IF w = "half" THEN "bad" ELSE "mangled"
  <2>1. Line(r, w) = [is |-> kind, nl |-> FALSE]
    BY <1>1 DEF Line
  <2>2. kind \in {"bad", "mangled"} /\ (kind = "mangled" => w = "mangled")
    BY <1>1
  <2>3. Line(r, w) \in [is : {"bad", "mangled"}, nl : BOOLEAN]
    <3> HIDE DEF kind
    <3> QED BY <2>1, <2>2
  <2>4. Line(r, w).is = kind /\ Line(r, w).nl = FALSE
    BY <2>1
  <2> QED BY <1>1, <2>2, <2>3, <2>4 DEF FileLines
<1>2. CASE w \in {"bare", "whole"}
  <2>1. Line(r, w) = [is |-> "ok", nl |-> w = "whole", rec |-> r]
    BY <1>2 DEF Line
  <2>2. [is |-> "ok", nl |-> w = "whole", rec |-> r] \in [is : {"ok"}, nl : BOOLEAN, rec : Recs]
    OBVIOUS
  <2> QED BY <1>2, <2>1, <2>2 DEF FileLines
<1> QED BY <1>1, <1>2 DEF Writes

\* An append behind a whole line adds one.
LEMMA WriteBehind ==
    ASSUME NEW f \in Seq(FileLines), NEW r \in Recs, NEW w \in Writes,
           w # "none", ~Torn(f)
    PROVE  LET g == Write(f, r, w)
           IN /\ g \in Seq(FileLines) /\ Len(g) = Len(f) + 1
              /\ \A i \in 1 .. Len(f) : g[i] = f[i]
              /\ g[Len(g)] = Line(r, w)
<1>1. Write(f, r, w) = Append(f, Line(r, w))
  BY DEF Write
<1>2. Line(r, w) \in FileLines
  BY LineType
<1> QED BY <1>1, <1>2

\* An append behind a torn line spoils it.
LEMMA WriteOnto ==
    ASSUME NEW f \in Seq(FileLines), NEW r \in Recs, NEW w \in Writes,
           w # "none", Torn(f)
    PROVE  LET g == Write(f, r, w)
           IN /\ g \in Seq(FileLines) /\ Len(g) = Len(f) /\ Len(f) \in 1 .. Len(f)
              /\ \A i \in 1 .. Len(f) : i # Len(f) => g[i] = f[i]
              /\ g[Len(f)].is \in {"bad", "mangled"}
              /\ g[Len(f)].nl = (w = "whole")
              /\ g[Len(f)].is = "mangled" => f[Len(f)].is = "mangled" \/ w = "mangled"
<1> DEFINE n == Len(f)
           c == [is |-> IF "mangled" \in {f[n].is, Line(r, w).is} THEN "mangled" ELSE "bad",
                 nl |-> w = "whole"]
<1>1. n \in Nat /\ n \in 1 .. n
  BY DEF Torn
<1>2. Write(f, r, w) = [f EXCEPT ![n] = c]
  BY DEF Write
<1>3. c \in FileLines
  BY DEF FileLines
<1>4. [f EXCEPT ![n] = c] \in Seq(FileLines) /\ Len([f EXCEPT ![n] = c]) = n
  BY <1>1, <1>3
<1>5. \A i \in 1 .. n : [f EXCEPT ![n] = c][i] = IF i = n THEN c ELSE f[i]
  BY <1>1
<1>6. c.is \in {"bad", "mangled"} /\ c.nl = (w = "whole")
      /\ (c.is = "mangled" => f[n].is = "mangled" \/ w = "mangled")
  BY LineType
<1> QED BY <1>1, <1>2, <1>4, <1>5, <1>6

\* What is read back of a readable file: the records of its good lines, which
\* are all of them but for a bad one at the end.
LEMMA RecordsAre ==
    ASSUME NEW f \in Seq(FileLines), Readable(f)
    PROVE  /\ DOMAIN Records(f) = Good(f)
           /\ \A i \in Good(f) : Records(f)[i] = f[i].rec
           /\ Records(f) \in Seq(Recs)
           /\ Len(Records(f)) \in {Len(f), Len(f) - 1}
           /\ Good(f) = 1 .. Len(Records(f))
<1> DEFINE n == Len(f)
           good == IF f # <<>> /\ Last(f).is # "ok" THEN Front(f) ELSE f
           m == IF f # <<>> /\ f[n].is # "ok" THEN n - 1 ELSE n
<1>1. n \in Nat /\ DOMAIN f = 1 .. n /\ m \in Nat /\ m \in {n, n - 1}
  <2>1. f # <<>> => n > 0
    OBVIOUS
  <2> QED BY <2>1
<1>2. DOMAIN good = 1 .. m /\ \A i \in 1 .. m : good[i] = f[i]
  <2>1. CASE f # <<>> /\ f[n].is # "ok"
    <3>1. good = SubSeq(f, 1, n - 1)
      BY <2>1 DEF Last, Front
    <3> QED BY <2>1, <3>1, <1>1
  <2>2. CASE ~(f # <<>> /\ f[n].is # "ok")
    <3>1. good = f
      BY <2>2 DEF Last
    <3> QED BY <2>2, <3>1, <1>1
  <2> QED BY <2>1, <2>2
<1>3. Good(f) = 1 .. m
  <2>1. \A i \in 1 .. n : f[i].is # "ok" => i = n
    BY <1>1 DEF Readable
  <2>2. CASE f # <<>> /\ f[n].is # "ok"
    <3>1. m = n - 1
      BY <2>2
    <3>2. Good(f) = {i \in 1 .. n : f[i].is = "ok"} /\ n \in Nat
      BY <1>1 DEF Good
    <3>3. f[n].is # "ok"
      BY <2>2
    <3> HIDE DEF m, n
    <3>4. \A i \in 1 .. n : f[i].is = "ok" <=> i \in 1 .. n - 1
      BY <2>1, <3>2, <3>3
    <3> QED BY <3>1, <3>2, <3>4
  <2>3. CASE ~(f # <<>> /\ f[n].is # "ok")
    <3>1. m = n
      BY <2>3
    <3>2. \A i \in 1 .. n : f[i].is = "ok"
      <4>1. f = <<>> => n = 0
        OBVIOUS
      <4>2. n = 0 \/ f[n].is = "ok"
        BY <2>3, <4>1
      <4> HIDE DEF n
      <4> QED BY <2>1, <4>2
    <3> HIDE DEF m
    <3> QED BY <3>1, <3>2 DEF Good
  <2> QED BY <2>2, <2>3
<1>4. Records(f) = [i \in 1 .. m |-> f[i].rec]
  <2>1. Records(f) = [i \in DOMAIN good |-> good[i].rec]
    BY DEF Records
  <2> QED BY <2>1, <1>2
<1>5. \A i \in 1 .. m : f[i].rec \in Recs
  <2> SUFFICES ASSUME NEW i \in 1 .. m PROVE f[i].rec \in Recs
    OBVIOUS
  <2>1. i \in 1 .. n /\ f[i] \in FileLines /\ f[i].is = "ok"
    BY <1>1, <1>3 DEF Good
  <2> QED BY <2>1, FileLinesAre
<1>6. Records(f) \in Seq(Recs) /\ Len(Records(f)) = m
  <2> HIDE DEF m
  <2>1. [i \in 1 .. m |-> f[i].rec] \in Seq(Recs)
    <3>1. [i \in 1 .. m |-> f[i].rec] \in [1 .. m -> Recs]
      BY <1>5
    <3> QED BY <3>1, <1>1, SeqDef
  <2>2. DOMAIN Records(f) = 1 .. m
    BY <1>4
  <2>3. Records(f) \in Seq(Recs)
    BY <2>1, <1>4
  <2>4. 1 .. Len(Records(f)) = 1 .. m /\ Len(Records(f)) \in Nat
    BY <2>2, <2>3, LenProperties
  <2>5. m \in Nat
    BY <1>1
  <2> HIDE DEF m
  <2>6. Len(Records(f)) = m
    BY <2>4, <2>5
  <2> QED BY <2>3, <2>6
<1> QED BY <1>1, <1>3, <1>4, <1>6

-----------------------------------------------------------------------------
(* What a step does to the journal, whichever operation takes it.          *)

Land(e) == up' = up /\ up /\ Landed(e)
Fail(e) == up' = up /\ up /\ Failed(e)
Die ==
    /\ up /\ up' = FALSE /\ next' = 0 /\ acked' = acked
    /\ \/ file' = file
       \/ \E e \in Entries, w \in Crashes : file' = Write(file, RecordOf(e), w)
Start == ~up /\ up' = TRUE /\ Readable(file) /\ next' = NextId(file) /\ UNCHANGED <<file, acked>>
Quiet == UNCHANGED <<file, up, next, acked>>

JournalStep == Die \/ Start \/ Quiet \/ \E e \in Entries : Land(e) \/ Fail(e)

OnDisk == file \in Seq(FileLines) /\ next \in Nat /\ writing \in Seq(Entries)

LEMMA EntriesAre ==
    Wake \in Entries /\ Entry("input") \in Entries /\ Mutations \subseteq Entries
<1>1. Wake \in Plain /\ Entry("input") \in Plain
  BY DEF Wake, Entry, Plain
<1> QED BY <1>1 DEF Entries

LEMMA HeadIsEntry ==
    ASSUME writing \in Seq(Entries), writing # <<>>
    PROVE  Head(writing) \in Entries /\ Tail(writing) \in Seq(Entries)
OBVIOUS

LEMMA StepsOfJournal ==
    ASSUME OnDisk, [Next]_vars
    PROVE  JournalStep /\ writing' \in Seq(Entries)
<1> USE DEF OnDisk
<1>1. CASE UNCHANGED vars
  BY <1>1 DEF vars, JournalStep, Quiet
<1>2. CASE Open
  BY <1>2 DEF Open, Anew, JournalStep, Start
<1>3. CASE Crash
  <2>1. writing' \in Seq(Entries)
    BY <1>3 DEF Crash, Anew
  <2>2. InHand \subseteq Entries
    BY EntriesAre, HeadIsEntry DEF InHand
  <2> QED BY <1>3, <2>1, <2>2 DEF Crash, Anew, JournalStep, Die
<1>4. CASE Tick
  BY <1>4 DEF Tick, JournalStep, Quiet
<1>5. ASSUME NEW e \in Mutations, Note(e) PROVE JournalStep /\ writing' = writing
  BY <1>5, EntriesAre DEF Note, Idle, JournalStep, Land, Fail
<1>6. CASE Receive
  BY <1>6, EntriesAre DEF Receive, Idle, JournalStep, Land, Fail
<1>7. CASE PollBusy
  BY <1>7 DEF PollBusy, JournalStep, Quiet
<1>8. ASSUME NEW b, Begin(b), up, up' = up PROVE JournalStep
  <2>1. CASE Landed(Wake)
    BY <1>8, <2>1, EntriesAre DEF JournalStep, Land
  <2>2. CASE Failed(Wake)
    BY <1>8, <2>2, EntriesAre DEF JournalStep, Fail
  <2> QED BY <1>8, <2>1, <2>2 DEF Begin, JournalStep, Quiet
<1>9. CASE PollPending
  <2>1. \E b : Begin(b)
    BY <1>9 DEF PollPending
  <2> QED BY <1>8, <1>9, <2>1 DEF PollPending, Idle
<1>10. CASE PollHeartbeat
  BY <1>8, <1>10 DEF PollHeartbeat, Idle
<1>11. CASE FinishEmpty
  BY <1>11 DEF FinishEmpty, JournalStep, Quiet
<1>12. CASE Finish
  BY <1>12, ResidentAssumption DEF Finish, JournalStep, Quiet
<1>13. CASE FinishAppend
  <2>1. Head(writing) \in Entries /\ Tail(writing) \in Seq(Entries)
    BY <1>13, HeadIsEntry DEF FinishAppend
  <2>2. up /\ up' = up
    BY <1>13 DEF FinishAppend
  <2>3. \/ Landed(Head(writing)) /\ writing' = Tail(writing)
        \/ Failed(Head(writing)) /\ writing' = <<>>
    BY <1>13 DEF FinishAppend
  <2>4. \E e \in Entries : Land(e) \/ Fail(e)
    <3> HIDE DEF OnDisk
    <3> QED BY <2>1, <2>2, <2>3 DEF Land, Fail
  <2>5. writing' \in Seq(Entries)
    BY <2>1, <2>3, EmptySeq
  <2> QED BY <2>4, <2>5 DEF JournalStep
<1> QED
  BY <1>1, <1>2, <1>3, <1>4, <1>5, <1>6, <1>7, <1>9, <1>10, <1>11, <1>12, <1>13 DEF Next

-----------------------------------------------------------------------------
(* Positions.                                                              *)

IdsUp == \A i, j \in Good(file) : i < j => file[i].rec.id < file[j].rec.id

\* The next position is new, but for a record that lost only its newline to a
\* failed write: it stands at the torn end and whatever comes next spoils it.
Ahead ==
    up => \A i \in Good(file) :
            \/ file[i].rec.id < next
            \/ i = Len(file) /\ ~file[i].nl /\ file[i].rec.id = next

IdsInv == OnDisk /\ IdsUp /\ Ahead

LEMMA GoodLines ==
    ASSUME OnDisk, NEW i \in Good(file)
    PROVE  i \in 1 .. Len(file) /\ file[i].rec \in Recs /\ file[i].rec.id \in Nat
<1>1. file[i] \in FileLines /\ file[i].is = "ok" /\ i \in 1 .. Len(file)
  BY DEF OnDisk, Good
<1> QED BY <1>1, FileLinesAre DEF Recs

LEMMA RecordType ==
    ASSUME OnDisk, NEW e \in Entries
    PROVE  RecordOf(e) \in Recs /\ RecordOf(e).id = next
BY DEF OnDisk, RecordOf, Recs

\* Behind a line that has its newline every position is below the next.
LEMMA UntornBelow ==
    ASSUME IdsInv, up, ~Torn(file), NEW i \in Good(file)
    PROVE  file[i].rec.id < next
<1>1. i \in 1 .. Len(file)
  BY GoodLines DEF IdsInv
<1>2. file # <<>> /\ (i = Len(file) => file[i].nl)
  BY <1>1 DEF Torn, Last, IdsInv, OnDisk
<1> QED BY <1>2 DEF IdsInv, Ahead

\* Any write of a record at the next position keeps the order.
LEMMA WriteKeepsOrder ==
    ASSUME IdsInv, up, NEW e \in Entries, NEW w \in Writes,
           file' = Write(file, RecordOf(e), w)
    PROVE  /\ file' \in Seq(FileLines) /\ IdsUp'
           /\ \A i \in Good(file') :
                \/ file'[i].rec.id < next
                \/ /\ i = Len(file') /\ file'[i].rec.id = next
                   /\ ~file'[i].nl \/ w = "whole"
<1>1. CASE w = "none"
  <2>1. file' = file
    BY <1>1 DEF Write
  <2> QED BY <2>1 DEF IdsInv, OnDisk, IdsUp, Ahead, Good
<1>2. CASE w # "none" /\ ~Torn(file)
  <2> DEFINE n == Len(file)
  <2>1. /\ file' \in Seq(FileLines) /\ Len(file') = n + 1 /\ n \in Nat
        /\ \A i \in 1 .. n : file'[i] = file[i]
        /\ file'[n + 1] = Line(RecordOf(e), w)
    <3> DEFINE r == RecordOf(e)
    <3>1. r \in Recs /\ file \in Seq(FileLines) /\ file' = Write(file, r, w)
      BY RecordType DEF IdsInv, OnDisk
    <3> HIDE DEF r
    <3>2. /\ file' \in Seq(FileLines) /\ Len(file') = Len(file) + 1
          /\ \A i \in 1 .. Len(file) : file'[i] = file[i]
          /\ file'[Len(file')] = Line(r, w)
      BY <1>2, <3>1, WriteBehind
    <3> QED BY <3>1, <3>2 DEF r
  <2>2. file'[n + 1].is = "ok" => file'[n + 1].rec.id = next /\ (~file'[n + 1].nl \/ w = "whole")
    <3>1. RecordOf(e) \in Recs /\ RecordOf(e).id = next
      BY RecordType DEF IdsInv
    <3>2. /\ Line(RecordOf(e), w).nl = (w = "whole")
          /\ Line(RecordOf(e), w).is = "ok" => Line(RecordOf(e), w).rec = RecordOf(e)
      BY <1>2, <3>1, LineType
    <3> QED BY <2>1, <3>1, <3>2
  <2>3. \A i \in Good(file') : i \in Good(file) \/ i = n + 1
    BY <2>1 DEF Good
  <2>4. \A i \in Good(file) : file'[i] = file[i] /\ file[i].rec.id < next /\ i < n + 1
    BY <1>2, <2>1, UntornBelow, GoodLines DEF IdsInv, Good
  <2>5. \A i \in Good(file') : i = n + 1 => file'[i].is = "ok"
    BY DEF Good
  <2>6. IdsUp'
    <3> SUFFICES ASSUME NEW i \in Good(file'), NEW j \in Good(file'), i < j
                 PROVE  file'[i].rec.id < file'[j].rec.id
      BY DEF IdsUp
    <3>1. i \in 1 .. n + 1 /\ j \in 1 .. n + 1
      BY <2>1 DEF Good
    <3>2. i \in Good(file)
      BY <2>1, <2>3, <3>1
    <3>3. CASE j \in Good(file)
      BY <2>4, <3>2, <3>3 DEF IdsInv, IdsUp
    <3>4. CASE j = n + 1
      BY <2>2, <2>4, <2>5, <3>2, <3>4
    <3> QED BY <2>3, <3>3, <3>4
  <2> QED BY <2>1, <2>2, <2>3, <2>4, <2>5, <2>6
<1>3. CASE w # "none" /\ Torn(file)
  <2> DEFINE n == Len(file)
  <2>1. /\ file' \in Seq(FileLines) /\ Len(file') = n
        /\ \A i \in 1 .. n : i # n => file'[i] = file[i]
        /\ file'[n].is \in {"bad", "mangled"}
    BY <1>3, WriteOnto, RecordType DEF IdsInv, OnDisk
  <2>2. \A i \in Good(file') : i \in Good(file) /\ i # n /\ file'[i] = file[i]
    BY <2>1 DEF Good
  <2> QED BY <2>1, <2>2 DEF IdsInv, IdsUp, Ahead
<1> QED BY <1>1, <1>2, <1>3

LEMMA IdsKept ==
    ASSUME "whole" \notin Errors, IdsInv, [Next]_vars
    PROVE  IdsInv'
<1> OnDisk /\ JournalStep /\ writing' \in Seq(Entries)
  BY StepsOfJournal DEF IdsInv
<1>1. ASSUME NEW e \in Entries, Land(e) PROVE IdsInv'
  <2>1. up /\ up' /\ next' = next + 1 /\ file' = Write(file, RecordOf(e), "whole") /\ next \in Nat
    BY <1>1 DEF Land, Landed, OnDisk
  <2>2. /\ file' \in Seq(FileLines) /\ IdsUp'
        /\ \A i \in Good(file') : file'[i].rec.id < next \/ file'[i].rec.id = next
    BY <2>1, WriteKeepsOrder DEF Writes
  <2>3. OnDisk'
    BY <2>1, <2>2 DEF OnDisk
  <2>4. \A i \in Good(file') : file'[i].rec.id < next'
    <3> TAKE i \in Good(file')
    <3>1. file'[i].rec.id \in Nat
      <4>1. file'[i] \in FileLines /\ file'[i].is = "ok"
        BY <2>2 DEF Good
      <4> QED BY <4>1, FileLinesAre DEF Recs
    <3> QED BY <2>1, <2>2, <3>1
  <2> QED BY <2>2, <2>3, <2>4 DEF IdsInv, Ahead
<1>2. ASSUME NEW e \in Entries, Fail(e) PROVE IdsInv'
  <2>1. PICK w \in Errors : file' = Write(file, RecordOf(e), w)
    BY <1>2 DEF Fail, Failed
  <2>2. w \in Writes /\ w # "whole" /\ next' = next /\ up' = up
    BY <1>2, ResidentAssumption DEF Fail, Failed
  <2>3. up
    BY <1>2 DEF Fail
  <2> QED BY <2>1, <2>2, <2>3, WriteKeepsOrder DEF IdsInv, OnDisk, Ahead
<1>3. CASE Die
  <2>1. CASE file' = file
    BY <1>3, <2>1 DEF Die, IdsInv, OnDisk, IdsUp, Ahead
  <2>2. ASSUME NEW e \in Entries, NEW w \in Crashes, file' = Write(file, RecordOf(e), w)
        PROVE  IdsInv'
    <3>1. file' \in Seq(FileLines) /\ IdsUp'
      BY <1>3, <2>2, WriteKeepsOrder, ResidentAssumption DEF Die
    <3> QED BY <1>3, <3>1 DEF Die, IdsInv, OnDisk, Ahead
  <2> QED BY <1>3, <2>1, <2>2 DEF Die
<1>4. CASE Start
  <2> DEFINE log == Records(file)
             k == Len(Records(file))
  <2>1. /\ DOMAIN log = Good(file) /\ log \in Seq(Recs) /\ Good(file) = 1 .. k /\ k \in Nat
        /\ \A i \in Good(file) : log[i] = file[i].rec
    BY <1>4, RecordsAre DEF Start, OnDisk
  <2>2. next' \in Nat /\ \A i \in Good(file) : file[i].rec.id < next'
    <3>1. CASE log = <<>>
      <4>1. Good(file) = {}
        BY <2>1, <3>1
      <4>2. next' = 0
        BY <1>4, <3>1 DEF Start, NextId
      <4> QED BY <4>1, <4>2
    <3>2. CASE log # <<>>
      <4>1. k \in Good(file) /\ next' = file[k].rec.id + 1
        BY <1>4, <2>1, <3>2 DEF Start, NextId, Last
      <4>2. \A i \in Good(file) : i \in Nat /\ i <= k /\ file[i].rec.id \in Nat
        BY <2>1, GoodLines
      <4>3. \A i \in Good(file) : i < k => file[i].rec.id < file[k].rec.id
        BY <4>1 DEF IdsInv, IdsUp
      <4> QED
        <5>1. next' \in Nat
          BY <4>1, <4>2
        <5>2. ASSUME NEW i \in Good(file) PROVE file[i].rec.id < next'
          <6>1. i = k \/ i < k
            BY <4>2, <2>1
          <6> QED BY <4>1, <4>2, <4>3, <6>1
        <5> QED BY <5>1, <5>2
    <3> QED BY <3>1, <3>2
  <2> QED BY <1>4, <2>2 DEF Start, IdsInv, OnDisk, IdsUp, Ahead
<1>5. CASE Quiet
  BY <1>5 DEF Quiet, IdsInv, OnDisk, IdsUp, Ahead
<1> QED BY <1>1, <1>2, <1>3, <1>4, <1>5 DEF JournalStep

LEMMA IdsStart == Init => IdsInv
BY DEF Init, IdsInv, OnDisk, IdsUp, Ahead, Good

LEMMA IdsRead == IdsInv => IdsIncrease
<1> SUFFICES ASSUME IdsInv, Readable(file),
                    NEW i \in DOMAIN Records(file), NEW j \in DOMAIN Records(file), i < j
             PROVE  Records(file)[i].id < Records(file)[j].id
  BY DEF IdsIncrease
<1>1. i \in Good(file) /\ j \in Good(file)
      /\ Records(file)[i] = file[i].rec /\ Records(file)[j] = file[j].rec
  BY RecordsAre DEF IdsInv, OnDisk
<1> QED BY <1>1 DEF IdsInv, IdsUp

-----------------------------------------------------------------------------
(* What was acknowledged.                                                  *)

\* Only the last line can lack its newline, and every line is text.
Lines ==
    /\ \A i \in 1 .. Len(file) : i < Len(file) => file[i].nl
    /\ \A i \in 1 .. Len(file) : file[i].is # "mangled"

\* An acknowledged record keeps a line of its own, newline and all.
AckedOnDisk ==
    Damaged(file) \/ \A r \in acked : \E i \in Good(file) : file[i].nl /\ file[i].rec = r

AckInv == OnDisk /\ Lines /\ AckedOnDisk

\* A write of anything keeps what was acknowledged; a whole line is as good.
LEMMA WriteKeepsAcked ==
    ASSUME AckInv, NEW e \in Entries, NEW w \in Writes, w # "mangled",
           file' = Write(file, RecordOf(e), w),
           acked' = acked \/ (w = "whole" /\ acked' = acked \cup {RecordOf(e)})
    PROVE  file' \in Seq(FileLines) /\ Lines' /\ AckedOnDisk'
<1> DEFINE n == Len(file)
<1>1. /\ RecordOf(e) \in Recs /\ n \in Nat /\ file \in Seq(FileLines)
      /\ DOMAIN file = 1 .. n
  BY RecordType DEF AckInv, OnDisk
<1>2. CASE w = "none"
  <2>1. file' = file /\ acked' = acked
    BY <1>2 DEF Write
  <2> QED BY <2>1, <1>1 DEF AckInv, Lines, AckedOnDisk, Good
<1>3. CASE w # "none" /\ ~Torn(file)
  <2>1. /\ file' \in Seq(FileLines) /\ Len(file') = n + 1
        /\ \A i \in 1 .. n : file'[i] = file[i]
        /\ file'[n + 1] = Line(RecordOf(e), w)
        /\ DOMAIN file' = 1 .. n + 1
    BY <1>1, <1>3, WriteBehind
  <2>2. \A i \in 1 .. n : file[i].nl
    <3> SUFFICES ASSUME NEW i \in 1 .. n PROVE file[i].nl
      OBVIOUS
    <3>1. CASE i = n
      <4>1. file # <<>>
        BY <3>1, <1>1
      <4> QED BY <3>1, <4>1, <1>3 DEF Torn, Last
    <3>2. CASE i < n
      BY <3>2 DEF AckInv, Lines
    <3>3. i = n \/ i < n
      <4>1. n \in Nat
        BY <1>1
      <4> HIDE DEF n
      <4> QED BY <4>1
    <3> QED BY <3>1, <3>2, <3>3
  <2>3. Lines'
    <3>1. file'[n + 1].is # "mangled"
      BY <1>1, <1>3, <2>1, LineType
    <3>2. ASSUME NEW i \in 1 .. n + 1
          PROVE  (i < n + 1 => file'[i].nl) /\ file'[i].is # "mangled"
      <4>1. CASE i = n + 1
        BY <3>1, <4>1, <1>1
      <4>2. CASE i \in 1 .. n
        BY <2>1, <2>2, <4>2 DEF AckInv, Lines
      <4> QED BY <4>1, <4>2, <1>1
    <3> QED BY <2>1, <3>2 DEF Lines
  <2>4. CASE Damaged(file)
    <3>1. PICK i \in 1 .. n : file[i].is = "bad"
      BY <1>1, <2>4 DEF Damaged
    <3>2. i \in 1 .. n + 1 /\ file'[i].is = "bad" /\ i < n + 1
      BY <1>1, <2>1, <3>1
    <3> QED BY <2>1, <2>3, <3>2 DEF AckedOnDisk, Damaged
  <2>5. CASE ~Damaged(file)
    <3> SUFFICES ASSUME NEW r \in acked'
                 PROVE  \E i \in Good(file') : file'[i].nl /\ file'[i].rec = r
      BY <2>1, <2>3 DEF AckedOnDisk
    <3>1. CASE r \in acked
      <4>1. PICK i \in Good(file) : file[i].nl /\ file[i].rec = r
        BY <2>5, <3>1 DEF AckInv, AckedOnDisk
      <4>2. i \in 1 .. n /\ file[i].is = "ok"
        BY DEF Good
      <4>3. i \in Good(file') /\ file'[i] = file[i]
        BY <1>1, <2>1, <4>2 DEF Good
      <4> QED BY <4>1, <4>3
    <3>2. CASE w = "whole" /\ r = RecordOf(e)
      <4>1. /\ file'[n + 1].is = "ok" /\ file'[n + 1].nl = TRUE
            /\ file'[n + 1].rec = RecordOf(e)
        <5>1. /\ Line(RecordOf(e), w).nl = (w = "whole") /\ Line(RecordOf(e), w).is = "ok"
              /\ Line(RecordOf(e), w).rec = RecordOf(e)
          BY <1>1, <1>3, <3>2, LineType
        <5> QED BY <2>1, <3>2, <5>1
      <4>2. n + 1 \in Good(file')
        BY <1>1, <2>1, <4>1 DEF Good
      <4> QED BY <3>2, <4>1, <4>2
    <3> QED BY <3>1, <3>2
  <2> QED BY <2>1, <2>3, <2>4, <2>5
<1>4. CASE w # "none" /\ Torn(file)
  <2>1. /\ file' \in Seq(FileLines) /\ Len(file') = n /\ n \in 1 .. n
        /\ \A i \in 1 .. n : i # n => file'[i] = file[i]
        /\ file'[n].is \in {"bad", "mangled"} /\ file'[n].nl = (w = "whole")
        /\ file'[n].is = "mangled" => file[n].is = "mangled"
        /\ DOMAIN file' = 1 .. n
    <3>1. LET g == Write(file, RecordOf(e), w)
          IN /\ g \in Seq(FileLines) /\ Len(g) = Len(file) /\ Len(file) \in 1 .. Len(file)
             /\ \A i \in 1 .. Len(file) : i # Len(file) => g[i] = file[i]
             /\ g[Len(file)].is \in {"bad", "mangled"} /\ g[Len(file)].nl = (w = "whole")
             /\ g[Len(file)].is = "mangled" => file[Len(file)].is = "mangled" \/ w = "mangled"
      BY <1>1, <1>4, WriteOnto
    <3>2. DOMAIN file' = 1 .. Len(file')
      BY <3>1
    <3> QED BY <3>1, <3>2
  <2>2. file'[n].is = "bad"
    BY <2>1 DEF AckInv, Lines
  <2>3. Lines'
    <3>1. ASSUME NEW i \in 1 .. n
          PROVE  (i < n => file'[i].nl) /\ file'[i].is # "mangled"
      <4>1. CASE i = n
        BY <1>1, <2>2, <4>1
      <4>2. CASE i # n
        <5>1. file'[i] = file[i]
          BY <2>1, <4>2
        <5> QED BY <5>1 DEF AckInv, Lines
      <4> QED BY <4>1, <4>2
    <3> QED BY <2>1, <3>1 DEF Lines
  <2>4. CASE w = "whole"
    BY <2>1, <2>2, <2>3, <2>4 DEF AckedOnDisk, Damaged
  <2>5. CASE Damaged(file)
    <3>1. PICK i \in 1 .. n : file[i].is = "bad" /\ (file[i].nl \/ i < n)
      BY <1>1, <2>5 DEF Damaged
    <3>2. i # n
      <4>1. ~file[n].nl
        BY <1>4 DEF Torn, Last
      <4>2. i = n => file[i].nl
        BY <1>1, <3>1
      <4> QED BY <4>1, <4>2
    <3>3. file'[i] = file[i]
      BY <2>1, <3>2
    <3>4. i < n /\ file'[i].is = "bad"
      <4>1. n \in Nat /\ i \in 1 .. n
        BY <1>1
      <4> HIDE DEF n
      <4> QED BY <3>1, <3>2, <3>3, <4>1
    <3> QED BY <2>1, <2>3, <3>4 DEF AckedOnDisk, Damaged
  <2>6. CASE w # "whole" /\ ~Damaged(file)
    <3> SUFFICES ASSUME NEW r \in acked
                 PROVE  \E i \in Good(file') : file'[i].nl /\ file'[i].rec = r
      BY <2>1, <2>3, <2>6 DEF AckedOnDisk
    <3>1. PICK i \in Good(file) : file[i].nl /\ file[i].rec = r
      BY <2>6 DEF AckInv, AckedOnDisk
    <3>2. i \in 1 .. n /\ file[i].is = "ok" /\ i # n
      BY <1>4, <3>1 DEF Good, Torn, Last
    <3>3. i \in Good(file') /\ file'[i] = file[i]
      BY <2>1, <3>2 DEF Good
    <3> QED BY <3>1, <3>3
  <2> QED BY <2>1, <2>3, <2>4, <2>5, <2>6
<1> QED BY <1>2, <1>3, <1>4

LEMMA AckKept ==
    ASSUME "mangled" \notin Crashes \cup Errors, AckInv, [Next]_vars
    PROVE  AckInv'
<1> OnDisk /\ JournalStep /\ writing' \in Seq(Entries)
  BY StepsOfJournal DEF AckInv
<1> SUFFICES file' \in Seq(FileLines) /\ next' \in Nat /\ Lines' /\ AckedOnDisk'
  BY DEF AckInv, OnDisk
<1>1. ASSUME NEW e \in Entries, Land(e)
      PROVE  file' \in Seq(FileLines) /\ next' \in Nat /\ Lines' /\ AckedOnDisk'
  <2>1. /\ file' = Write(file, RecordOf(e), "whole") /\ next' \in Nat
        /\ acked' = acked \cup {RecordOf(e)}
    BY <1>1 DEF Land, Landed, OnDisk
  <2> QED BY <2>1, WriteKeepsAcked DEF Writes
<1>2. ASSUME NEW e \in Entries, Fail(e)
      PROVE  file' \in Seq(FileLines) /\ next' \in Nat /\ Lines' /\ AckedOnDisk'
  <2>1. PICK w \in Errors : file' = Write(file, RecordOf(e), w)
    BY <1>2 DEF Fail, Failed
  <2>2. w \in Writes /\ w # "mangled" /\ next' = next /\ acked' = acked
    BY <1>2, ResidentAssumption DEF Fail, Failed
  <2> QED BY <2>1, <2>2, WriteKeepsAcked DEF OnDisk
<1>3. CASE file' = file /\ acked' = acked /\ next' \in Nat
  BY <1>3 DEF AckInv, OnDisk, Lines, AckedOnDisk, Good
<1>4. CASE Die
  <2>1. next' \in Nat /\ acked' = acked
    BY <1>4 DEF Die
  <2>2. ASSUME NEW e \in Entries, NEW w \in Crashes, file' = Write(file, RecordOf(e), w)
        PROVE  file' \in Seq(FileLines) /\ Lines' /\ AckedOnDisk'
    BY <2>1, <2>2, WriteKeepsAcked, ResidentAssumption
  <2> QED BY <1>3, <1>4, <2>1, <2>2 DEF Die
<1>5. CASE Start
  <2>1. NextId(file) \in Nat
    <3> DEFINE log == Records(file)
    <3>1. log \in Seq(Recs)
      BY <1>5, RecordsAre DEF Start, OnDisk
    <3>2. log # <<>> => Last(log) \in Recs
      BY <3>1 DEF Last
    <3> QED BY <3>2 DEF NextId, Recs
  <2> QED BY <1>3, <1>5, <2>1 DEF Start
<1>6. CASE Quiet
  BY <1>3, <1>6 DEF Quiet, OnDisk
<1> QED BY <1>1, <1>2, <1>4, <1>5, <1>6 DEF JournalStep

LEMMA AckStart == Init => AckInv
BY DEF Init, AckInv, OnDisk, Lines, AckedOnDisk, Good

LEMMA AckRead == AckInv => AckedReplayed
<1> SUFFICES ASSUME AckInv, ~Damaged(file)
             PROVE  Readable(file) /\ acked \subseteq ToSet(Records(file))
  BY DEF AckedReplayed
<1> DEFINE n == Len(file)
<1>1. n \in Nat /\ DOMAIN file = 1 .. n /\ file \in Seq(FileLines)
  BY DEF AckInv, OnDisk
<1>2. Readable(file)
  <2> SUFFICES ASSUME NEW i \in 1 .. n
               PROVE  file[i].is = "ok" \/ (file[i].is = "bad" /\ i = n)
    BY <1>1 DEF Readable
  <2>1. file[i].is \in {"ok", "bad"}
    <3>1. file[i] \in FileLines
      BY <1>1
    <3> QED BY <3>1, FileLinesAre DEF AckInv, Lines
  <2>2. file[i].is = "bad" => ~(i < n)
    BY <1>1 DEF Damaged
  <2> QED BY <1>1, <2>1, <2>2
<1>3. ASSUME NEW r \in acked PROVE r \in ToSet(Records(file))
  <2>1. PICK i \in Good(file) : file[i].rec = r
    BY DEF AckInv, AckedOnDisk
  <2>2. i \in DOMAIN Records(file) /\ Records(file)[i] = r
    BY <1>1, <1>2, <2>1, RecordsAre
  <2> QED BY <2>2 DEF ToSet
<1> QED BY <1>2, <1>3

-----------------------------------------------------------------------------
(* The scheduler.                                                          *)

\* A run that was handed out is known to the scheduler, and a process that is
\* gone owes nothing.
Scheduled == (run => busy) /\ (~up => pending = "none" /\ due = FALSE /\ ~run)

LEMMA ScheduledStart == Init => Scheduled
BY DEF Init, Scheduled

LEMMA ScheduledKept == Scheduled /\ [Next]_vars => Scheduled'
<1> SUFFICES ASSUME Scheduled, [Next]_vars PROVE Scheduled'
  OBVIOUS
<1> USE DEF Scheduled
<1>1. CASE UNCHANGED vars
  BY <1>1 DEF vars, schedule
<1>2. CASE Open \/ Crash
  BY <1>2 DEF Open, Crash, Anew
<1>3. CASE Tick \/ PollBusy \/ FinishEmpty
  BY <1>3 DEF Tick, PollBusy, FinishEmpty, Idle
<1>4. CASE Finish
  BY <1>4 DEF Finish, Idle, schedule
<1>5. ASSUME NEW e \in Mutations, Note(e) PROVE Scheduled'
  BY <1>5 DEF Note, Idle, schedule
<1>6. CASE Receive
  BY <1>6 DEF Receive, Idle, schedule
<1>7. ASSUME NEW b, Begin(b), up, up' = up PROVE Scheduled'
  BY <1>7 DEF Begin
<1>8. CASE PollPending
  <2>1. (\E b : Begin(b)) /\ up /\ up' = up
    BY <1>8 DEF PollPending, Idle
  <2> QED BY <1>7, <2>1
<1>9. CASE PollHeartbeat
  BY <1>7, <1>9 DEF PollHeartbeat, Idle
<1>10. CASE FinishAppend
  BY <1>10 DEF FinishAppend
<1> QED
  BY <1>1, <1>2, <1>3, <1>4, <1>5, <1>6, <1>8, <1>9, <1>10 DEF Next

\* The two action properties, of one step.
Alone ==
    /\ up' /\ next' # next
    /\ (due /\ ~due') \/ (pending # "none" /\ pending' = "none")
    => ~run

Asked ==
    pending = "asked" /\ pending' # "asked"
      => ~up' \/ (run' /\ ~run) \/ (next' = next /\ ~busy)

LEMMA StepsOfScheduler ==
    ASSUME Scheduled, [Next]_vars
    PROVE  [Alone]_vars /\ [Asked]_vars
<1> USE DEF Scheduled
<1>1. CASE UNCHANGED vars
  BY <1>1
<1>2. CASE Open
  BY <1>2 DEF Open, Anew, Alone, Asked
<1>3. CASE Crash
  BY <1>3 DEF Crash, Anew, Alone, Asked
<1>4. CASE Tick \/ PollBusy \/ FinishEmpty
  BY <1>4 DEF Tick, PollBusy, FinishEmpty, Alone, Asked
<1>5. CASE Finish
  BY <1>5 DEF Finish, schedule, Alone, Asked
<1>6. ASSUME NEW e \in Mutations, Note(e) PROVE Alone /\ Asked
  BY <1>6 DEF Note, schedule, Alone, Asked
<1>7. CASE Receive
  BY <1>7 DEF Receive, schedule, Alone, Asked
<1>8. ASSUME NEW b, Begin(b) PROVE run' \/ next' = next
  BY <1>8 DEF Begin, Failed
<1>9. CASE PollPending
  <2>1. ~busy /\ ~run /\ \E b : Begin(b)
    BY <1>9 DEF PollPending
  <2> QED BY <2>1, <1>8 DEF Alone, Asked
<1>10. CASE PollHeartbeat
  <2>1. ~busy /\ pending' = pending
    BY <1>10 DEF PollHeartbeat
  <2> QED BY <2>1 DEF Alone, Asked
<1>11. CASE FinishAppend
  BY <1>11 DEF FinishAppend, Alone, Asked
<1> QED
  BY <1>1, <1>2, <1>3, <1>4, <1>5, <1>6, <1>7, <1>9, <1>10, <1>11 DEF Next

-----------------------------------------------------------------------------
(* Values that are built record by record.                                 *)

LEMMA LeastNat ==
    ASSUME NEW T \in SUBSET Nat, T # {}
    PROVE  \E n \in T : \A m \in T : n <= m
<1> DEFINE R == OpToRel(<, Nat)
<1>1. IsWellFoundedOn(R, Nat)
  BY NatLessThanWellFounded
<1>2. \E x \in T : \A y \in T : ~ (<<y, x>> \in R)
  <2> HIDE DEF R
  <2> QED BY <1>1, WFMin
<1>3. \A x, y \in Nat : y < x => <<y, x>> \in R
  BY DEF OpToRel
<1> HIDE DEF R
<1>4. PICK x \in T : \A y \in T : ~ (<<y, x>> \in R)
  BY <1>2
<1>5. \A y \in T : ~ (y < x)
  BY <1>3, <1>4
<1> QED BY <1>4, <1>5

\* s starts at z and each of its first k steps is the one that `step` tells.
Follows(s, k, z, step) == s[0] = z /\ \A i \in 1 .. k : s[i] = step[i][s[i - 1]]

\* Whatever the steps, there is a course of any length that follows them.
LEMMA CourseExists ==
    ASSUME NEW A, NEW z \in A, NEW n \in Nat, NEW step \in [1 .. n -> [A -> A]]
    PROVE  \E s \in [0 .. n -> A] : Follows(s, n, z, step)
<1> DEFINE T == {k \in 0 .. n : ~ \E s \in [0 .. k -> A] : Follows(s, k, z, step)}
<1> SUFFICES ASSUME T # {} PROVE FALSE
  <2>1. n \notin T
    OBVIOUS
  <2> QED BY <2>1
<1>1. PICK k \in T : \A m \in T : k <= m
  <2>1. T \in SUBSET Nat
    OBVIOUS
  <2> HIDE DEF T
  <2> QED BY <2>1, LeastNat
<1>2. k \in 0 .. n /\ ~ \E s \in [0 .. k -> A] : Follows(s, k, z, step)
  OBVIOUS
<1>3. k # 0
  <2> SUFFICES ASSUME k = 0 PROVE FALSE
    OBVIOUS
  <2> DEFINE s == [i \in 0 .. 0 |-> z]
  <2>1. s \in [0 .. k -> A] /\ Follows(s, k, z, step)
    BY DEF Follows
  <2> QED BY <1>2, <2>1
<1>4. k - 1 \in 0 .. n /\ k - 1 \notin T
  <2>1. k - 1 \in 0 .. n /\ ~(k <= k - 1)
    BY <1>2, <1>3
  <2> HIDE DEF T
  <2> QED BY <1>1, <2>1
<1>5. PICK s \in [0 .. k - 1 -> A] : Follows(s, k - 1, z, step)
  BY <1>4
<1> DEFINE g == [i \in 0 .. k |-> IF i = k THEN step[k][s[k - 1]] ELSE s[i]]
<1>6. step[k] \in [A -> A] /\ s[k - 1] \in A
  BY <1>2, <1>3
<1>7. g \in [0 .. k -> A]
  BY <1>2, <1>3, <1>6
<1>8. Follows(g, k, z, step)
  <2>1. g[0] = z
    BY <1>2, <1>3, <1>5 DEF Follows
  <2>2. ASSUME NEW i \in 1 .. k PROVE g[i] = step[i][g[i - 1]]
    <3>1. CASE i = k
      BY <1>2, <1>3, <3>1
    <3>2. CASE i # k
      <4>1. i \in 1 .. k - 1 /\ g[i] = s[i] /\ g[i - 1] = s[i - 1]
        BY <1>2, <1>3, <3>2
      <4> QED BY <4>1, <1>5 DEF Follows
    <3> QED BY <3>1, <3>2
  <2> HIDE DEF g
  <2> QED BY <2>1, <2>2 DEF Follows
<1> HIDE DEF g
<1> QED BY <1>2, <1>7, <1>8

\* Two courses agree as far as their steps do.
LEMMA CoursesAgree ==
    ASSUME NEW n \in Nat, NEW z, NEW a, NEW b, NEW st, NEW su,
           Follows(a, n, z, st), Follows(b, n, z, su),
           \A i \in 1 .. n : st[i] = su[i]
    PROVE  \A i \in 0 .. n : a[i] = b[i]
<1> DEFINE T == {k \in 0 .. n : a[k] # b[k]}
<1> SUFFICES ASSUME T # {} PROVE FALSE
  OBVIOUS
<1>1. PICK k \in T : \A m \in T : k <= m
  <2>1. T \in SUBSET Nat
    OBVIOUS
  <2> HIDE DEF T
  <2> QED BY <2>1, LeastNat
<1>2. k \in 0 .. n /\ a[k] # b[k] /\ k # 0
  BY DEF Follows
<1>3. k \in 1 .. n /\ k - 1 \in 0 .. n /\ ~(k <= k - 1)
  BY <1>2
<1>4. a[k - 1] = b[k - 1]
  <2>1. k - 1 \notin T
    <3> HIDE DEF T
    <3> QED BY <1>1, <1>3
  <2> QED BY <1>3, <2>1
<1> QED BY <1>2, <1>3, <1>4 DEF Follows

-----------------------------------------------------------------------------
(* The notes.                                                              *)

NotesAre == [Notes -> Values \cup {NoValue}]

\* What each record of log does to the notes.
NoteSteps(log) == [i \in 1 .. Len(log) |-> [s \in NotesAre |-> Applied(s, log[i].entry)]]

LEMMA AppliedType ==
    ASSUME NEW s \in NotesAre, NEW e \in Entries
    PROVE  Applied(s, e) \in NotesAre
<1>1. CASE e.kind = "set"
  <2>1. e \in [kind : {"set"}, key : Notes, value : Values]
    BY <1>1 DEF Entries, Plain, Rounds, Mutations
  <2> QED BY <1>1, <2>1 DEF Applied, NotesAre
<1>2. CASE e.kind = "delete"
  BY <1>2 DEF Applied, NotesAre
<1>3. CASE e.kind \notin {"set", "delete"}
  BY <1>3 DEF Applied
<1> QED BY <1>1, <1>2, <1>3

LEMMA EmptyType == EmptyScratch \in NotesAre
BY DEF EmptyScratch, NotesAre

\* The replay is the end of a course that follows the records.
LEMMA ReplayIs ==
    ASSUME NEW log \in Seq(Recs)
    PROVE  \E s \in [0 .. Len(log) -> NotesAre] :
              Follows(s, Len(log), EmptyScratch, NoteSteps(log)) /\ Replayed(log) = s[Len(log)]
<1> DEFINE n == Len(log)
           after[i \in 0 .. n] ==
              IF i = 0 THEN EmptyScratch ELSE Applied(after[i - 1], log[i].entry)
<1>1. n \in Nat /\ \A i \in 1 .. n : log[i].entry \in Entries
  <2>1. n \in Nat /\ \A i \in 1 .. n : log[i] \in Recs
    OBVIOUS
  <2> QED BY <2>1 DEF Recs
<1>2. NoteSteps(log) \in [1 .. n -> [NotesAre -> NotesAre]]
  BY <1>1, AppliedType DEF NoteSteps
<1>3. PICK s \in [0 .. n -> NotesAre] : Follows(s, n, EmptyScratch, NoteSteps(log))
  <2> HIDE DEF n
  <2> QED BY <1>1, <1>2, CourseExists, EmptyType
<1>4. \A i \in 1 .. n : s[i] = Applied(s[i - 1], log[i].entry)
  <2> SUFFICES ASSUME NEW i \in 1 .. n PROVE s[i] = Applied(s[i - 1], log[i].entry)
    OBVIOUS
  <2>1. s[i - 1] \in NotesAre
    BY <1>1
  <2>2. NoteSteps(log)[i] = [x \in NotesAre |-> Applied(x, log[i].entry)]
    BY DEF NoteSteps
  <2> QED BY <1>3, <2>1, <2>2 DEF Follows
<1>5. s = [i \in 0 .. n |-> IF i = 0 THEN EmptyScratch ELSE Applied(s[i - 1], log[i].entry)]
  <2>1. \A i \in 0 .. n : s[i] = IF i = 0 THEN EmptyScratch ELSE Applied(s[i - 1], log[i].entry)
    BY <1>1, <1>3, <1>4 DEF Follows
  <2> HIDE DEF n
  <2> QED BY <2>1
<1>6. after = [i \in 0 .. n |-> IF i = 0 THEN EmptyScratch ELSE Applied(after[i - 1], log[i].entry)]
  BY <1>5 DEF after
<1> HIDE DEF after
<1>7. after[0] = EmptyScratch /\ \A i \in 1 .. n : after[i] = Applied(after[i - 1], log[i].entry)
  BY <1>1, <1>6
<1>8. s[0] = EmptyScratch
  BY <1>3 DEF Follows
<1> DEFINE T == {k \in 0 .. n : after[k] # s[k]}
<1>9. T = {}
  <2> SUFFICES ASSUME T # {} PROVE FALSE
    OBVIOUS
  <2>1. PICK k \in T : \A m \in T : k <= m
    <3>1. T \in SUBSET Nat
      BY <1>1
    <3> HIDE DEF T
    <3> QED BY <3>1, LeastNat
  <2>2. k \in 0 .. n /\ after[k] # s[k] /\ k # 0
    BY <1>7, <1>8
  <2>3. k \in 1 .. n /\ k - 1 \in 0 .. n /\ ~(k <= k - 1)
    BY <1>1, <2>2
  <2>4. after[k - 1] = s[k - 1]
    <3>1. k - 1 \notin T
      <4> HIDE DEF T
      <4> QED BY <2>1, <2>3
    <3> QED BY <2>3, <3>1
  <2> QED BY <1>4, <1>7, <2>2, <2>3, <2>4
<1>10. Replayed(log) = after[n]
  BY DEF Replayed, after
<1>11. n \in 0 .. n
  BY <1>1
<1> QED BY <1>3, <1>9, <1>10, <1>11

\* What is read back of one record more is what was, with the record applied.
LEMMA ReplayOneMore ==
    ASSUME NEW log \in Seq(Recs), NEW r \in Recs
    PROVE  Replayed(Append(log, r)) = Applied(Replayed(log), r.entry)
<1> DEFINE n == Len(log)
           more == Append(log, r)
<1>1. /\ n \in Nat /\ more \in Seq(Recs) /\ Len(more) = n + 1 /\ more[n + 1] = r
      /\ \A i \in 1 .. n : more[i] = log[i]
  OBVIOUS
<1>2. PICK s \in [0 .. n -> NotesAre] :
         Follows(s, n, EmptyScratch, NoteSteps(log)) /\ Replayed(log) = s[n]
  BY ReplayIs
<1>3. PICK t \in [0 .. n + 1 -> NotesAre] :
         Follows(t, n + 1, EmptyScratch, NoteSteps(more)) /\ Replayed(more) = t[n + 1]
  <2> HIDE DEF n, more
  <2> QED BY <1>1, ReplayIs
<1>4. Follows(t, n, EmptyScratch, NoteSteps(more))
  BY <1>1, <1>3 DEF Follows
<1>5. \A i \in 1 .. n : NoteSteps(log)[i] = NoteSteps(more)[i]
  BY <1>1 DEF NoteSteps
<1>6. t[n] = s[n]
  <2> HIDE DEF n, more
  <2>1. \A i \in 0 .. n : t[i] = s[i]
    BY <1>1, <1>2, <1>4, <1>5, CoursesAgree
  <2> QED BY <1>1, <2>1
<1>7. t[n + 1] = Applied(t[n], r.entry)
  <2>1. NoteSteps(more)[n + 1] = [x \in NotesAre |-> Applied(x, r.entry)]
    BY <1>1 DEF NoteSteps
  <2>2. t[n] \in NotesAre /\ n + 1 \in 1 .. n + 1 /\ (n + 1) - 1 = n
    BY <1>1, <1>3
  <2>3. t[n + 1] = NoteSteps(more)[n + 1][t[(n + 1) - 1]]
    BY <1>3, <2>2 DEF Follows
  <2> HIDE DEF n, more
  <2> QED BY <2>1, <2>2, <2>3
<1> QED BY <1>2, <1>3, <1>6, <1>7

LEMMA ReplayType ==
    ASSUME NEW log \in Seq(Recs)
    PROVE  Replayed(log) \in NotesAre
<1>1. PICK s \in [0 .. Len(log) -> NotesAre] : Replayed(log) = s[Len(log)]
  BY ReplayIs
<1> QED BY <1>1

-----------------------------------------------------------------------------
(* The notes in memory and the notes on file.                              *)

\* What a step does to the journal and to the notes beside it.
NotesStep ==
    \/ Die /\ scratch' = EmptyScratch /\ next < MaxEntries
    \/ Start /\ scratch' = Replayed(Records(file))
    \/ Quiet /\ scratch' = scratch
    \/ \E e \in Entries :
          \/ Land(e) /\ scratch' = Applied(scratch, e)
          \/ Fail(e) /\ scratch' = scratch

LEMMA NoNote ==
    ASSUME NEW e \in {Wake, Entry("input")}, NEW s
    PROVE  Applied(s, e) = s
BY DEF Wake, Entry, Applied

LEMMA StepsOfNotes ==
    ASSUME OnDisk, [Next]_vars
    PROVE  NotesStep
<1> USE DEF OnDisk
<1>1. CASE UNCHANGED vars
  BY <1>1 DEF vars, NotesStep, Quiet
<1>2. CASE Open
  BY <1>2 DEF Open, Anew, NotesStep, Start
<1>3. CASE Crash
  <2>1. InHand \subseteq Entries
    BY EntriesAre, HeadIsEntry DEF InHand
  <2> QED BY <1>3, <2>1 DEF Crash, Anew, NotesStep, Die
<1>4. CASE Tick
  BY <1>4 DEF Tick, NotesStep, Quiet
<1>5. ASSUME NEW e \in Mutations, Note(e) PROVE NotesStep
  BY <1>5, EntriesAre DEF Note, Idle, NotesStep, Land, Fail
<1>6. CASE Receive
  <2>1. scratch' = scratch /\ up /\ up' = up
    BY <1>6 DEF Receive, Idle
  <2>2. CASE Landed(Entry("input"))
    BY <2>1, <2>2, EntriesAre, NoNote DEF NotesStep, Land
  <2>3. CASE Failed(Entry("input"))
    BY <2>1, <2>3, EntriesAre DEF NotesStep, Fail
  <2> QED BY <1>6, <2>2, <2>3 DEF Receive
<1>7. CASE PollBusy
  BY <1>7 DEF PollBusy, NotesStep, Quiet
<1>8. ASSUME NEW b, Begin(b), up, up' = up, scratch' = scratch PROVE NotesStep
  <2>1. CASE Landed(Wake)
    BY <1>8, <2>1, EntriesAre, NoNote DEF NotesStep, Land
  <2>2. CASE Failed(Wake)
    BY <1>8, <2>2, EntriesAre DEF NotesStep, Fail
  <2> QED BY <1>8, <2>1, <2>2 DEF Begin, NotesStep, Quiet
<1>9. CASE PollPending
  <2>1. \E b : Begin(b)
    BY <1>9 DEF PollPending
  <2> QED BY <1>8, <1>9, <2>1 DEF PollPending, Idle
<1>10. CASE PollHeartbeat
  BY <1>8, <1>10 DEF PollHeartbeat, Idle
<1>11. CASE FinishEmpty
  BY <1>11 DEF FinishEmpty, NotesStep, Quiet
<1>12. CASE Finish
  BY <1>12 DEF Finish, NotesStep, Quiet
<1>13. CASE FinishAppend
  <2>1. Head(writing) \in Entries
    BY <1>13, HeadIsEntry DEF FinishAppend
  <2>2. up /\ up' = up
    BY <1>13 DEF FinishAppend
  <2>3. \/ Landed(Head(writing)) /\ scratch' = Applied(scratch, Head(writing))
        \/ Failed(Head(writing)) /\ scratch' = scratch
    BY <1>13 DEF FinishAppend
  <2> HIDE DEF OnDisk
  <2> QED BY <2>1, <2>2, <2>3 DEF Land, Fail, NotesStep
<1> QED
  BY <1>1, <1>2, <1>3, <1>4, <1>5, <1>6, <1>7, <1>9, <1>10, <1>11, <1>12, <1>13 DEF Next

\* A failed append leaves no record: nothing at all, or bytes that do not
\* parse, and then no crash leaves a record without its newline, which such
\* bytes would spoil.
FailsClean ==
    /\ "bare" \notin Errors /\ "whole" \notin Errors
    /\ Errors \subseteq {"none"} \/ "bare" \notin Crashes

\* A record that lacks its newline comes of a crash alone.
NoBareRecord ==
    Errors \subseteq {"none"} \/ \A i \in Good(file) : file[i].nl

\* Only the last line lacks its newline.
NewlinesKept == \A i \in 1 .. Len(file) : i < Len(file) => file[i].nl

NotesInv == OnDisk /\ NewlinesKept /\ NoBareRecord /\ ScratchIsReplay

\* An append behind a whole line: the records are the old ones and, when the
\* line parses, the new one; and then the file was sound before.
LEMMA WriteBehindReads ==
    ASSUME NEW f \in Seq(FileLines), NEW r \in Recs, NEW w \in Writes, w # "none", ~Torn(f),
           NEW g, g = Write(f, r, w), Readable(g), ~Damaged(g)
    PROVE  /\ Readable(f) /\ ~Damaged(f)
           /\ w \in {"bare", "whole"} => Records(g) = Append(Records(f), r)
           /\ w \notin {"bare", "whole"} => Records(g) = Records(f)
<1> DEFINE n == Len(f)
<1>1. /\ g \in Seq(FileLines) /\ Len(g) = n + 1 /\ n \in Nat
      /\ \A i \in 1 .. n : g[i] = f[i]
      /\ g[n + 1] = Line(r, w) /\ DOMAIN f = 1 .. n /\ DOMAIN g = 1 .. n + 1
  BY WriteBehind
<1> HIDE DEF n
<1>2. \A i \in 1 .. n : f[i].is = "ok"
  BY <1>1 DEF Readable
<1>3. Readable(f) /\ ~Damaged(f)
  BY <1>1, <1>2 DEF Readable, Damaged
<1>4. /\ Records(f) \in Seq(Recs) /\ Len(Records(f)) = n
      /\ \A i \in 1 .. n : Records(f)[i] = f[i].rec
  <2>1. Good(f) = 1 .. n
    BY <1>1, <1>2 DEF Good, n
  <2>2. /\ \A i \in Good(f) : Records(f)[i] = f[i].rec
        /\ Records(f) \in Seq(Recs) /\ Good(f) = 1 .. Len(Records(f))
    BY <1>3, RecordsAre
  <2>3. Len(Records(f)) \in Nat
    BY <2>2
  <2> QED BY <1>1, <2>1, <2>2, <2>3
<1>5. /\ \A i \in Good(g) : Records(g)[i] = g[i].rec
      /\ Records(g) \in Seq(Recs) /\ Good(g) = 1 .. Len(Records(g))
  BY <1>1, RecordsAre
<1>6. Len(Records(g)) \in Nat
  BY <1>5
<1>7. CASE w \in {"bare", "whole"}
  <2>1. g[n + 1].is = "ok" /\ g[n + 1].rec = r
    BY <1>1, <1>7, LineType
  <2>2. Good(g) = 1 .. n + 1
    BY <1>1, <1>2, <2>1 DEF Good
  <2>3. Len(Records(g)) = n + 1
    BY <1>1, <1>5, <1>6, <2>2
  <2>4. \A i \in 1 .. n + 1 : Records(g)[i] = IF i = n + 1 THEN r ELSE Records(f)[i]
    BY <1>1, <1>4, <1>5, <2>1, <2>2
  <2>5. Records(g) = Append(Records(f), r)
    BY <1>1, <1>4, <1>5, <2>3, <2>4, SeqEqual, AppendProperties
  <2> QED BY <1>3, <1>7, <2>5
<1>8. CASE w \notin {"bare", "whole"}
  <2>1. g[n + 1].is # "ok"
    BY <1>1, <1>8, LineType
  <2>2. Good(g) = 1 .. n
    BY <1>1, <1>2, <2>1 DEF Good
  <2>3. Len(Records(g)) = n
    BY <1>1, <1>5, <1>6, <2>2
  <2>4. \A i \in 1 .. n : Records(g)[i] = Records(f)[i]
    BY <1>1, <1>4, <1>5, <2>2
  <2>5. Records(g) = Records(f)
    BY <1>1, <1>4, <1>5, <2>3, <2>4, SeqEqual
  <2> QED BY <1>3, <1>8, <2>5
<1> QED BY <1>7, <1>8

\* An append behind a torn line never leaves a sound file when it ends in a
\* newline, and spoils nothing when the torn line was no record.
LEMMA WriteOntoReads ==
    ASSUME NEW f \in Seq(FileLines), NEW r \in Recs, NEW w \in Writes, w # "none", Torn(f),
           NEW g, g = Write(f, r, w), Readable(g), ~Damaged(g)
    PROVE  /\ w # "whole"
           /\ f[Len(f)].is # "ok" => Readable(f) /\ ~Damaged(f) /\ Records(g) = Records(f)
<1> DEFINE n == Len(f)
<1>1. /\ g \in Seq(FileLines) /\ Len(g) = n /\ n \in Nat /\ n \in 1 .. n
      /\ \A i \in 1 .. n : i # n => g[i] = f[i]
      /\ g[n].is \in {"bad", "mangled"} /\ g[n].nl = (w = "whole")
      /\ g[n].is = "mangled" <=> "mangled" \in {f[n].is, Line(r, w).is}
      /\ DOMAIN f = 1 .. n /\ DOMAIN g = 1 .. n /\ ~f[n].nl
  <2>1. n \in 1 .. n /\ ~f[n].nl
    BY WriteOnto DEF Torn, Last
  <2>2. g[n] = [is |-> IF "mangled" \in {f[n].is, Line(r, w).is} THEN "mangled" ELSE "bad",
                nl |-> w = "whole"]
    BY <2>1 DEF Write
  <2>3. g[n].is = "mangled" <=> "mangled" \in {f[n].is, Line(r, w).is}
    BY <2>2
  <2> QED BY <2>1, <2>3, WriteOnto
<1> HIDE DEF n
<1>2. g[n].is = "bad" /\ ~g[n].nl
  BY <1>1 DEF Readable, Damaged
<1>3. w # "whole"
  BY <1>1, <1>2
<1>4. ASSUME f[n].is # "ok" PROVE Readable(f) /\ ~Damaged(f) /\ Records(g) = Records(f)
  <2>1. f[n].is = "bad"
    <3>1. f[n] \in FileLines
      BY <1>1
    <3> QED BY <1>1, <1>2, <1>4, <3>1, FileLinesAre
  <2>2. \A i \in 1 .. n : i # n => f[i].is = "ok"
    BY <1>1 DEF Readable
  <2>3. Readable(f) /\ ~Damaged(f)
    BY <1>1, <2>1, <2>2 DEF Readable, Damaged, n
  <2>4. Good(f) = Good(g) /\ \A i \in Good(f) : i # n
    BY <1>1, <1>2, <2>1, <2>2 DEF Good, n
  <2>5. /\ \A i \in Good(f) : Records(f)[i] = f[i].rec
        /\ Records(f) \in Seq(Recs) /\ Good(f) = 1 .. Len(Records(f))
    BY <2>3, RecordsAre
  <2>6. /\ \A i \in Good(g) : Records(g)[i] = g[i].rec
        /\ Records(g) \in Seq(Recs) /\ Good(g) = 1 .. Len(Records(g))
    BY <1>1, RecordsAre
  <2>7. Len(Records(f)) = Len(Records(g))
    <3> DEFINE k == Len(Records(f))
               m == Len(Records(g))
    <3>1. k \in Nat /\ m \in Nat
      BY <2>5, <2>6, LenProperties
    <3>2. 1 .. k = 1 .. m
      BY <2>4, <2>5, <2>6
    <3> HIDE DEF k, m
    <3>3. k = m
      BY <3>1, <3>2
    <3> QED BY <3>3 DEF k, m
  <2>8. \A i \in Good(f) : f[i] = g[i]
    BY <1>1, <2>4 DEF Good, n
  <2> QED BY <2>3, <2>4, <2>5, <2>6, <2>7, <2>8, SeqEqual
<1> QED BY <1>3, <1>4 DEF n

\* What a write keeps of the lines, whichever it is.
LEMMA WriteKeepsLines ==
    ASSUME NotesInv, NEW r \in Recs, NEW w \in Writes, file' = Write(file, r, w),
           Errors \subseteq {"none"} \/ w # "bare"
    PROVE  file' \in Seq(FileLines) /\ NewlinesKept' /\ NoBareRecord'
<1> DEFINE n == Len(file)
<1>1. file \in Seq(FileLines) /\ n \in Nat
  BY DEF NotesInv, OnDisk
<1>2. CASE w = "none"
  BY <1>2 DEF Write, NotesInv, OnDisk, NewlinesKept, NoBareRecord, Good
<1>3. CASE w # "none" /\ ~Torn(file)
  <2>1. /\ file' \in Seq(FileLines) /\ Len(file') = n + 1
        /\ \A i \in 1 .. n : file'[i] = file[i]
        /\ file'[n + 1] = Line(r, w)
    BY <1>1, <1>3, WriteBehind
  <2>2. \A i \in 1 .. n : file[i].nl
    <3>1. n # 0 => file # <<>>
      OBVIOUS
    <3>2. n # 0 => file[n].nl
      BY <1>3, <3>1 DEF Torn, Last
    <3>3. \A i \in 1 .. n : i < n => file[i].nl
      BY DEF NotesInv, NewlinesKept
    <3> HIDE DEF n
    <3> QED BY <1>1, <3>2, <3>3
  <2>3. NewlinesKept'
    <3> SUFFICES ASSUME NEW i \in 1 .. n + 1, i < n + 1 PROVE file'[i].nl
      BY <2>1 DEF NewlinesKept
    <3>1. i \in 1 .. n
      BY <1>1
    <3> QED BY <2>1, <2>2, <3>1
  <2>4. NoBareRecord'
    <3> SUFFICES ASSUME w # "bare", NEW i \in Good(file') PROVE file'[i].nl
      BY DEF NoBareRecord
    <3>1. i \in 1 .. n + 1 /\ file'[i].is = "ok"
      BY <2>1 DEF Good
    <3>2. CASE i = n + 1
      <4>1. /\ Line(r, w).nl = (w = "whole")
            /\ Line(r, w).is = "ok" => w \in {"bare", "whole"}
        BY <1>3, LineType
      <4>2. w = "whole"
        BY <2>1, <3>1, <3>2, <4>1
      <4> QED BY <2>1, <3>2, <4>1, <4>2
    <3>3. CASE i \in 1 .. n
      BY <2>1, <2>2, <3>3
    <3> QED BY <1>1, <3>1, <3>2, <3>3
  <2> QED BY <2>1, <2>3, <2>4
<1>4. CASE w # "none" /\ Torn(file)
  <2>1. /\ file' \in Seq(FileLines) /\ Len(file') = n
        /\ \A i \in 1 .. n : i # n => file'[i] = file[i]
        /\ file'[n].is \in {"bad", "mangled"}
    BY <1>1, <1>4, WriteOnto
  <2>2. NewlinesKept'
    BY <2>1 DEF NotesInv, NewlinesKept
  <2>3. \A i \in Good(file') : i \in Good(file) /\ file'[i] = file[i]
    BY <2>1 DEF Good
  <2>4. NoBareRecord'
    BY <2>3 DEF NotesInv, NoBareRecord
  <2> QED BY <2>1, <2>2, <2>4
<1> QED BY <1>2, <1>3, <1>4

LEMMA NotesKept ==
    ASSUME FailsClean, NotesInv, [Next]_vars
    PROVE  NotesInv'
<1>1. NotesStep /\ JournalStep /\ writing' \in Seq(Entries) /\ OnDisk
  BY StepsOfNotes, StepsOfJournal DEF NotesInv
<1>2. ASSUME NEW e \in Entries, Land(e), scratch' = Applied(scratch, e) PROVE NotesInv'
  <2> DEFINE r == RecordOf(e)
  <2>1. r \in Recs /\ r.entry = e /\ file' = Write(file, r, "whole") /\ next' \in Nat /\ up
    BY <1>1, <1>2, RecordType DEF Land, Landed, OnDisk, RecordOf
  <2> HIDE DEF r
  <2>2. file' \in Seq(FileLines) /\ NewlinesKept' /\ NoBareRecord'
    BY <2>1, WriteKeepsLines DEF Writes
  <2>3. ScratchIsReplay'
    <3> SUFFICES ASSUME Readable(file'), ~Damaged(file')
                 PROVE  scratch' = Replayed(Records(file'))
      BY DEF ScratchIsReplay
    <3>1. ~Torn(file)
      <4> SUFFICES ASSUME Torn(file) PROVE FALSE
        OBVIOUS
      <4>1. file \in Seq(FileLines) /\ "whole" \in Writes
        BY <1>1 DEF OnDisk, Writes
      <4> QED BY <2>1, <4>1, WriteOntoReads
    <3>2. /\ Readable(file) /\ ~Damaged(file)
          /\ Records(file') = Append(Records(file), r)
      <4>1. file \in Seq(FileLines) /\ "whole" \in Writes
        BY <1>1 DEF OnDisk, Writes
      <4> QED BY <2>1, <3>1, <4>1, WriteBehindReads
    <3>3. Records(file) \in Seq(Recs)
      BY <1>1, <3>2, RecordsAre DEF OnDisk
    <3>4. scratch = Replayed(Records(file))
      BY <2>1, <3>2 DEF NotesInv, ScratchIsReplay
    <3> QED BY <1>2, <2>1, <3>2, <3>3, <3>4, ReplayOneMore
  <2> QED BY <1>1, <2>1, <2>2, <2>3 DEF NotesInv, OnDisk
<1>3. ASSUME NEW e \in Entries, Fail(e), scratch' = scratch PROVE NotesInv'
  <2> DEFINE r == RecordOf(e)
  <2>1. r \in Recs /\ next' \in Nat /\ up
    BY <1>1, <1>3, RecordType DEF Fail, Failed, OnDisk
  <2>2. PICK w \in Errors : file' = Write(file, r, w)
    BY <1>3 DEF Fail, Failed
  <2>3. w \in Writes /\ w # "bare" /\ w # "whole"
    BY ResidentAssumption DEF FailsClean
  <2> HIDE DEF r
  <2>4. file' \in Seq(FileLines) /\ NewlinesKept' /\ NoBareRecord'
    BY <2>1, <2>2, <2>3, WriteKeepsLines
  <2>5. ScratchIsReplay'
    <3> SUFFICES ASSUME Readable(file'), ~Damaged(file')
                 PROVE  scratch = Replayed(Records(file'))
      BY <1>3 DEF ScratchIsReplay
    <3>1. file \in Seq(FileLines)
      BY <1>1 DEF OnDisk
    <3>2. Readable(file) /\ ~Damaged(file) /\ Records(file') = Records(file)
      <4>1. CASE w = "none"
        BY <2>2, <4>1 DEF Write
      <4>2. CASE w # "none" /\ ~Torn(file)
        BY <2>1, <2>2, <2>3, <3>1, <4>2, WriteBehindReads
      <4>3. CASE w # "none" /\ Torn(file)
        <5>1. file[Len(file)].is # "ok"
          <6>1. Len(file) \in 1 .. Len(file) /\ ~file[Len(file)].nl
            BY <3>1, <4>3 DEF Torn, Last
          <6>2. ~(Errors \subseteq {"none"})
            BY <4>3
          <6> QED BY <6>1, <6>2 DEF NotesInv, NoBareRecord, Good
        <5> QED BY <2>1, <2>2, <2>3, <3>1, <4>3, <5>1, WriteOntoReads
      <4> QED BY <4>1, <4>2, <4>3
    <3> QED BY <2>1, <3>2 DEF NotesInv, ScratchIsReplay
  <2> QED BY <1>1, <2>1, <2>4, <2>5 DEF NotesInv, OnDisk
<1>4. CASE Die
  <2>1. next' \in Nat /\ ScratchIsReplay'
    BY <1>4 DEF Die, ScratchIsReplay
  <2>2. file' \in Seq(FileLines) /\ NewlinesKept' /\ NoBareRecord'
    <3>1. CASE file' = file
      BY <3>1 DEF NotesInv, OnDisk, NewlinesKept, NoBareRecord, Good
    <3>2. ASSUME NEW e \in Entries, NEW w \in Crashes, file' = Write(file, RecordOf(e), w)
          PROVE  file' \in Seq(FileLines) /\ NewlinesKept' /\ NoBareRecord'
      <4>1. w \in Writes /\ RecordOf(e) \in Recs /\ (Errors \subseteq {"none"} \/ w # "bare")
        BY <1>1, RecordType, ResidentAssumption DEF FailsClean
      <4> QED BY <3>2, <4>1, WriteKeepsLines
    <3> QED BY <1>4, <3>1, <3>2 DEF Die
  <2> QED BY <1>1, <2>1, <2>2 DEF NotesInv, OnDisk
<1>5. CASE Start /\ scratch' = Replayed(Records(file))
  <2>1. NextId(file) \in Nat
    <3> DEFINE log == Records(file)
    <3>1. log \in Seq(Recs)
      BY <1>1, <1>5, RecordsAre DEF Start, OnDisk
    <3>2. log # <<>> => Last(log) \in Recs
      BY <3>1 DEF Last
    <3> QED BY <3>2 DEF NextId, Recs
  <2>2. file' = file /\ next' \in Nat /\ scratch' = Replayed(Records(file'))
    BY <1>5, <2>1 DEF Start
  <2> QED
    BY <1>1, <2>2 DEF NotesInv, OnDisk, NewlinesKept, NoBareRecord, ScratchIsReplay, Good
<1>6. CASE Quiet /\ scratch' = scratch
  BY <1>1, <1>6 DEF Quiet, NotesInv, OnDisk, NewlinesKept, NoBareRecord, ScratchIsReplay, Good
<1> QED BY <1>1, <1>2, <1>3, <1>4, <1>5, <1>6 DEF NotesStep

LEMMA ReplayOfNothing == Replayed(<<>>) = EmptyScratch
<1>1. PICK s \in [0 .. Len(<<>>) -> NotesAre] :
        Follows(s, Len(<<>>), EmptyScratch, NoteSteps(<<>>)) /\ Replayed(<<>>) = s[Len(<<>>)]
  <2>1. <<>> \in Seq(Recs)
    OBVIOUS
  <2> QED BY <2>1, ReplayIs
<1> QED BY <1>1 DEF Follows

LEMMA NotesStart == Init => NotesInv
<1> SUFFICES ASSUME Init PROVE NotesInv
  OBVIOUS
<1>1. Records(file) = <<>>
  BY DEF Init, Records
<1>2. OnDisk /\ NewlinesKept /\ NoBareRecord
  BY DEF Init, OnDisk, NewlinesKept, NoBareRecord, Good
<1>3. ScratchIsReplay
  BY <1>1, ReplayOfNothing DEF Init, ScratchIsReplay
<1> QED BY <1>2, <1>3 DEF NotesInv

-----------------------------------------------------------------------------
(* Whole rounds.                                                           *)

\* The calls that are open after record e, when `open` were before it.
OpenAfter(open, e) ==
    CASE e.kind = "call" -> open \cup {e.of}
      [] e.kind = "result" -> open \ {e.of}
      [] OTHER -> open

LEMMA RoundsAre ==
    ASSUME NEW e \in Entries, e.kind \in {"call", "result"}
    PROVE  e.of \in Calls /\ e = [kind |-> e.kind, of |-> e.of]
BY DEF Entries, Plain, Rounds, Mutations

LEMMA AwaitingIs ==
    ASSUME NEW log \in Seq(Recs)
    PROVE  /\ Awaiting(log)[0] = {}
           /\ \A i \in 1 .. Len(log) :
                Awaiting(log)[i] = OpenAfter(Awaiting(log)[i - 1], log[i].entry)
<1> DEFINE n == Len(log)
           step == [i \in 1 .. n |-> [o \in SUBSET Calls |-> OpenAfter(o, log[i].entry)]]
           after[i \in 0 .. n] ==
            IF i = 0 THEN {}
            ELSE LET e == log[i].entry
                 IN CASE e.kind = "call" -> after[i - 1] \cup {e.of}
                      [] e.kind = "result" -> after[i - 1] \ {e.of}
                      [] OTHER -> after[i - 1]
<1>1. n \in Nat /\ \A i \in 1 .. n : log[i].entry \in Entries
  <2>1. n \in Nat /\ \A i \in 1 .. n : log[i] \in Recs
    OBVIOUS
  <2> QED BY <2>1 DEF Recs
<1>2. step \in [1 .. n -> [SUBSET Calls -> SUBSET Calls]]
  <2>1. ASSUME NEW o \in SUBSET Calls, NEW e \in Entries PROVE OpenAfter(o, e) \in SUBSET Calls
    <3>1. CASE e.kind \in {"call", "result"}
      BY <2>1, <3>1, RoundsAre DEF OpenAfter
    <3>2. CASE e.kind \notin {"call", "result"}
      BY <3>2 DEF OpenAfter
    <3> QED BY <3>1, <3>2
  <2> QED BY <1>1, <2>1
<1>3. PICK s \in [0 .. n -> SUBSET Calls] : Follows(s, n, {}, step)
  <2>1. {} \in SUBSET Calls
    OBVIOUS
  <2> HIDE DEF n, step
  <2> QED BY <1>1, <1>2, <2>1, CourseExists
<1>4. \A i \in 1 .. n : s[i] = OpenAfter(s[i - 1], log[i].entry)
  <2> SUFFICES ASSUME NEW i \in 1 .. n PROVE s[i] = OpenAfter(s[i - 1], log[i].entry)
    OBVIOUS
  <2>1. s[i - 1] \in SUBSET Calls
    BY <1>1
  <2>2. step[i] = [x \in SUBSET Calls |-> OpenAfter(x, log[i].entry)]
    OBVIOUS
  <2>3. s[i] = step[i][s[i - 1]]
    BY <1>3 DEF Follows
  <2> HIDE DEF step
  <2> QED BY <2>1, <2>2, <2>3
<1>5. s = [i \in 0 .. n |-> IF i = 0 THEN {} ELSE OpenAfter(s[i - 1], log[i].entry)]
  <2>1. \A i \in 0 .. n : s[i] = IF i = 0 THEN {} ELSE OpenAfter(s[i - 1], log[i].entry)
    <3>1. s[0] = {}
      BY <1>3 DEF Follows
    <3> HIDE DEF n
    <3> QED BY <1>1, <1>4, <3>1
  <2> HIDE DEF n
  <2> QED BY <2>1
<1>6. after = [i \in 0 .. n |-> IF i = 0 THEN {} ELSE OpenAfter(after[i - 1], log[i].entry)]
  BY <1>5 DEF after, OpenAfter
<1>7. Awaiting(log) = after
  BY DEF Awaiting, after
<1> HIDE DEF after
<1> HIDE DEF n
<1>8. \A i \in 0 .. n : after[i] = IF i = 0 THEN {} ELSE OpenAfter(after[i - 1], log[i].entry)
  BY <1>6
<1>9. after[0] = {} /\ \A i \in 1 .. n : after[i] = OpenAfter(after[i - 1], log[i].entry)
  BY <1>1, <1>8
<1> QED BY <1>7, <1>9 DEF n

\* Between a call and the first answer to it the round is open.
LEMMA OpenBetween ==
    ASSUME NEW log \in Seq(Recs), NEW i \in 1 .. Len(log), NEW j \in 1 .. Len(log), i < j,
           log[i].entry.kind = "call", log[j].entry.kind = "result",
           log[i].entry.of = log[j].entry.of,
           \A m \in i + 1 .. j - 1 : log[m].entry # log[j].entry
    PROVE  \A m \in i .. j - 1 : log[j].entry.of \in Awaiting(log)[m]
<1> DEFINE c == log[j].entry.of
           T == {m \in i .. j - 1 : c \notin Awaiting(log)[m]}
<1> SUFFICES ASSUME T # {} PROVE FALSE
  OBVIOUS
<1>1. PICK k \in T : \A m \in T : k <= m
  <2>1. T \in SUBSET Nat
    OBVIOUS
  <2> HIDE DEF T
  <2> QED BY <2>1, LeastNat
<1>2. k \in i .. j - 1 /\ c \notin Awaiting(log)[k] /\ k \in 1 .. Len(log)
  OBVIOUS
<1>3. Awaiting(log)[k] = OpenAfter(Awaiting(log)[k - 1], log[k].entry)
  BY <1>2, AwaitingIs
<1>4. k # i
  BY <1>2, <1>3 DEF OpenAfter
<1>5. k - 1 \in i .. j - 1 /\ k \in i + 1 .. j - 1 /\ ~(k <= k - 1)
  BY <1>2, <1>4
<1>6. c \in Awaiting(log)[k - 1]
  <2>1. k - 1 \notin T
    <3> HIDE DEF T
    <3> QED BY <1>1, <1>5
  <2> QED BY <1>5, <2>1
<1>7. log[k].entry.kind = "result" /\ log[k].entry.of = c
  BY <1>2, <1>3, <1>6 DEF OpenAfter
<1>8. log[k].entry = log[j].entry
  <2>1. log[k].entry \in Entries /\ log[j].entry \in Entries
    <3>1. log[k] \in Recs /\ log[j] \in Recs
      BY <1>2
    <3> QED BY <3>1 DEF Recs
  <2>2. /\ log[k].entry = [kind |-> log[k].entry.kind, of |-> log[k].entry.of]
        /\ log[j].entry = [kind |-> log[j].entry.kind, of |-> log[j].entry.of]
    BY <1>7, <2>1, RoundsAre
  <2> QED BY <1>7, <2>2
<1> QED BY <1>5, <1>8

\* Two records with no turn's start between them are of one turn.
LEMMA SameTurn ==
    ASSUME NEW log \in Seq(Recs), NEW i \in 1 .. Len(log), NEW j \in 1 .. Len(log), i < j,
           \A m \in i + 1 .. j : m \notin TurnStarts(log)
    PROVE  TurnOf(log, i) = TurnOf(log, j)
<1> DEFINE S == TurnStarts(log)
           First(k) == {s \in S : s <= k /\ \A t \in S : t <= k => t <= s}
<1>1. S \subseteq 1 .. Len(log) /\ Len(log) \in Nat
  BY DEF TurnStarts
<1>2. \A k : TurnOf(log, k) = CHOOSE s : s \in First(k)
  BY DEF TurnOf
<1>3. \A t \in S : t <= i <=> t <= j
  BY <1>1
<1>4. First(i) = First(j)
  BY <1>3
<1> HIDE DEF First
<1> QED BY <1>2, <1>4

\* Turn::group closes a turn when nothing is awaited, and RecentTurns keeps
\* turns: so a call and its answer are shown together, whatever the journal.
LEMMA RoundsShownWhole == OnDisk => ProjectionWhole
<1> SUFFICES ASSUME OnDisk, Readable(file) PROVE ProjectionWhole
  BY DEF ProjectionWhole
<1> DEFINE log == Records(file)
<1>1. log \in Seq(Recs) /\ DOMAIN log = 1 .. Len(log)
  BY RecordsAre DEF OnDisk
<1> SUFFICES ASSUME NEW i \in DOMAIN log, NEW j \in DOMAIN log, i < j,
                    log[i].entry.kind = "call", log[j].entry.kind = "result",
                    log[i].entry.of = log[j].entry.of,
                    \A m \in i + 1 .. j - 1 : log[m].entry # log[j].entry
             PROVE  i \in Projected(log) <=> j \in Projected(log)
  BY DEF ProjectionWhole
<1> HIDE DEF log
<1>2. \A m \in i .. j - 1 : log[j].entry.of \in Awaiting(log)[m]
  BY <1>1, OpenBetween
<1>3. \A m \in i + 1 .. j : m \notin TurnStarts(log)
  <2> SUFFICES ASSUME NEW m \in i + 1 .. j PROVE Awaiting(log)[m - 1] # {}
    BY DEF TurnStarts
  <2>1. m - 1 \in i .. j - 1
    BY <1>1
  <2> QED BY <1>2, <2>1
<1>4. TurnOf(log, i) = TurnOf(log, j)
  BY <1>1, <1>3, SameTurn
<1>5. i \in Spoken(log) /\ j \in Spoken(log)
  BY DEF Spoken
<1> QED BY <1>4, <1>5 DEF Projected

-----------------------------------------------------------------------------
(* Types.                                                                  *)

\* What the argument about positions and notes leaves out.
ScheduleTypes ==
    /\ up \in BOOLEAN
    /\ pending \in {"none", "asked", "heartbeat"}
    /\ idle_wakes \in 0 .. IdleAfter
    /\ busy \in BOOLEAN /\ due \in BOOLEAN /\ run \in BOOLEAN
    /\ crashes \in 0 .. MaxCrashes

\* Every position on file was handed out below the bound.
Positions ==
    /\ next \in Ids
    /\ \A i \in Good(file) : file[i].rec.id < MaxEntries
    /\ acked \subseteq [id : Ids, entry : Entries]
    /\ scratch \in NotesAre

LEMMA ScheduleTypesKept ==
    ASSUME ScheduleTypes, [Next]_vars
    PROVE  ScheduleTypes'
<1> USE DEF ScheduleTypes
<1> IdleAfter \in Nat /\ MaxCrashes \in Nat /\ 0 \in 0 .. IdleAfter
  BY ResidentAssumption
<1>1. CASE UNCHANGED vars
  BY <1>1 DEF vars, schedule
<1>2. CASE Open
  BY <1>2 DEF Open, Anew
<1>3. CASE Crash
  <2>1. crashes' \in 0 .. MaxCrashes
    BY <1>3 DEF Crash
  <2> QED BY <1>3, <2>1 DEF Crash, Anew
<1>4. CASE Tick
  BY <1>4 DEF Tick
<1>5. CASE PollBusy
  BY <1>5 DEF PollBusy, Idle
<1>6. CASE FinishEmpty
  BY <1>6 DEF FinishEmpty, Idle
<1>7. CASE Finish
  BY <1>7 DEF Finish, Idle, schedule
<1>8. ASSUME NEW e \in Mutations, Note(e) PROVE ScheduleTypes'
  BY <1>8 DEF Note, Idle, schedule
<1>9. CASE Receive
  BY <1>9 DEF Receive, Idle, schedule
<1>10. ASSUME NEW b, Begin(b) PROVE busy' \in BOOLEAN /\ run' \in BOOLEAN
  BY <1>10 DEF Begin
<1>11. CASE PollPending
  <2>1. busy' \in BOOLEAN /\ run' \in BOOLEAN
    BY <1>10, <1>11 DEF PollPending
  <2> QED BY <1>11, <2>1 DEF PollPending
<1>12. CASE PollHeartbeat
  <2>1. busy' \in BOOLEAN /\ run' \in BOOLEAN
    BY <1>10, <1>12 DEF PollHeartbeat
  <2>2. idle_wakes' \in 0 .. IdleAfter
    BY <1>12 DEF PollHeartbeat, Bored
  <2>3. due' = FALSE /\ UNCHANGED <<up, pending, crashes>>
    BY <1>12 DEF PollHeartbeat
  <2> QED BY <2>1, <2>2, <2>3
<1>13. CASE FinishAppend
  BY <1>13 DEF FinishAppend
<1> QED
  BY <1>1, <1>2, <1>3, <1>4, <1>5, <1>6, <1>7, <1>8, <1>9, <1>11, <1>12, <1>13 DEF Next

\* A write at a position below the bound, or one that leaves no record.
LEMMA WriteKeepsBound ==
    ASSUME OnDisk, Positions, NEW e \in Entries, NEW w \in Writes,
           file' = Write(file, RecordOf(e), w),
           next < MaxEntries \/ w \notin {"bare", "whole"}
    PROVE  \A i \in Good(file') : file'[i].rec.id < MaxEntries
<1> DEFINE n == Len(file)
           r == RecordOf(e)
<1>1. r \in Recs /\ r.id = next /\ file \in Seq(FileLines) /\ n \in Nat
  BY RecordType DEF OnDisk
<1> HIDE DEF r
<1>2. CASE w = "none"
  BY <1>2 DEF Write, Positions, r
<1>3. CASE w # "none" /\ ~Torn(file)
  <2>1. /\ Len(file') = n + 1
        /\ \A i \in 1 .. n : file'[i] = file[i]
        /\ file'[n + 1] = Line(r, w)
    BY <1>1, <1>3, WriteBehind DEF r
  <2> SUFFICES ASSUME NEW i \in Good(file') PROVE file'[i].rec.id < MaxEntries
    OBVIOUS
  <2>2. i \in 1 .. n + 1 /\ file'[i].is = "ok"
    BY <2>1 DEF Good
  <2>3. CASE i = n + 1
    <3>1. w \in {"bare", "whole"} /\ file'[i].rec = r
      BY <1>1, <1>3, <2>1, <2>2, <2>3, LineType
    <3> QED BY <1>1, <3>1
  <2>4. CASE i \in 1 .. n
    <3>1. i \in Good(file) /\ file'[i] = file[i]
      BY <2>1, <2>2, <2>4 DEF Good
    <3> QED BY <3>1 DEF Positions
  <2> QED BY <1>1, <2>2, <2>3, <2>4
<1>4. CASE w # "none" /\ Torn(file)
  <2>1. /\ Len(file') = n
        /\ \A i \in 1 .. n : i # n => file'[i] = file[i]
        /\ file'[n].is \in {"bad", "mangled"}
    BY <1>1, <1>4, WriteOnto DEF r
  <2>2. \A i \in Good(file') : i \in Good(file) /\ file'[i] = file[i]
    BY <2>1 DEF Good
  <2> QED BY <2>2 DEF Positions
<1> QED BY <1>2, <1>3, <1>4

LEMMA PositionsKept ==
    ASSUME FailsClean, OnDisk, Positions, [Next]_vars
    PROVE  Positions'
<1>1. NotesStep
  BY StepsOfNotes
<1>2. ASSUME NEW e \in Entries, Land(e), scratch' = Applied(scratch, e) PROVE Positions'
  <2>1. /\ next < MaxEntries /\ next' = next + 1 /\ file' = Write(file, RecordOf(e), "whole")
        /\ acked' = acked \cup {RecordOf(e)}
    BY <1>2 DEF Land, Landed
  <2>2. RecordOf(e) \in [id : Ids, entry : Entries]
    BY DEF RecordOf, Positions
  <2>3. next' \in Ids
    BY <2>1, ResidentAssumption DEF Positions, Ids
  <2>4. \A i \in Good(file') : file'[i].rec.id < MaxEntries
    BY <2>1, WriteKeepsBound DEF Writes
  <2>5. scratch' \in NotesAre
    BY <1>2, AppliedType DEF Positions
  <2> QED BY <2>1, <2>2, <2>3, <2>4, <2>5 DEF Positions
<1>3. ASSUME NEW e \in Entries, Fail(e), scratch' = scratch PROVE Positions'
  <2>1. PICK w \in Errors : file' = Write(file, RecordOf(e), w)
    BY <1>3 DEF Fail, Failed
  <2>2. w \in Writes /\ w \notin {"bare", "whole"} /\ next' = next /\ acked' = acked
    BY <1>3, ResidentAssumption DEF FailsClean, Fail, Failed
  <2>3. \A i \in Good(file') : file'[i].rec.id < MaxEntries
    BY <2>1, <2>2, WriteKeepsBound
  <2> QED BY <1>3, <2>2, <2>3 DEF Positions
<1>4. CASE Die /\ scratch' = EmptyScratch /\ next < MaxEntries
  <2>1. next' \in Ids /\ acked' = acked /\ scratch' \in NotesAre
    BY <1>4, EmptyType, ResidentAssumption DEF Die, Ids
  <2>2. \A i \in Good(file') : file'[i].rec.id < MaxEntries
    <3>1. CASE file' = file
      BY <3>1 DEF Positions
    <3>2. ASSUME NEW e \in Entries, NEW w \in Crashes, file' = Write(file, RecordOf(e), w)
          PROVE  \A i \in Good(file') : file'[i].rec.id < MaxEntries
      BY <1>4, <3>2, WriteKeepsBound, ResidentAssumption
    <3> QED BY <1>4, <3>1, <3>2 DEF Die
  <2> QED BY <2>1, <2>2 DEF Positions
<1>5. CASE Start /\ scratch' = Replayed(Records(file))
  <2> DEFINE log == Records(file)
             k == Len(Records(file))
  <2>1. /\ log \in Seq(Recs) /\ Good(file) = 1 .. k /\ k \in Nat
        /\ \A i \in Good(file) : log[i] = file[i].rec
    BY <1>5, RecordsAre DEF Start, OnDisk
  <2>2. next' \in Ids
    <3>1. CASE log = <<>>
      BY <1>5, <3>1, ResidentAssumption DEF Start, NextId, Ids
    <3>2. CASE log # <<>>
      <4>1. k \in Good(file) /\ next' = file[k].rec.id + 1
        BY <1>5, <2>1, <3>2 DEF Start, NextId, Last
      <4>2. file[k].rec.id \in Nat /\ file[k].rec.id < MaxEntries
        BY <4>1, GoodLines DEF Positions
      <4> QED BY <4>1, <4>2, ResidentAssumption DEF Ids
    <3> QED BY <3>1, <3>2
  <2>3. scratch' \in NotesAre
    <3> HIDE DEF k
    <3> QED BY <1>5, <2>1, ReplayType
  <2> QED BY <1>5, <2>2, <2>3 DEF Start, Positions
<1>6. CASE Quiet /\ scratch' = scratch
  BY <1>6 DEF Quiet, Positions
<1> QED BY <1>1, <1>2, <1>3, <1>4, <1>5, <1>6 DEF NotesStep

\* The whole invariant: notes, types and positions.
RebuiltInv == NotesInv /\ ScheduleTypes /\ Positions

LEMMA RebuiltStart == Init => RebuiltInv
<1> SUFFICES ASSUME Init PROVE RebuiltInv
  OBVIOUS
<1>1. ScheduleTypes
  <2>1. 0 \in 0 .. IdleAfter /\ 0 \in 0 .. MaxCrashes
    BY ResidentAssumption
  <2> QED BY <2>1 DEF Init, ScheduleTypes
<1>2. Positions
  BY EmptyType, ResidentAssumption DEF Init, Positions, Ids, Good
<1> QED BY <1>1, <1>2, NotesStart DEF RebuiltInv

LEMMA RebuiltKept ==
    ASSUME FailsClean
    PROVE  RebuiltInv /\ [Next]_vars => RebuiltInv'
BY NotesKept, ScheduleTypesKept, PositionsKept DEF RebuiltInv, NotesInv

LEMMA RebuiltRead == RebuiltInv => RebuiltWhole
<1> SUFFICES ASSUME RebuiltInv PROVE RebuiltWhole
  OBVIOUS
<1>1. TypeOK
  <2>1. \A i \in DOMAIN file : file[i].is \in {"ok", "bad", "mangled"} /\ file[i].nl \in BOOLEAN
    <3> SUFFICES ASSUME NEW i \in DOMAIN file
                 PROVE  file[i].is \in {"ok", "bad", "mangled"} /\ file[i].nl \in BOOLEAN
      OBVIOUS
    <3>1. file[i] \in FileLines
      BY DEF RebuiltInv, NotesInv, OnDisk
    <3> QED BY <3>1, FileLinesAre
  <2> QED
    BY <2>1 DEF RebuiltInv, NotesInv, OnDisk, ScheduleTypes, Positions, NotesAre, TypeOK
<1>2. ScratchIsReplay /\ ProjectionWhole
  BY RoundsShownWhole DEF RebuiltInv, NotesInv
<1> QED BY <1>1, <1>2 DEF RebuiltWhole

-----------------------------------------------------------------------------
(* The theorems.                                                           *)

\* JsonlJournal::open and append hand out increasing positions through any
\* crashes, and any failed append that did not write its whole line.
THEOREM PositionsGoUp ==
    ASSUME "whole" \notin Errors
    PROVE  Spec => []IdsIncrease
<1>1. Init => IdsInv
  BY IdsStart
<1>2. IdsInv /\ [Next]_vars => IdsInv'
  BY IdsKept
<1>3. IdsInv => IdsIncrease
  BY IdsRead
<1> QED BY <1>1, <1>2, <1>3, PTL DEF Spec

\* read_all gives back every record that was acknowledged, and in their order,
\* through crashes and failures that leave text, until one is appended to a
\* torn line.
THEOREM JournalIsKept ==
    ASSUME "whole" \notin Errors, "mangled" \notin Crashes \cup Errors
    PROVE  Spec => []JournalKept
<1>1. Init => AckInv
  BY AckStart
<1>2. AckInv /\ [Next]_vars => AckInv'
  BY AckKept
<1>3. AckInv => AckedReplayed
  BY AckRead
<1>4. Spec => []IdsIncrease
  BY PositionsGoUp
<1>5. AckedReplayed /\ IdsIncrease => JournalKept
  BY DEF JournalKept
<1> QED BY <1>1, <1>2, <1>3, <1>4, <1>5, PTL DEF Spec

\* WakeScheduler and Resident::poll never hand out a run beside another, and
\* what was asked for is given up only for a run or with its wake unwritten.
THEOREM WakesAreKept == Spec => WakesKept
<1>1. Scheduled /\ [Next]_vars => [Alone]_vars
  BY StepsOfScheduler
<1>2. Scheduled /\ [Next]_vars => [Asked]_vars
  BY StepsOfScheduler
<1>3. Spec => [][Alone]_vars
  BY <1>1, ScheduledStart, ScheduledKept, PTL DEF Spec
<1>4. Spec => [][Asked]_vars
  BY <1>2, ScheduledStart, ScheduledKept, PTL DEF Spec
<1> QED BY <1>3, <1>4 DEF WakesKept, NeverConcurrent, AskedIsKept, Alone, Asked

\* The notes in memory are those a restart would fold from the journal, through
\* any crashes and any failed append that leaves no record, until a record is
\* appended to a torn line; and a projection of any journal shows a call and
\* its answer together (resident.rs, scratch.rs, projection.rs).
THEOREM NotesAreRebuilt ==
    ASSUME FailsClean
    PROVE  Spec => []RebuiltWhole
<1>1. RebuiltInv /\ [Next]_vars => RebuiltInv'
  BY RebuiltKept
<1> QED BY <1>1, RebuiltStart, RebuiltRead, PTL DEF Spec
=============================================================================
