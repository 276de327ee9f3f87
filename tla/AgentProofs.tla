----------------------------- MODULE AgentProofs ----------------------------
(***************************************************************************)
(* Theorems about AgentLoop and the client of its server, for any calls,   *)
(* rounds, budgets and messages, and for a server that may also speak      *)
(* without end: a call is told only its own reply, the concurrency rule    *)
(* and the user's refusal hold, every round is recorded whole and every    *)
(* message of the user is heard.                                           *)
(***************************************************************************)
EXTENDS AgentLoop, WellFoundedInduction, FiniteSetTheorems, TLAPS

Frames == Ids \cup {Note, Garbled}
Lines == [id : Nat, body : Bodies \cup {"neither", "garbage"}]

McpTypes ==
    /\ line \subseteq Calls
    /\ next_id \in Nat \ {0}
    /\ req \in Nat
    /\ toServer \in Seq(Frames)
    /\ held \subseteq Ids
    /\ fromServer \in Seq(Lines)
    /\ answer \in [Ids -> Bodies \cup {"none"}]
    /\ asked \in [Calls -> Nat]
    /\ got \in [Calls -> Outcomes \cup {"none"}]

\* A request on its way to the server, or held by it, has not been answered, and
\* is there once; what stands in its stdout is what it answered.
Unanswered(i) == i \in Ids /\ i < next_id /\ answer[i] = "none"
Known ==
    /\ \A i \in Ids : i >= next_id => answer[i] = "none"
    /\ \A i \in held : Unanswered(i)
    /\ \A k \in DOMAIN toServer : toServer[k] \in Ids =>
         Unanswered(toServer[k]) /\ toServer[k] \notin held
    /\ \A k, l \in DOMAIN toServer : toServer[k] \in Ids /\ k # l => toServer[k] # toServer[l]
    /\ \A k \in DOMAIN fromServer : fromServer[k].body \in Bodies =>
         fromServer[k].id \in Ids /\ answer[fromServer[k].id] = fromServer[k].body

\* The request under way is that of the call that holds the lock, and who waits
\* was told nothing.
Pending ==
    /\ phase = "ready" /\ req # Nobody => line # {} /\ asked[Holder] = req
    /\ \A c \in line : got[c] = "none"

AnswersKnown == \A c \in Calls : got[c] \in Bodies => asked[c] \in Ids /\ answer[asked[c]] = got[c]

McpInv == McpTypes /\ Known /\ Pending /\ AnswersKnown

-----------------------------------------------------------------------------
LEMMA LeastNat == ASSUME NEW T \in SUBSET Nat, T # {} PROVE \E c \in T : \A d \in T : c <= d
<1> DEFINE R == OpToRel(<, Nat)
<1>1. IsWellFoundedOn(R, Nat)
  BY NatLessThanWellFounded
<1>2. PICK c \in T : \A d \in T : ~ (<<d, c>> \in R)
  <2> HIDE DEF R
  <2> QED BY <1>1, WFMin
<1>3. \A x, y \in Nat : y < x => <<y, x>> \in R
  BY DEF OpToRel
<1> HIDE DEF R
<1>4. \A d \in T : ~ (d < c)
  BY <1>2, <1>3
<1>5. \A d \in T : c <= d
  BY <1>4
<1> QED BY <1>5

LEMMA HolderWaits == ASSUME McpTypes, line # {} PROVE Holder \in line /\ Holder \in Calls
<1>1. line \in SUBSET Nat
  BY McpAssumption DEF McpTypes
<1>2. PICK c \in line : \A d \in line : c <= d
  BY <1>1, LeastNat
<1> QED BY <1>2 DEF Holder, McpTypes

LEMMA BodiesAre == "none" \notin Bodies /\ Bodies \cap Errors = {} /\ "neither" \notin Bodies /\ "garbage" \notin Bodies
BY DEF Bodies, Errors

\* What Returned does to the invariant, for an outcome that is no reply, or the
\* reply that stands for the request under way.
LEMMA ReturnedKeeps ==
    ASSUME McpInv, NEW out \in Outcomes, phase = "ready" => line # {}, Returned(out),
           phase = "ready" /\ out \in Bodies => asked[Holder] \in Ids /\ answer[asked[Holder]] = out,
           next_id' = next_id, toServer' \in Seq(Frames), UNCHANGED <<held, answer, asked>>
    PROVE  /\ line' \subseteq Calls /\ req' \in Nat /\ got' \in [Calls -> Outcomes \cup {"none"}]
           /\ Pending' /\ AnswersKnown'
<1>1. CASE phase = "ready"
  <2>1. Holder \in line /\ Holder \in Calls
    BY <1>1, HolderWaits DEF McpInv
  <2>2. /\ req' = Nobody /\ line' = line \ {Holder} /\ phase' = phase
        /\ got' = [got EXCEPT ![Holder] = out]
    BY <1>1 DEF Returned
  <2>3. got' \in [Calls -> Outcomes \cup {"none"}]
    BY <2>1, <2>2 DEF McpInv, McpTypes
  <2>4. \A c \in Calls : got'[c] = IF c = Holder THEN out ELSE got[c]
    BY <2>1, <2>2 DEF McpInv, McpTypes
  <2>5. Pending'
    BY <2>2, <2>4, <2>1 DEF Pending, McpInv, McpTypes
  <2>6. AnswersKnown'
    BY <1>1, <2>4 DEF AnswersKnown, McpInv
  <2> QED BY <2>2, <2>3, <2>5, <2>6 DEF McpInv, McpTypes, Nobody
<1>2. CASE phase # "ready"
  <2>1. req' = Nobody /\ UNCHANGED <<line, got>>
    BY <1>2 DEF Returned
  <2> QED BY <2>1 DEF McpInv, McpTypes, Pending, AnswersKnown, Nobody
<1> QED BY <1>1, <1>2

\* The lines a write leaves in the pipe are the old ones, or those and its own.
LEMMA WrittenKeeps ==
    ASSUME toServer \in Seq(Frames), NEW frame \in Frames, NEW how, Written(frame, how)
    PROVE  /\ toServer' \in Seq(Frames)
           /\ \/ toServer' = toServer
              \/ toServer' = Append(toServer, frame)
              \/ toServer' = Append(toServer, Garbled)
BY DEF Written, Frames

\* A known pipe stays known when a frame joins that is no request, or a new one.
LEMMA AppendKnown ==
    ASSUME McpTypes, Known, NEW frame \in Frames, frame \in Ids => frame < next_id',
           \/ toServer' = toServer
           \/ toServer' = Append(toServer, frame)
           \/ toServer' = Append(toServer, Garbled),
           frame \in Ids => frame >= next_id,
           next_id' \in Nat, next_id' >= next_id, UNCHANGED serverVars
    PROVE  Known'
<1>1. Garbled \notin Ids
  BY McpAssumption DEF Ids, Garbled
<1>2. /\ UNCHANGED <<held, answer, fromServer>>
      /\ \A i : Unanswered(i) => Unanswered(i)'
  <2>1. \A i \in Ids : i < next_id => i < next_id'
    BY McpAssumption DEF McpTypes, Ids
  <2> QED BY <2>1 DEF serverVars, Unanswered
<1>3. \A i \in Ids : Unanswered(i) => i # frame
  BY McpAssumption DEF Unanswered, McpTypes, Ids, Frames
<1>4. frame \in Ids => frame \notin held
  BY <1>3 DEF Known
<1>8. \A i \in Ids : i >= next_id' => answer'[i] = "none"
  <2>1. \A i \in Ids : i >= next_id => answer[i] = "none"
    BY DEF Known
  <2>2. \A i \in Ids : i >= next_id' => i >= next_id
    BY McpAssumption DEF McpTypes, Ids
  <2> QED BY <1>2, <2>1, <2>2
<1>5. CASE toServer' = toServer
  BY <1>2, <1>5, <1>8 DEF Known
<1>6. ASSUME NEW f \in Frames, toServer' = Append(toServer, f), f = frame \/ f = Garbled
      PROVE  Known'
  <2>1. /\ DOMAIN toServer' = 1 .. Len(toServer) + 1
        /\ DOMAIN toServer = 1 .. Len(toServer)
        /\ \A k \in DOMAIN toServer' : toServer'[k] = IF k \in DOMAIN toServer THEN toServer[k] ELSE f
    BY <1>6 DEF McpTypes
  <2>2. \A k \in DOMAIN toServer' : toServer'[k] \in Ids =>
          /\ toServer'[k] < next_id' /\ answer'[toServer'[k]] = "none"
          /\ toServer'[k] \notin held
    <3>1. \A k \in DOMAIN toServer : toServer[k] \in Ids =>
            /\ toServer[k] < next_id' /\ answer'[toServer[k]] = "none"
            /\ toServer[k] \notin held
      BY <1>2 DEF Known, Unanswered
    <3>2. f \in Ids => f < next_id' /\ answer'[f] = "none" /\ f \notin held
      BY <1>1, <1>2, <1>4, <1>6 DEF Known
    <3> QED BY <2>1, <3>1, <3>2
  <2>3. \A k, l \in DOMAIN toServer' : toServer'[k] \in Ids /\ k # l => toServer'[k] # toServer'[l]
    <3> SUFFICES ASSUME NEW k \in DOMAIN toServer', NEW l \in DOMAIN toServer', toServer'[k] \in Ids, k # l
                 PROVE  toServer'[k] # toServer'[l]
      OBVIOUS
    <3>1. CASE k \in DOMAIN toServer /\ l \in DOMAIN toServer
      BY <2>1, <3>1 DEF Known
    <3>2. CASE k \in DOMAIN toServer /\ l \notin DOMAIN toServer
      BY <1>1, <1>3, <1>6, <2>1, <3>2 DEF Known
    <3>3. CASE k \notin DOMAIN toServer /\ l \in DOMAIN toServer
      <4>1. toServer'[k] = frame /\ toServer'[l] = toServer[l] /\ frame \in Ids
        BY <1>1, <1>6, <2>1, <3>3
      <4> QED BY <1>3, <3>3, <4>1 DEF Known
    <3>4. k \in DOMAIN toServer \/ l \in DOMAIN toServer
      BY <2>1 DEF McpTypes
    <3> QED BY <3>1, <3>2, <3>3, <3>4
  <2>5. \A k \in DOMAIN fromServer' : fromServer'[k].body \in Bodies =>
          fromServer'[k].id \in Ids /\ answer'[fromServer'[k].id] = fromServer'[k].body
    BY <1>2 DEF Known
  <2> QED BY <1>2, <1>8, <2>2, <2>3, <2>5 DEF Known, Unanswered
<1>7. Garbled \in Frames
  BY DEF Frames
<1> QED BY <1>5, <1>6, <1>7

-----------------------------------------------------------------------------
(* The client.                                                             *)

LEMMA RequestKeeps == ASSUME McpInv, Request PROVE McpInv'
<1> DEFINE new == IF phase = "ready" THEN [asked EXCEPT ![Holder] = next_id] ELSE asked
<1>1. /\ next_id \in Ids /\ next_id \in Nat \ {0} /\ next_id \in Frames
      /\ next_id' = next_id + 1 /\ asked' = new /\ UNCHANGED serverVars
      /\ phase = "ready" => line # {}
  BY McpAssumption DEF Request, Requesting, McpInv, McpTypes, Ids, Frames
<1>2. PICK how \in {"whole", "Timeout", "Io"} :
        /\ Written(next_id, how)
        /\ IF how = "whole" THEN req' = next_id /\ UNCHANGED <<phase, line, got>> ELSE Returned(how)
  BY DEF Request
<1>3. /\ toServer' \in Seq(Frames)
      /\ \/ toServer' = toServer
         \/ toServer' = Append(toServer, next_id)
         \/ toServer' = Append(toServer, Garbled)
  BY <1>1, <1>2, WrittenKeeps DEF McpInv, McpTypes
<1>4. Known'
  <2>1. next_id < next_id' /\ next_id' \in Nat /\ next_id' >= next_id /\ next_id >= next_id
    BY <1>1
  <2> QED BY <1>1, <1>3, <2>1, AppendKnown DEF McpInv
<1>5. phase = "ready" => Holder \in line /\ Holder \in Calls
  BY <1>1, HolderWaits DEF McpInv
<1>6. asked' \in [Calls -> Nat] /\ \A c \in Calls : c \in line \/ asked'[c] = asked[c]
  BY <1>1, <1>5 DEF McpInv, McpTypes
<1>7. UNCHANGED <<held, fromServer, answer>>
  BY <1>1 DEF serverVars
<1>8. CASE how = "whole"
  <2>1. req' = next_id /\ UNCHANGED <<phase, line, got>>
    BY <1>2, <1>8
  <2>2. McpTypes'
    BY <1>1, <1>3, <1>6, <1>7, <2>1 DEF McpInv, McpTypes
  <2>3. Pending'
    <3>1. Holder' = Holder
      BY <2>1 DEF Holder
    <3>2. phase = "ready" => asked'[Holder] = next_id
      BY <1>1, <1>5 DEF McpInv, McpTypes
    <3> QED BY <1>1, <2>1, <3>1, <3>2 DEF Pending, McpInv
  <2>4. AnswersKnown'
    BY <1>6, <1>7, <2>1, BodiesAre DEF AnswersKnown, McpInv, Pending
  <2> QED BY <1>4, <2>2, <2>3, <2>4 DEF McpInv
<1>9. CASE how # "whole"
  <2>1. how \in Errors /\ how \in Outcomes /\ Returned(how)
    BY <1>2, <1>9 DEF Errors, Outcomes
  <2>2. CASE phase = "ready"
    <3>1. /\ req' = Nobody /\ line' = line \ {Holder} /\ phase' = phase
          /\ got' = [got EXCEPT ![Holder] = how]
      BY <2>1, <2>2 DEF Returned
    <3>2. got' \in [Calls -> Outcomes \cup {"none"}]
          /\ \A c \in Calls : got'[c] = IF c = Holder THEN how ELSE got[c]
      BY <1>5, <2>1, <2>2, <3>1 DEF McpInv, McpTypes
    <3>3. McpTypes'
      BY <1>1, <1>3, <1>6, <1>7, <3>1, <3>2 DEF McpInv, McpTypes, Nobody
    <3>4. Pending'
      BY <3>1, <3>2 DEF Pending, McpInv, McpTypes
    <3>5. AnswersKnown'
      BY <1>6, <1>7, <2>1, <3>2, BodiesAre DEF AnswersKnown, McpInv, Pending
    <3> QED BY <1>4, <3>3, <3>4, <3>5 DEF McpInv
  <2>3. CASE phase # "ready"
    <3>1. req' = Nobody /\ UNCHANGED <<line, got>> /\ asked' = asked
      BY <1>1, <2>1, <2>3 DEF Returned
    <3>2. McpTypes'
      BY <1>1, <1>3, <1>6, <1>7, <3>1 DEF McpInv, McpTypes, Nobody
    <3>3. Pending' /\ AnswersKnown'
      BY <1>7, <3>1 DEF Pending, AnswersKnown, McpInv
    <3> QED BY <1>4, <3>2, <3>3 DEF McpInv
  <2> QED BY <2>2, <2>3
<1> QED BY <1>8, <1>9

LEMMA NotifyKeeps == ASSUME McpInv, Notify PROVE McpInv'
<1>1. PICK how \in {"whole", "Timeout", "Io"} : Written(Note, how)
  BY DEF Notify
<1>2. /\ phase' = "list" /\ phase = "notify"
      /\ UNCHANGED <<line, next_id, req, serverVars, asked, got>>
  BY DEF Notify
<1>3. Note \in Frames /\ Note \notin Ids
  BY McpAssumption DEF Frames, Ids, Note, Nobody
<1>4. /\ toServer' \in Seq(Frames)
      /\ \/ toServer' = toServer
         \/ toServer' = Append(toServer, Note)
         \/ toServer' = Append(toServer, Garbled)
  BY <1>1, <1>3, WrittenKeeps DEF McpInv, McpTypes
<1>5. Known'
  <2>1. next_id' \in Nat /\ next_id' >= next_id
    BY <1>2 DEF McpInv, McpTypes
  <2> QED BY <1>2, <1>3, <1>4, <2>1, AppendKnown DEF McpInv
<1> QED BY <1>2, <1>4, <1>5 DEF McpInv, McpTypes, Pending, AnswersKnown, serverVars

\* A line leaves the pipe: the rest of it is known as before.
LEMMA TailKnown ==
    ASSUME McpTypes, Known, fromServer # <<>>, fromServer' = Tail(fromServer),
           UNCHANGED <<next_id, toServer, held, answer>>
    PROVE  fromServer' \in Seq(Lines) /\ Known'
<1>1. /\ fromServer' \in Seq(Lines)
      /\ \A k \in DOMAIN fromServer' : k + 1 \in DOMAIN fromServer /\ fromServer'[k] = fromServer[k + 1]
  BY DEF McpTypes
<1>2. \A k \in DOMAIN fromServer' : fromServer'[k].body \in Bodies =>
        fromServer'[k].id \in Ids /\ answer'[fromServer'[k].id] = fromServer'[k].body
  BY <1>1 DEF Known
<1> QED BY <1>1, <1>2 DEF Known, Unanswered

LEMMA ReadLineKeeps == ASSUME McpInv, ReadLine PROVE McpInv'
<1> DEFINE l == Head(fromServer)
<1>1. /\ req # Nobody /\ fromServer # <<>> /\ fromServer' = Tail(fromServer)
      /\ UNCHANGED <<next_id, toServer, held, answer, asked>>
      /\ IF l.body = "garbage" THEN Returned("Protocol")
         ELSE IF ~Matches(l) THEN UNCHANGED <<phase, line, req, got>>
         ELSE Returned(IF l.body = "neither" THEN "Protocol" ELSE l.body)
  BY DEF ReadLine
<1>2. fromServer' \in Seq(Lines) /\ Known'
  BY <1>1, TailKnown DEF McpInv
<1>3. /\ l \in Lines
      /\ l.body \in Bodies => l.id \in Ids /\ answer[l.id] = l.body
  <2>1. 1 \in DOMAIN fromServer /\ l = fromServer[1]
    BY <1>1 DEF McpInv, McpTypes
  <2> QED BY <2>1 DEF McpInv, McpTypes, Known
<1>4. CASE l.body # "garbage" /\ ~Matches(l)
  <2>1. UNCHANGED <<phase, line, req, got>>
    BY <1>1, <1>4
  <2>2. Holder' = Holder
    BY <2>1 DEF Holder
  <2> QED BY <1>1, <1>2, <2>1, <2>2 DEF McpInv, McpTypes, Pending, AnswersKnown
<1>5. ASSUME NEW out \in Outcomes, Returned(out),
             out \in Bodies => l.id = req /\ l.id \in Ids /\ answer[l.id] = out
      PROVE  McpInv'
  <2>1. phase = "ready" => line # {} /\ asked[Holder] = req
    BY <1>1 DEF McpInv, Pending
  <2>2. phase = "ready" /\ out \in Bodies => asked[Holder] \in Ids /\ answer[asked[Holder]] = out
    BY <1>5, <2>1
  <2>3. /\ line' \subseteq Calls /\ req' \in Nat /\ got' \in [Calls -> Outcomes \cup {"none"}]
        /\ Pending' /\ AnswersKnown'
    <3>1. toServer' \in Seq(Frames)
      BY <1>1 DEF McpInv, McpTypes
    <3> QED BY <1>1, <1>5, <2>1, <2>2, <3>1, ReturnedKeeps
  <2> QED BY <1>1, <1>2, <2>3 DEF McpInv, McpTypes
<1>6. CASE l.body = "garbage"
  <2>1. "Protocol" \in Outcomes /\ "Protocol" \notin Bodies
    BY DEF Outcomes, Errors, Bodies
  <2> QED BY <1>1, <1>5, <1>6, <2>1
<1>7. CASE l.body # "garbage" /\ Matches(l)
  <2>1. "Protocol" \in Outcomes /\ "Protocol" \notin Bodies /\ \A b \in Bodies : b \in Outcomes
    BY DEF Outcomes, Errors, Bodies
  <2>2. CASE l.body = "neither"
    BY <1>1, <1>5, <1>7, <2>1, <2>2
  <2>3. CASE l.body # "neither"
    <3>1. l.body \in Bodies
      BY <1>3, <1>7, <2>3 DEF Lines
    <3>2. l.id = req /\ Returned(l.body)
      BY <1>1, <1>7, <2>3 DEF Matches
    <3> QED BY <1>3, <1>5, <2>1, <3>1, <3>2
  <2> QED BY <2>2, <2>3
<1> QED BY <1>4, <1>6, <1>7

LEMMA ReadEndsKeeps == ASSUME McpInv, ReadEnds PROVE McpInv'
<1>1. PICK out \in {"Timeout", "ServerClosed"} : Returned(out)
  BY DEF ReadEnds
<1>2. req # Nobody /\ UNCHANGED <<next_id, toServer, held, fromServer, answer, asked>>
  BY DEF ReadEnds, serverVars
<1>3. out \in Outcomes /\ out \notin Bodies
  BY <1>1 DEF Outcomes, Errors, Bodies
<1>4. /\ line' \subseteq Calls /\ req' \in Nat /\ got' \in [Calls -> Outcomes \cup {"none"}]
      /\ Pending' /\ AnswersKnown'
  <2>1. phase = "ready" => line # {}
    BY <1>2 DEF McpInv, Pending
  <2>2. toServer' \in Seq(Frames)
    BY <1>2 DEF McpInv, McpTypes
  <2> QED BY <1>1, <1>2, <1>3, <2>1, <2>2, ReturnedKeeps
<1>5. Known'
  BY <1>2 DEF McpInv, Known, Unanswered
<1> QED BY <1>2, <1>4, <1>5 DEF McpInv, McpTypes

-----------------------------------------------------------------------------
(* The server.                                                             *)

LEMMA TakeKeeps == ASSUME McpInv, Take PROVE McpInv'
<1> DEFINE f == Head(toServer)
<1>1. /\ toServer # <<>> /\ toServer' = Tail(toServer)
      /\ held' = IF f \in {Note, Garbled} THEN held ELSE held \cup {f}
      /\ UNCHANGED <<phase, line, next_id, req, torn, fromServer, answer, asked, got>>
  BY DEF Take
<1>2. /\ toServer' \in Seq(Frames) /\ f \in Frames
      /\ 1 \in DOMAIN toServer /\ f = toServer[1]
      /\ \A k \in DOMAIN toServer' : k + 1 \in DOMAIN toServer /\ toServer'[k] = toServer[k + 1] /\ k \in Nat
  BY <1>1 DEF McpInv, McpTypes
<1>3. f \notin {Note, Garbled} => f \in Ids /\ Unanswered(f) /\ \A k \in DOMAIN toServer' : toServer'[k] # f
  <2>1. f \notin {Note, Garbled} => f \in Ids
    BY <1>2 DEF Frames
  <2>2. \A k \in DOMAIN toServer' : k + 1 # 1
    BY <1>2 DEF McpInv, McpTypes
  <2> QED BY <1>2, <2>1, <2>2 DEF McpInv, Known
<1>4. held' \subseteq Ids /\ \A i \in held' : Unanswered(i)
  BY <1>1, <1>3 DEF McpInv, McpTypes, Known
<1>5. \A k \in DOMAIN toServer' : toServer'[k] \in Ids =>
        Unanswered(toServer'[k]) /\ toServer'[k] \notin held'
  BY <1>1, <1>2, <1>3 DEF McpInv, Known
<1>6. \A k, l \in DOMAIN toServer' : toServer'[k] \in Ids /\ k # l => toServer'[k] # toServer'[l]
  <2>1. \A k, l \in DOMAIN toServer' : k # l => k + 1 # l + 1
    BY <1>2
  <2> QED BY <1>2, <2>1 DEF McpInv, Known
<1>7. Known'
  BY <1>1, <1>4, <1>5, <1>6 DEF McpInv, Known, Unanswered
<1>8. Holder' = Holder
  BY <1>1 DEF Holder
<1> QED BY <1>1, <1>2, <1>4, <1>7, <1>8 DEF McpInv, McpTypes, Pending, AnswersKnown

LEMMA AnswerKeeps ==
    ASSUME McpInv, NEW i \in held, NEW body \in Bodies, Answer(i, body)
    PROVE  McpInv'
<1> DEFINE l == [id |-> i, body |-> body]
<1>1. /\ held' = held \ {i} /\ answer' = [answer EXCEPT ![i] = body]
      /\ fromServer' = Append(fromServer, l)
      /\ UNCHANGED <<phase, line, next_id, req, toServer, asked, got>>
  BY DEF Answer
<1>2. i \in Ids /\ i < next_id /\ answer[i] = "none"
  BY DEF McpInv, Known, Unanswered
<1>3. /\ answer' \in [Ids -> Bodies \cup {"none"}]
      /\ \A j \in Ids : answer'[j] = IF j = i THEN body ELSE answer[j]
  BY <1>1, <1>2 DEF McpInv, McpTypes
<1>4. l \in Lines
  BY <1>2, McpAssumption DEF Lines, Ids
<1>5. /\ fromServer' \in Seq(Lines)
      /\ \A k \in DOMAIN fromServer' :
           (k \in DOMAIN fromServer /\ fromServer'[k] = fromServer[k]) \/ fromServer'[k] = l
  BY <1>1, <1>4 DEF McpInv, McpTypes
<1>6. \A k \in DOMAIN fromServer' : fromServer'[k].body \in Bodies =>
        fromServer'[k].id \in Ids /\ answer'[fromServer'[k].id] = fromServer'[k].body
  BY <1>2, <1>3, <1>5, BodiesAre DEF McpInv, Known
<1>7. \A j \in Ids : j >= next_id => answer'[j] = "none"
  <2>1. \A j \in Ids : j >= next_id => j # i
    BY <1>2, McpAssumption DEF McpInv, McpTypes, Ids
  <2> QED BY <1>3, <2>1 DEF McpInv, Known
<1>8. \A j \in Ids : j # i /\ Unanswered(j) => j < next_id /\ answer'[j] = "none"
  BY <1>3 DEF Unanswered
<1>9. Known'
  BY <1>1, <1>6, <1>7, <1>8 DEF McpInv, Known, Unanswered
<1>10. AnswersKnown'
  BY <1>1, <1>2, <1>3, BodiesAre DEF McpInv, AnswersKnown
<1>11. Holder' = Holder
  BY <1>1 DEF Holder
<1> QED BY <1>1, <1>3, <1>5, <1>9, <1>10, <1>11 DEF McpInv, McpTypes, Pending

LEMMA UnaskedKeeps == ASSUME McpInv, Unasked PROVE McpInv'
<1>1. PICK l \in [id : {Nobody}, body : {"neither", "garbage"}] \cup [id : {next_id - 1}, body : {"neither"}] :
        fromServer' = Append(fromServer, l)
  BY DEF Unasked
<1>2. UNCHANGED <<phase, line, next_id, req, toServer, held, answer, asked, got>>
  BY DEF Unasked
<1>3. l \in Lines /\ l.body \notin Bodies
  <2>1. next_id - 1 \in Nat /\ Nobody \in Nat
    BY DEF McpInv, McpTypes, Nobody
  <2> QED BY <1>1, <2>1, BodiesAre DEF Lines
<1>4. /\ fromServer' \in Seq(Lines)
      /\ \A k \in DOMAIN fromServer' :
           (k \in DOMAIN fromServer /\ fromServer'[k] = fromServer[k]) \/ fromServer'[k] = l
  BY <1>1, <1>3 DEF McpInv, McpTypes
<1>5. Known'
  BY <1>2, <1>3, <1>4 DEF McpInv, Known, Unanswered
<1>6. Holder' = Holder
  BY <1>2 DEF Holder
<1> QED BY <1>2, <1>4, <1>5, <1>6 DEF McpInv, McpTypes, Pending, AnswersKnown

LEMMA ExitKeeps == ASSUME McpInv, Exit PROVE McpInv'
<1>1. held' = {} /\ UNCHANGED <<phase, line, next_id, req, toServer, fromServer, answer, asked, got>>
  BY DEF Exit
<1>2. Holder' = Holder
  BY <1>1 DEF Holder
<1> QED BY <1>1, <1>2 DEF McpInv, McpTypes, Known, Unanswered, Pending, AnswersKnown

LEMMA McpStepKeeps == ASSUME McpInv, ClientStep \/ ServerStep PROVE McpInv'
<1>1. CASE ClientStep
  BY <1>1, RequestKeeps, NotifyKeeps, ReadLineKeeps, ReadEndsKeeps DEF ClientStep
<1>2. CASE ServerStep
  BY <1>2, TakeKeeps, AnswerKeeps, UnaskedKeeps, ExitKeeps DEF ServerStep
<1> QED BY <1>1, <1>2

LEMMA McpStutter == ASSUME McpInv, UNCHANGED mcpVars PROVE McpInv'
<1>1. UNCHANGED <<phase, line, next_id, req, toServer, held, fromServer, answer, asked, got>>
  BY DEF mcpVars, serverVars
<1>2. Holder' = Holder
  BY <1>1 DEF Holder
<1> QED BY <1>1, <1>2 DEF McpInv, McpTypes, Known, Unanswered, Pending, AnswersKnown

LEMMA JoinKeeps ==
    ASSUME McpInv, line = {}, phase = "ready", NEW cs \in SUBSET Calls, Join(cs), UNCHANGED pipeVars
    PROVE  McpInv'
<1>1. /\ line' = cs /\ asked' = [c \in Calls |-> Nobody] /\ got' = [c \in Calls |-> "none"]
      /\ UNCHANGED <<phase, next_id, req, toServer, held, fromServer, answer>>
  BY DEF Join, pipeVars, serverVars
<1>2. req = Nobody
  BY DEF McpInv, Pending
<1> QED BY <1>1, <1>2, BodiesAre DEF McpInv, McpTypes, Known, Unanswered, Pending, AnswersKnown, Nobody

LEMMA DropKeeps ==
    ASSUME McpInv, line' = {}, req' = Nobody,
           UNCHANGED <<phase, next_id, toServer, torn, serverVars, asked, got>>
    PROVE  McpInv'
BY DEF McpInv, McpTypes, Known, Unanswered, Pending, AnswersKnown, serverVars, Nobody

-----------------------------------------------------------------------------
(* The loop.                                                               *)

LoopTypes ==
    /\ pc \in {"boundary", "generating", "calls", "batch", "running", "solo", "record", "shaping", "ended"}
    /\ next \in Nat \ {0}
    /\ calls \in Seq(Tools) /\ Len(calls) <= MaxCalls
    /\ batch \subseteq Calls /\ running \subseteq batch
    /\ outcome \in [Calls -> {"none", "told", "fatal", "denied"}]
    /\ refused \in BOOLEAN

\* Every call before the loop's index has its outcome, or waits or runs in the
\* batch; and the batch is of calls that may run beside others, or one alone.
Settled(i) == outcome[i] # "none"
Scheduled ==
    /\ pc # "running" => running = {}
    /\ \A i \in batch : i < next
    /\ pc \in {"boundary", "generating"} => next = 1 /\ batch = {}
    /\ pc \in {"calls", "batch"} => /\ \A i \in batch : ParallelSafe(calls[i])
                                   /\ \A j \in Calls : j < next => j \in batch \/ Settled(j)
    /\ pc = "running" => /\ \A j \in Calls : j < next => j \in running \/ Settled(j)
                         /\ \/ \A i \in batch : ParallelSafe(calls[i])
                            \/ \E i \in Calls : batch = {i} /\ \A j \in Calls : j < i => Settled(j)
    /\ pc = "solo" => batch = {} /\ \A j \in Calls : j < next => Settled(j)
    /\ pc = "solo" \/ (pc \in {"batch", "running"} /\ then = "solo") => next \in Calls
    /\ then \in {"record", "solo", "calls"}

\* What is gated runs when the user said so; a refusal stands among the outcomes
\* of the round until the run ends.
Permitted == \A i \in running : Asks /\ Risky(calls[i]) => i \in allowed
Standing ==
    refused => /\ pc \notin {"boundary", "generating", "shaping"}
               /\ pc # "ended" => \E i \in Calls : outcome[i] = "denied" /\ i \notin batch /\ i < next

\* Only a call that runs waits for the client, and only a run that has begun runs.
Link ==
    /\ pc # "boundary" => phase = "ready"
    /\ line \subseteq running
    /\ \A i \in line : calls[i] = "mcp"

LoopInv == LoopTypes /\ Scheduled /\ Permitted /\ Standing /\ Link
Inv == McpInv /\ LoopInv

LEMMA CallsAre == Calls = 1 .. MaxCalls /\ MaxCalls \in Nat
BY AgentAssumption

LEMMA InitInv == Init => Inv
<1> SUFFICES ASSUME Init PROVE Inv
  OBVIOUS
<1>1. McpInit
  BY DEF Init
<1>2. McpTypes
  BY <1>1 DEF McpInit, McpTypes, Nobody
<1>3. Known /\ Pending /\ AnswersKnown
  BY <1>1, BodiesAre DEF McpInit, Known, Unanswered, Pending, AnswersKnown, Nobody
<1>4. phase # "ready" /\ line = {}
  BY <1>1 DEF McpInit
<1>5. LoopTypes
  <2>1. calls \in Seq(Tools) /\ Len(calls) <= MaxCalls
    BY CallsAre DEF Init
  <2>2. outcome \in [Calls -> {"none", "told", "fatal", "denied"}]
    BY DEF Init
  <2>3. next \in Nat \ {0} /\ batch \subseteq Calls /\ running \subseteq batch
    BY DEF Init
  <2>4. pc = "boundary" /\ refused \in BOOLEAN
    BY DEF Init
  <2> QED BY <2>1, <2>2, <2>3, <2>4 DEF LoopTypes
<1>6. Scheduled /\ Permitted /\ Standing /\ Link
  BY <1>4, CallsAre DEF Init, Scheduled, Permitted, Standing, Link
<1> QED BY <1>2, <1>3, <1>5, <1>6 DEF Inv, McpInv, LoopInv

LEMMA InvImplies == Inv => RepliesAreOwn /\ GateHolds
<1> SUFFICES ASSUME Inv PROVE RepliesAreOwn /\ GateHolds
  OBVIOUS
<1>1. RepliesAreOwn
  BY DEF Inv, McpInv, AnswersKnown, RepliesAreOwn
<1>2. ASSUME NEW i \in running, ~ParallelSafe(calls[i])
      PROVE  running = {i} /\ \A j \in Calls : j < i => outcome[j] # "none"
  <2>1. pc = "running" /\ i \in batch
    BY <1>2 DEF Inv, LoopInv, Scheduled, LoopTypes
  <2>2. PICK b \in Calls : batch = {b} /\ \A j \in Calls : j < b => Settled(j)
    BY <1>2, <2>1 DEF Inv, LoopInv, Scheduled
  <2> QED BY <1>2, <2>1, <2>2 DEF Inv, LoopInv, LoopTypes, Settled
<1>3. refused => pc \notin {"boundary", "generating", "shaping"}
  BY DEF Inv, LoopInv, Standing
<1> QED BY <1>1, <1>2, <1>3 DEF GateHolds, Inv, LoopInv, Permitted

\* Steps that leave the round alone: only where the loop stands changes.
LEMMA ElsewhereKeeps ==
    ASSUME Inv, UNCHANGED <<roundVars, memory, mcpVars>>,
           \/ pc' = pc
           \/ pc' = "ended" /\ pc # "running" /\ (pc = "boundary" => phase = "ready")
           \/ pc = "boundary" /\ phase = "ready" /\ pc' = "generating"
           \/ pc = "generating" /\ pc' \in {"boundary", "shaping"}
    PROVE  Inv'
<1>1. McpInv'
  BY McpStutter DEF Inv
<1>2. /\ UNCHANGED <<calls, next, batch, then, running, outcome, allowed, refused, phase, line>>
  BY DEF roundVars, memory, mcpVars
<1>3. pc # "running" \/ pc' = pc
  OBVIOUS
<1>4. LoopTypes'
  BY <1>2 DEF Inv, LoopInv, LoopTypes
<1>5. Scheduled' /\ Permitted'
  BY <1>2, <1>3 DEF Inv, LoopInv, Scheduled, Settled, Permitted
<1>6. Standing' /\ Link'
  BY <1>2 DEF Inv, LoopInv, Standing, Link
<1> QED BY <1>1, <1>4, <1>5, <1>6 DEF Inv, LoopInv

LEMMA PushKeeps == ASSUME Inv, NEW b \in BOOLEAN, Push(b) PROVE Inv'
BY ElsewhereKeeps DEF Push

LEMMA TurnsKeep == ASSUME Inv, Boundary \/ TurnIsLost \/ TurnAnswers \/ Shaped PROVE Inv'
<1>1. CASE Boundary
  BY <1>1, ElsewhereKeeps DEF Boundary, Ended
<1>2. CASE TurnIsLost
  BY <1>2, ElsewhereKeeps DEF TurnIsLost, Ended
<1>3. CASE TurnAnswers
  BY <1>3, ElsewhereKeeps DEF TurnAnswers, Ended
<1>4. CASE Shaped
  BY <1>4, ElsewhereKeeps DEF Shaped, Ended
<1> QED BY <1>1, <1>2, <1>3, <1>4

LEMMA TurnCallsKeeps == ASSUME Inv, NEW tools \in Rounds, TurnCalls(tools) PROVE Inv'
<1>1. /\ pc = "generating" /\ pc' = "calls" /\ calls' = tools
      /\ UNCHANGED <<next, batch, then, running, outcome, allowed, refused, mcpVars>>
  BY DEF TurnCalls, memory
<1>2. PICK n \in 1 .. MaxCalls : tools \in [1 .. n -> Tools]
  BY AgentAssumption
<1>3. tools \in Seq(Tools) /\ Len(tools) <= MaxCalls
  BY <1>2, CallsAre
<1>4. McpInv' /\ UNCHANGED <<phase, line>>
  BY <1>1, McpStutter DEF Inv, mcpVars
<1>5. next = 1 /\ batch = {} /\ running = {} /\ line = {} /\ phase = "ready" /\ ~refused
  BY <1>1 DEF Inv, LoopInv, LoopTypes, Scheduled, Standing, Link
<1>6. \A j \in Calls : ~ (j < 1)
  BY CallsAre
<1>7. LoopTypes'
  BY <1>1, <1>3 DEF Inv, LoopInv, LoopTypes
<1>8. Scheduled'
  BY <1>1, <1>5, <1>6 DEF Inv, LoopInv, Scheduled
<1>9. Permitted' /\ Standing' /\ Link'
  BY <1>1, <1>4, <1>5 DEF Permitted, Standing, Link
<1> QED BY <1>4, <1>7, <1>8, <1>9 DEF Inv, LoopInv

LEMMA ConsiderKeeps == ASSUME Inv, Consider PROVE Inv'
<1>1. /\ pc = "calls"
      /\ UNCHANGED <<calls, running, outcome, allowed, refused, mcpVars>>
  BY DEF Consider
<1>2. McpInv' /\ UNCHANGED <<phase, line>>
  BY <1>1, McpStutter DEF Inv, mcpVars
<1>3. /\ running = {} /\ line = {} /\ phase = "ready"
      /\ \A i \in batch : ParallelSafe(calls[i])
      /\ \A j \in Calls : j < next => j \in batch \/ Settled(j)
  BY <1>1 DEF Inv, LoopInv, Scheduled, Link
<1>4. Link' /\ Permitted'
  BY <1>1, <1>2, <1>3 DEF Link, Permitted
<1>5. \A j \in Calls : Settled(j) <=> Settled(j)'
  BY <1>1 DEF Settled
<1>6. CASE next > Len(calls) \/ InterruptPending
  <2>1. pc' = "batch" /\ then' = "record" /\ UNCHANGED <<next, batch>>
    BY <1>6 DEF Consider
  <2>2. LoopTypes' /\ Standing'
    BY <1>1, <2>1 DEF Inv, LoopInv, LoopTypes, Standing
  <2>3. Scheduled'
    BY <1>1, <1>3, <1>5, <2>1 DEF Inv, LoopInv, Scheduled
  <2> QED BY <1>2, <1>4, <2>2, <2>3 DEF Inv, LoopInv
<1>7. CASE ~ (next > Len(calls) \/ InterruptPending)
  <2>1. next \in Calls
    BY <1>7, CallsAre DEF Inv, LoopInv, LoopTypes
  <2>2. CASE Circles
    <3>1. pc' = "ended" /\ UNCHANGED <<next, batch, then>>
      BY <1>7, <2>2 DEF Consider, Ended
    <3>2. LoopTypes' /\ Standing'
      BY <1>1, <3>1 DEF Inv, LoopInv, LoopTypes, Standing
    <3>3. Scheduled'
      BY <1>1, <1>3, <3>1 DEF Inv, LoopInv, Scheduled
    <3> QED BY <1>2, <1>4, <3>2, <3>3 DEF Inv, LoopInv
  <2>3. CASE ~Circles /\ Solo(calls[next])
    <3>1. pc' = "batch" /\ then' = "solo" /\ UNCHANGED <<next, batch>>
      BY <1>7, <2>3 DEF Consider
    <3>2. LoopTypes' /\ Standing'
      BY <1>1, <3>1 DEF Inv, LoopInv, LoopTypes, Standing
    <3>3. Scheduled'
      BY <1>1, <1>3, <1>5, <2>1, <3>1 DEF Inv, LoopInv, Scheduled
    <3> QED BY <1>2, <1>4, <3>2, <3>3 DEF Inv, LoopInv
  <2>4. CASE ~Circles /\ ~Solo(calls[next])
    <3>1. batch' = batch \cup {next} /\ next' = next + 1 /\ UNCHANGED <<pc, then>>
      BY <1>7, <2>4 DEF Consider
    <3>2. ParallelSafe(calls[next])
      BY <2>4 DEF Solo
    <3>3. LoopTypes'
      BY <1>1, <2>1, <3>1 DEF Inv, LoopInv, LoopTypes
    <3>4. next \in Nat /\ \A i \in Calls : i < next + 1 <=> i < next \/ i = next
      BY CallsAre DEF Inv, LoopInv, LoopTypes
    <3>5. Standing'
      <4>1. refused => \E i \in Calls : outcome[i] = "denied" /\ i \notin batch /\ i < next
        BY <1>1 DEF Inv, LoopInv, Standing
      <4>2. refused => \E i \in Calls : outcome[i] = "denied" /\ i \notin batch' /\ i < next'
        BY <3>1, <3>4, <4>1
      <4> QED BY <1>1, <3>1, <4>2 DEF Inv, LoopInv, Standing
    <3>6. Scheduled'
      <4>1. \A i \in batch' : i < next' /\ ParallelSafe(calls'[i])
        BY <1>1, <1>3, <2>1, <3>1, <3>2, <3>4 DEF Inv, LoopInv, LoopTypes, Scheduled
      <4>2. \A j \in Calls : j < next' => j \in batch' \/ Settled(j)'
        BY <1>3, <1>5, <3>1, <3>4
      <4> QED BY <1>1, <1>3, <3>1, <4>1, <4>2 DEF Inv, LoopInv, Scheduled
    <3> QED BY <1>2, <1>4, <3>3, <3>5, <3>6 DEF Inv, LoopInv
  <2> QED BY <2>2, <2>3, <2>4
<1> QED BY <1>6, <1>7

LEMMA RunBatchKeeps == ASSUME Inv, RunBatch PROVE Inv'
<1>1. PICK denied \in SUBSET Gated(batch) :
        /\ outcome' = [i \in Calls |-> IF i \in denied THEN "denied" ELSE outcome[i]]
        /\ allowed' = allowed \cup (Gated(batch) \ denied)
        /\ refused' = (refused \/ denied # {})
        /\ Begin(batch \ denied)
  BY DEF RunBatch
<1>2. pc = "batch" /\ UNCHANGED <<calls, next, then, pipeVars>>
  BY DEF RunBatch
<1>3. /\ batch' = batch \ denied /\ running' = batch \ denied /\ pc' = "running"
      /\ Join({i \in batch \ denied : calls[i] = "mcp"})
  BY <1>1 DEF Begin
<1>4. /\ running = {} /\ line = {} /\ phase = "ready" /\ batch \subseteq Calls /\ denied \subseteq batch
      /\ \A i \in batch : ParallelSafe(calls[i]) /\ i < next
      /\ \A j \in Calls : j < next => j \in batch \/ Settled(j)
  BY <1>2 DEF Inv, LoopInv, LoopTypes, Scheduled, Link, Gated
<1>5. McpInv'
  <2>1. {i \in batch \ denied : calls[i] = "mcp"} \in SUBSET Calls
    BY <1>4
  <2> QED BY <1>2, <1>3, <1>4, <2>1, JoinKeeps DEF Inv
<1>6. LoopTypes'
  BY <1>1, <1>2, <1>3, <1>4 DEF Inv, LoopInv, LoopTypes
<1>7. Scheduled'
  <2>1. \A j \in Calls : j < next' => j \in running' \/ Settled(j)'
    BY <1>1, <1>2, <1>3, <1>4 DEF Settled
  <2> QED BY <1>2, <1>3, <1>4, <2>1 DEF Inv, LoopInv, Scheduled
<1>8. Permitted'
  BY <1>1, <1>2, <1>3 DEF Permitted, Gated
<1>9. Standing'
  <2>1. CASE denied # {}
    <3>1. PICK d \in denied : TRUE
      BY <2>1
    <3> QED BY <1>1, <1>2, <1>3, <1>4, <3>1 DEF Standing
  <2>2. CASE denied = {}
    <3>1. refused' = refused /\ batch' = batch /\ next' = next /\ \A i \in Calls : outcome'[i] = outcome[i]
      BY <1>1, <1>2, <1>3, <2>2 DEF Inv, LoopInv, LoopTypes
    <3> QED BY <1>2, <1>3, <3>1 DEF Inv, LoopInv, Standing
  <2> QED BY <2>1, <2>2
<1>10. Link'
  BY <1>2, <1>3, <1>4 DEF Link, Join, pipeVars
<1> QED BY <1>5, <1>6, <1>7, <1>8, <1>9, <1>10 DEF Inv, LoopInv

LEMMA RunSoloKeeps == ASSUME Inv, RunSolo PROVE Inv'
<1>1. /\ pc = "solo" /\ next' = next + 1 /\ then' = "calls"
      /\ UNCHANGED <<calls, pipeVars>>
  BY DEF RunSolo
<1>2. /\ next \in Calls /\ next \in Nat \ {0} /\ batch = {} /\ running = {} /\ line = {} /\ phase = "ready"
      /\ \A j \in Calls : j < next => Settled(j)
      /\ refused => \E i \in Calls : outcome[i] = "denied" /\ i < next
  BY <1>1 DEF Inv, LoopInv, LoopTypes, Scheduled, Standing, Link
<1>3. next' \in Nat \ {0} /\ \A i \in Calls : i < next + 1 <=> i < next \/ i = next
  BY <1>1, <1>2, CallsAre
<1>4. ASSUME NEW out \in {"told", "denied"}, outcome' = [outcome EXCEPT ![next] = out], pc' = "calls",
             UNCHANGED <<batch, running, allowed, line, asked, got>>,
             refused' = (refused \/ out = "denied")
      PROVE  Inv'
  <2>1. \A j \in Calls : outcome'[j] = IF j = next THEN out ELSE outcome[j]
    BY <1>2, <1>4 DEF Inv, LoopInv, LoopTypes
  <2>2. UNCHANGED mcpVars
    BY <1>1, <1>4 DEF pipeVars, mcpVars
  <2>3. McpInv' /\ UNCHANGED <<phase, line>>
    BY <1>4, <2>2, McpStutter DEF Inv, mcpVars
  <2>4. LoopTypes'
    BY <1>1, <1>2, <1>3, <1>4 DEF Inv, LoopInv, LoopTypes
  <2>5. \A j \in Calls : j < next' => Settled(j)'
    BY <1>1, <1>2, <1>3, <2>1 DEF Settled
  <2>6. Scheduled'
    BY <1>1, <1>2, <1>4, <2>5 DEF Scheduled
  <2>7. Standing'
    <3>1. CASE refused
      <4>1. PICK i \in Calls : outcome[i] = "denied" /\ i < next
        BY <1>2, <3>1
      <4>2. i # next
        BY <1>2, <4>1
      <4> QED BY <1>1, <1>2, <1>3, <1>4, <2>1, <4>1, <4>2 DEF Standing
    <3>2. CASE ~refused /\ out = "denied"
      BY <1>1, <1>2, <1>3, <1>4, <2>1, <3>2 DEF Standing
    <3>3. CASE ~refused /\ out # "denied"
      BY <1>4, <3>3 DEF Standing
    <3> QED BY <3>1, <3>2, <3>3
  <2>8. Permitted' /\ Link'
    BY <1>2, <1>4, <2>3 DEF Permitted, Link
  <2> QED BY <2>3, <2>4, <2>6, <2>7, <2>8 DEF Inv, LoopInv
<1>5. ASSUME allowed' = allowed \cup Gated({next}), Begin({next}), UNCHANGED <<outcome, refused>>
      PROVE  Inv'
  <2>1. /\ batch' = {next} /\ running' = {next} /\ pc' = "running"
        /\ Join({i \in {next} : calls[i] = "mcp"})
    BY <1>5 DEF Begin
  <2>2. McpInv'
    <3>1. {i \in {next} : calls[i] = "mcp"} \in SUBSET Calls
      BY <1>2
    <3> QED BY <1>1, <1>2, <2>1, <3>1, JoinKeeps DEF Inv
  <2>3. LoopTypes'
    BY <1>1, <1>2, <1>3, <1>5, <2>1 DEF Inv, LoopInv, LoopTypes
  <2>4. /\ \A j \in Calls : j < next' => j \in running' \/ Settled(j)'
        /\ \E i \in Calls : batch' = {i} /\ \A j \in Calls : j < i => Settled(j)'
    BY <1>1, <1>2, <1>3, <1>5, <2>1 DEF Settled
  <2>5. Scheduled'
    BY <1>1, <1>2, <1>3, <2>1, <2>4 DEF Scheduled
  <2>6. Permitted'
    BY <1>1, <1>5, <2>1 DEF Permitted, Gated
  <2>7. Standing'
    <3>1. \A i \in Calls : i < next => i # next
      BY <1>2
    <3> QED BY <1>1, <1>2, <1>3, <1>5, <2>1, <3>1 DEF Standing
  <2>8. Link'
    BY <1>1, <1>2, <2>1 DEF Link, Join, pipeVars
  <2> QED BY <2>2, <2>3, <2>5, <2>6, <2>7, <2>8 DEF Inv, LoopInv
<1>6. \/ \E out \in {"told", "denied"} :
           /\ outcome' = [outcome EXCEPT ![next] = out] /\ pc' = "calls"
           /\ UNCHANGED <<batch, running, allowed, line, asked, got>>
           /\ refused' = (refused \/ out = "denied")
      \/ allowed' = allowed \cup Gated({next}) /\ Begin({next}) /\ UNCHANGED <<outcome, refused>>
  <2>1. CASE /\ outcome' = [outcome EXCEPT ![next] = "told"] /\ pc' = "calls"
             /\ UNCHANGED <<batch, running, allowed, refused, line, asked, got>>
    BY <2>1 DEF Inv, LoopInv, LoopTypes
  <2>2. CASE /\ outcome' = [outcome EXCEPT ![next] = "denied"] /\ pc' = "calls" /\ refused' = TRUE
             /\ UNCHANGED <<batch, running, allowed, line, asked, got>>
    BY <2>2
  <2> QED BY <2>1, <2>2 DEF RunSolo
<1>7. CASE \E out \in {"told", "denied"} :
           /\ outcome' = [outcome EXCEPT ![next] = out] /\ pc' = "calls"
           /\ UNCHANGED <<batch, running, allowed, line, asked, got>>
           /\ refused' = (refused \/ out = "denied")
  BY <1>4, <1>7
<1> QED BY <1>5, <1>6, <1>7

LEMMA ReturnKeeps == ASSUME Inv, NEW i \in Calls, Return(i) PROVE Inv'
<1>1. /\ pc = "running" /\ i \in running /\ running' = running \ {i}
      /\ UNCHANGED <<pc, calls, next, batch, then, allowed, refused, mcpVars>>
  BY DEF Return, memory
<1>2. PICK out \in {"told", "fatal"} :
        /\ calls[i] = "mcp" => got[i] # "none"
        /\ outcome' = [outcome EXCEPT ![i] = out]
  BY DEF Return
<1>3. McpInv' /\ UNCHANGED <<phase, line>>
  BY <1>1, McpStutter DEF Inv, mcpVars
<1>4. i \in batch /\ \A j \in Calls : outcome'[j] = IF j = i THEN out ELSE outcome[j]
  BY <1>1, <1>2 DEF Inv, LoopInv, LoopTypes
<1>5. LoopTypes'
  BY <1>1, <1>2 DEF Inv, LoopInv, LoopTypes
<1>6. Scheduled'
  <2>1. \A j \in Calls : Settled(j) => Settled(j)'
    BY <1>2, <1>4 DEF Settled
  <2>2. Settled(i)'
    BY <1>2, <1>4 DEF Settled
  <2>3. \A j \in Calls : j < next => j \in running' \/ Settled(j)'
    BY <1>1, <2>1, <2>2 DEF Inv, LoopInv, Scheduled
  <2>4. \/ \A j \in batch : ParallelSafe(calls[j])
        \/ \E b \in Calls : batch = {b} /\ \A j \in Calls : j < b => Settled(j)'
    BY <1>1, <2>1 DEF Inv, LoopInv, Scheduled
  <2> QED BY <1>1, <2>3, <2>4 DEF Inv, LoopInv, Scheduled
<1>7. Permitted'
  BY <1>1 DEF Inv, LoopInv, Permitted
<1>8. Standing'
  <2>1. refused => \E j \in Calls : outcome[j] = "denied" /\ j \notin batch /\ j < next
    BY <1>1 DEF Inv, LoopInv, Standing
  <2>2. \A j \in Calls : j \notin batch => outcome'[j] = outcome[j]
    BY <1>4
  <2> QED BY <1>1, <2>1, <2>2 DEF Standing
<1>9. Link'
  <2>1. i \notin line
    BY <1>2 DEF Inv, McpInv, Pending, LoopInv, Link
  <2> QED BY <1>1, <1>3, <2>1 DEF Inv, LoopInv, Link
<1> QED BY <1>3, <1>5, <1>6, <1>7, <1>8, <1>9 DEF Inv, LoopInv

LEMMA PanicKeeps == ASSUME Inv, NEW i \in Calls, Panic(i) PROVE Inv'
<1>1. /\ pc = "running" /\ pc' = "ended" /\ running' = {} /\ line' = {} /\ req' = Nobody
      /\ UNCHANGED <<calls, next, batch, then, outcome, allowed, refused, phase, next_id,
                     toServer, torn, serverVars, asked, got>>
  BY DEF Panic, Ended, memory
<1>2. McpInv'
  BY <1>1, DropKeeps DEF Inv
<1>3. LoopTypes'
  BY <1>1 DEF Inv, LoopInv, LoopTypes
<1>4. Scheduled' /\ Permitted' /\ Standing' /\ Link'
  BY <1>1 DEF Inv, LoopInv, Scheduled, Permitted, Standing, Link
<1> QED BY <1>2, <1>3, <1>4 DEF Inv, LoopInv

LEMMA GatherKeeps == ASSUME Inv, Gather PROVE Inv'
<1>1. /\ pc = "running" /\ running = {} /\ batch' = {} /\ pc' = then
      /\ UNCHANGED <<calls, next, then, running, outcome, allowed, refused, mcpVars>>
  BY DEF Gather, memory
<1>2. McpInv' /\ UNCHANGED <<phase, line>>
  BY <1>1, McpStutter DEF Inv, mcpVars
<1>3. /\ then \in {"record", "solo", "calls"} /\ line = {} /\ phase = "ready"
      /\ \A j \in Calls : j < next => Settled(j)
      /\ then = "solo" => next \in Calls
  BY <1>1 DEF Inv, LoopInv, Scheduled, Link
<1>4. LoopTypes'
  BY <1>1, <1>3 DEF Inv, LoopInv, LoopTypes
<1>5. Scheduled'
  <2>1. \A j \in Calls : j < next => Settled(j)'
    BY <1>1, <1>3 DEF Settled
  <2> QED BY <1>1, <1>3, <2>1 DEF Scheduled
<1>6. Permitted' /\ Link'
  BY <1>1, <1>2, <1>3 DEF Permitted, Link
<1>7. Standing'
  BY <1>1, <1>3 DEF Inv, LoopInv, Standing
<1> QED BY <1>2, <1>4, <1>5, <1>6, <1>7 DEF Inv, LoopInv

\* A round with a refusal ends the run; another leaves no refusal behind.
LEMMA RecordKeeps == ASSUME Inv, Record PROVE Inv'
<1> DEFINE bad == {i \in Calls : outcome[i] \in {"fatal", "denied"}}
<1>1. /\ pc = "record"
      /\ IF bad # {} THEN pc' = "ended" /\ UNCHANGED roundVars ELSE pc' = "boundary" /\ NoRound
      /\ UNCHANGED <<memory, mcpVars>>
  BY DEF Record, Ended
<1>2. CASE bad # {}
  <2> HIDE DEF bad
  <2> QED BY <1>1, <1>2, ElsewhereKeeps
<1>3. CASE bad = {}
  <2>1. pc' = "boundary" /\ NoRound
    BY <1>1, <1>3
  <2>2. ~refused /\ UNCHANGED refused
    <3>1. \A i \in Calls : outcome[i] # "denied"
      BY <1>3
    <3>2. refused => \E i \in Calls : outcome[i] = "denied"
      BY <1>1 DEF Inv, LoopInv, Standing
    <3> QED BY <1>1, <3>1, <3>2 DEF memory
  <2>3. McpInv' /\ UNCHANGED <<phase, line>> /\ line = {}
    BY <1>1, McpStutter DEF Inv, LoopInv, Scheduled, Link, mcpVars
  <2>4. LoopTypes'
    <3>1. calls' \in Seq(Tools) /\ Len(calls') <= MaxCalls
      BY <2>1, CallsAre DEF NoRound
    <3>2. outcome' \in [Calls -> {"none", "told", "fatal", "denied"}]
      BY <2>1 DEF NoRound
    <3>3. next' = 1 /\ batch' = {} /\ running' = {}
      BY <2>1 DEF NoRound
    <3>4. refused' \in BOOLEAN
      BY <2>2 DEF Inv, LoopInv, LoopTypes
    <3> QED BY <2>1, <3>1, <3>2, <3>3, <3>4 DEF LoopTypes
  <2>5. Scheduled' /\ Permitted' /\ Standing' /\ Link'
    BY <2>1, <2>2, <2>3, CallsAre DEF NoRound, Scheduled, Permitted, Standing, Link
  <2> QED BY <2>3, <2>4, <2>5 DEF Inv, LoopInv
<1> QED BY <1>2, <1>3

\* The client ends waits only, and the server touches neither the lock nor the loop.
LEMMA McpSideKeeps ==
    ASSUME Inv, ClientStep \/ ServerStep, UNCHANGED agentVars
    PROVE  Inv'
<1>1. McpInv'
  BY McpStepKeeps DEF Inv
<1>2. UNCHANGED <<pc, calls, next, batch, then, running, outcome, allowed, refused>>
  BY DEF agentVars, roundVars, memory
<1>3. line' \subseteq line /\ (phase = "ready" => phase' = "ready")
  <2>1. \A out : Returned(out) => line' \subseteq line /\ (phase = "ready" => phase' = "ready")
    BY DEF Returned
  <2>2. CASE Request
    BY <2>1, <2>2 DEF Request
  <2>3. CASE Notify \/ ReadLine \/ ReadEnds
    BY <2>1, <2>3 DEF Notify, ReadLine, ReadEnds
  <2>4. CASE ServerStep
    BY <2>4 DEF ServerStep, Take, Answer, Unasked, Exit
  <2> QED BY <2>2, <2>3, <2>4 DEF ClientStep
<1>4. LoopTypes' /\ Scheduled'
  BY <1>2 DEF Inv, LoopInv, LoopTypes, Scheduled, Settled
<1>5. Permitted' /\ Standing' /\ Link'
  BY <1>2, <1>3 DEF Inv, LoopInv, Permitted, Standing, Link
<1> QED BY <1>1, <1>4, <1>5 DEF Inv, LoopInv

LEMMA NextKeeps == Inv /\ [Next]_vars => Inv'
<1> SUFFICES ASSUME Inv, [Next]_vars PROVE Inv'
  OBVIOUS
<1>1. CASE Boundary \/ TurnIsLost \/ TurnAnswers \/ Shaped
  BY <1>1, TurnsKeep
<1>2. CASE \E tools \in Rounds : TurnCalls(tools)
  BY <1>2, TurnCallsKeeps
<1>3. CASE Consider \/ RunBatch \/ RunSolo
  BY <1>3, ConsiderKeeps, RunBatchKeeps, RunSoloKeeps
<1>4. CASE Gather \/ Record
  BY <1>4, GatherKeeps, RecordKeeps
<1>5. CASE \E i \in Calls : Return(i) \/ Panic(i)
  BY <1>5, ReturnKeeps, PanicKeeps
<1>6. CASE Client \/ Server
  BY <1>6, McpSideKeeps DEF Client, Server
<1>7. CASE \E interrupt \in BOOLEAN : Push(interrupt)
  BY <1>7, PushKeeps
<1>8. CASE UNCHANGED vars
  <2>1. UNCHANGED <<roundVars, memory, mcpVars, pc>>
    BY <1>8 DEF vars, agentVars
  <2> QED BY <2>1, ElsewhereKeeps
<1> QED BY <1>1, <1>2, <1>3, <1>4, <1>5, <1>6, <1>7, <1>8 DEF Next, Loop

-----------------------------------------------------------------------------
(* Numbers in their order.                                                 *)

LEMMA LeastIs == ASSUME NEW T \in SUBSET Nat, T # {} PROVE Min(T) \in T /\ \A d \in T : Min(T) <= d
<1>1. PICK c \in T : \A d \in T : c <= d
  BY LeastNat
<1> QED BY <1>1 DEF Min

Distinct(s) == \A j, k \in DOMAIN s : s[j] = s[k] => j = k

\* Ascending lists each member once.
LEMMA AscendingLists ==
    ASSUME NEW V \in SUBSET Nat, IsFiniteSet(V)
    PROVE  Ascending(V) \in Seq(V) /\ Distinct(Ascending(V)) /\ ToSet(Ascending(V)) = V
<1> DEFINE n == Cardinality(V)
           Below(s) == {r \in V : r < s}
           rank == [s \in V |-> Cardinality(Below(s)) + 1]
           a == Ascending(V)
<1>1. n \in Nat
  BY FS_CardinalityType
<1>2. \A s \in V : IsFiniteSet(Below(s)) /\ Cardinality(Below(s)) \in Nat
  <2> SUFFICES ASSUME NEW s \in V PROVE IsFiniteSet(Below(s)) /\ Cardinality(Below(s)) \in Nat
    OBVIOUS
  <2>1. Below(s) \in SUBSET V
    OBVIOUS
  <2>2. IsFiniteSet(Below(s))
    BY <2>1, FS_Subset
  <2> QED BY <2>2, FS_CardinalityType
<1>3. \A s, t \in V : s < t => Cardinality(Below(s)) < Cardinality(Below(t))
  <2> SUFFICES ASSUME NEW s \in V, NEW t \in V, s < t PROVE Cardinality(Below(s)) < Cardinality(Below(t))
    OBVIOUS
  <2>1. Below(s) \cup {s} \in SUBSET Below(t)
    <3>1. \A r \in V : r < s => r < t
      OBVIOUS
    <3> QED BY <3>1
  <2>2. s \notin Below(s)
    OBVIOUS
  <2>3. Cardinality(Below(s) \cup {s}) = Cardinality(Below(s)) + 1
    BY <1>2, <2>2, FS_AddElement
  <2>4. Cardinality(Below(s) \cup {s}) <= Cardinality(Below(t))
    BY <1>2, <2>1, FS_Subset
  <2> QED BY <1>2, <2>3, <2>4
<1>4. \A s \in V : Cardinality(Below(s)) + 1 \in 1 .. n
  <2> SUFFICES ASSUME NEW s \in V PROVE Cardinality(Below(s)) + 1 \in 1 .. n
    OBVIOUS
  <2>1. Below(s) \cup {s} \in SUBSET V /\ s \notin Below(s)
    OBVIOUS
  <2>2. Cardinality(Below(s) \cup {s}) = Cardinality(Below(s)) + 1
    BY <1>2, <2>1, FS_AddElement
  <2>3. Cardinality(Below(s) \cup {s}) <= n
    BY <2>1, FS_Subset
  <2> QED BY <1>1, <1>2, <2>2, <2>3
<1>5. rank \in Injection(V, 1 .. n)
  <2>1. rank \in [V -> 1 .. n]
    BY <1>4
  <2>2. \A s, t \in V : rank[s] = rank[t] => s = t
    <3> SUFFICES ASSUME NEW s \in V, NEW t \in V, s # t PROVE rank[s] # rank[t]
      OBVIOUS
    <3>1. s < t \/ t < s
      OBVIOUS
    <3>2. Cardinality(Below(s)) # Cardinality(Below(t))
      <4> HIDE DEF Below
      <4> QED BY <1>2, <1>3, <3>1
    <3> HIDE DEF Below
    <3> QED BY <1>2, <3>2
  <2> QED BY <2>1, <2>2 DEF Injection, IsInjective
<1>6. IsFiniteSet(1 .. n) /\ Cardinality(1 .. n) = n
  BY <1>1, FS_Interval
<1>7. rank \in Surjection(V, 1 .. n)
  <2> HIDE DEF rank
  <2> QED BY <1>5, <1>6, FS_Injection
<1>8. \A i \in 1 .. n : \E s \in V : Cardinality(Below(s)) = i - 1
  <2> SUFFICES ASSUME NEW i \in 1 .. n PROVE \E s \in V : Cardinality(Below(s)) = i - 1
    OBVIOUS
  <2>1. PICK s \in V : rank[s] = i
    BY <1>7 DEF Surjection
  <2> HIDE DEF Below
  <2> QED BY <1>2, <2>1
<1>9. \A i \in 1 .. n : a[i] \in V /\ Cardinality(Below(a[i])) = i - 1
  <2> SUFFICES ASSUME NEW i \in 1 .. n PROVE a[i] \in V /\ Cardinality(Below(a[i])) = i - 1
    OBVIOUS
  <2>1. a[i] = CHOOSE s \in V : Cardinality(Below(s)) = i - 1
    BY DEF Ascending
  <2> HIDE DEF Below, a
  <2> QED BY <1>8, <2>1
<1>10. a \in Seq(V) /\ DOMAIN a = 1 .. n
  <2>1. a \in [1 .. n -> V]
    BY <1>9 DEF Ascending
  <2> QED BY <1>1, <2>1
<1>11. Distinct(a)
  <2> HIDE DEF Below, a
  <2> QED BY <1>9, <1>10 DEF Distinct
<1>12. \A s \in V : \E i \in DOMAIN a : a[i] = s
  <2> SUFFICES ASSUME NEW s \in V PROVE \E i \in DOMAIN a : a[i] = s
    OBVIOUS
  <2> DEFINE i == Cardinality(Below(s)) + 1
  <2>1. i \in 1 .. n /\ i - 1 = Cardinality(Below(s))
    BY <1>2, <1>4
  <2>2. a[i] \in V /\ Cardinality(Below(a[i])) = Cardinality(Below(s))
    <3> HIDE DEF i, Below, a
    <3> QED BY <1>9, <2>1
  <2>3. \A r \in V : Cardinality(Below(r)) = Cardinality(Below(s)) => r = s
    <3> SUFFICES ASSUME NEW r \in V, r # s PROVE Cardinality(Below(r)) # Cardinality(Below(s))
      OBVIOUS
    <3>1. r < s \/ s < r
      OBVIOUS
    <3> HIDE DEF Below
    <3> QED BY <1>2, <1>3, <3>1
  <2>4. a[i] = s
    <3> HIDE DEF i, a, Below
    <3> QED BY <2>2, <2>3
  <2> HIDE DEF a, i
  <2> QED BY <1>10, <2>1, <2>4
<1> HIDE DEF a
<1>13. ToSet(a) = V
  <2>1. \A i \in DOMAIN a : a[i] \in V
    BY <1>9, <1>10
  <2> QED BY <1>12, <2>1 DEF ToSet
<1> QED BY <1>10, <1>11, <1>13 DEF a

\* Sorted puts the first m calls, listed in any order, into their own.
LEMMA SortedLists ==
    ASSUME NEW s \in Seq(Nat), NEW m \in Nat, Distinct(s), ToSet(s) = 1 .. m
    PROVE  Sorted(s) = [k \in 1 .. m |-> k]
<1>1. DOMAIN s = 1 .. Len(s) /\ Len(s) \in Nat
  OBVIOUS
<1>2. \A v \in 0 .. m : Cardinality({j \in DOMAIN s : s[j] <= v}) = v
  <2> SUFFICES ASSUME NEW v \in 0 .. m PROVE Cardinality({j \in DOMAIN s : s[j] <= v}) = v
    OBVIOUS
  <2> DEFINE D == {j \in DOMAIN s : s[j] <= v}
             f == [j \in D |-> s[j]]
  <2>1. D \in SUBSET (1 .. Len(s)) /\ IsFiniteSet(1 .. Len(s))
    BY <1>1, FS_Interval
  <2>2. IsFiniteSet(D)
    <3> HIDE DEF D
    <3> QED BY <2>1, FS_Subset
  <2>3. \A j \in DOMAIN s : s[j] \in 1 .. m
    BY DEF ToSet
  <2>4. f \in [D -> 1 .. v]
    BY <2>3
  <2>5. \A j, k \in D : f[j] = f[k] => j = k
    BY DEF Distinct
  <2>6. \A x \in 1 .. v : \E j \in D : f[j] = x
    <3> SUFFICES ASSUME NEW x \in 1 .. v PROVE \E j \in D : f[j] = x
      OBVIOUS
    <3>1. x \in ToSet(s)
      OBVIOUS
    <3>2. PICK j \in DOMAIN s : s[j] = x
      BY <3>1 DEF ToSet
    <3> QED BY <3>2
  <2>7. f \in Bijection(D, 1 .. v)
    <3> HIDE DEF f, D
    <3> QED BY <2>4, <2>5, <2>6 DEF Bijection, Injection, Surjection, IsInjective
  <2>8. Cardinality(1 .. v) = Cardinality(D)
    <3>1. ExistsBijection(D, 1 .. v)
      <4> HIDE DEF f, D
      <4> QED BY <2>7 DEF ExistsBijection
    <3> HIDE DEF D
    <3> QED BY <2>2, <3>1, FS_Bijection
  <2>9. Cardinality(1 .. v) = v
    BY FS_Interval
  <2> QED BY <2>8, <2>9
<1>3. Len(s) = m
  <2>1. s \in Bijection(1 .. Len(s), 1 .. m)
    <3>1. s \in [1 .. Len(s) -> 1 .. m]
      BY <1>1 DEF ToSet
    <3>2. \A x \in 1 .. m : \E j \in 1 .. Len(s) : s[j] = x
      BY <1>1 DEF ToSet
    <3> QED BY <1>1, <3>1, <3>2 DEF Distinct, Bijection, Injection, Surjection, IsInjective
  <2>2. Cardinality(1 .. m) = Len(s)
    BY <1>1, <2>1, FS_CountingElements DEF ExistsBijection
  <2>3. Cardinality(1 .. m) = m
    BY FS_Interval
  <2> QED BY <2>2, <2>3
<1>4. \A v \in 1 .. m : Cardinality({j \in DOMAIN s : s[j] < v}) = v - 1
  <2> SUFFICES ASSUME NEW v \in 1 .. m PROVE Cardinality({j \in DOMAIN s : s[j] < v}) = v - 1
    OBVIOUS
  <2>1. v - 1 \in 0 .. m /\ \A j \in DOMAIN s : s[j] < v <=> s[j] <= v - 1
    OBVIOUS
  <2>2. {j \in DOMAIN s : s[j] < v} = {j \in DOMAIN s : s[j] <= v - 1}
    BY <2>1
  <2> QED BY <1>2, <2>1, <2>2
<1>5. \A k \in 1 .. m : Sorted(s)[k] = k
  <2> SUFFICES ASSUME NEW k \in 1 .. m PROVE Sorted(s)[k] = k
    OBVIOUS
  <2> DEFINE At(v) == /\ Cardinality({j \in DOMAIN s : s[j] < v}) < k
                      /\ k <= Cardinality({j \in DOMAIN s : s[j] <= v})
  <2>1. Sorted(s)[k] = CHOOSE v \in 1 .. m : At(v)
    BY <1>1, <1>3 DEF Sorted
  <2>2. \A v \in 1 .. m : At(v) <=> v = k
    <3> SUFFICES ASSUME NEW v \in 1 .. m PROVE At(v) <=> v = k
      OBVIOUS
    <3>1. /\ Cardinality({j \in DOMAIN s : s[j] < v}) = v - 1
          /\ Cardinality({j \in DOMAIN s : s[j] <= v}) = v
      <4>1. v \in 0 .. m
        OBVIOUS
      <4> QED BY <1>2, <1>4, <4>1
    <3>2. At(v) <=> v - 1 < k /\ k <= v
      BY <3>1
    <3> HIDE DEF At
    <3> QED BY <3>2
  <2> HIDE DEF At
  <2> QED BY <2>1, <2>2
<1>6. DOMAIN Sorted(s) = 1 .. m /\ Sorted(s) = [k \in DOMAIN Sorted(s) |-> Sorted(s)[k]]
  <2> DEFINE g(k) == CHOOSE v \in ToSet(s) : /\ Cardinality({j \in DOMAIN s : s[j] < v}) < k
                                            /\ k <= Cardinality({j \in DOMAIN s : s[j] <= v})
  <2>1. DOMAIN s = 1 .. m
    BY <1>1, <1>3
  <2>2. Sorted(s) = [k \in DOMAIN s |-> g(k)]
    BY DEF Sorted
  <2> HIDE DEF g
  <2> QED BY <2>1, <2>2
<1> QED BY <1>5, <1>6
-----------------------------------------------------------------------------
(* The session of a run.                                                   *)

Messages ==
    {User(n) : n \in Nat} \cup {Said, Instruction}
    \cup {Called(s, n) : s \in Nat, n \in Nat} \cup {Result(s, i) : s \in Nat, i \in Nat}
OfStep(m) == m.what \in {"calls", "result"}
InRound == pc \in {"calls", "batch", "running", "solo", "record"}
Outside == pc \in {"boundary", "generating", "shaping"}

RunTypes ==
    /\ session \in Seq(Messages) /\ step \in Nat /\ sent \in Nat
    /\ results \in Seq(Calls)

\* What the session holds of steps is of steps before this one, but for the
\* turn whose calls are run: that stands last.
Dated ==
    /\ \A k \in DOMAIN session : OfStep(session[k]) => session[k].step \in 0 .. step
    /\ Outside => \A k \in DOMAIN session : OfStep(session[k]) => session[k].step < step
    /\ InRound => /\ session # <<>> /\ session[Len(session)] = Called(step, Len(calls))
                  /\ \A k \in DOMAIN session : OfStep(session[k]) /\ k # Len(session) => session[k].step < step

\* Of the calls before the loop's index each waits or runs in the batch, or has
\* its result, once; those after it have no outcome.
Listed ==
    /\ pc \in {"boundary", "generating"} => results = <<>> /\ \A i \in Calls : ~Settled(i)
    /\ InRound => /\ next <= Len(calls) + 1
                  /\ Distinct(results) /\ ToSet(results) = {j \in Calls : j < next} \ batch
                  /\ \A i \in ToSet(results) : Settled(i)
                  /\ \A i \in Calls : Settled(i) => i < next
    /\ pc = "record" => batch = {}
    /\ pc = "solo" \/ (pc \in {"batch", "running"} /\ then = "solo") => next <= Len(calls)
    /\ pc = "record" \/ (pc \in {"batch", "running"} /\ then = "record") =>
         next > Len(calls) \/ step \in interrupted

Started ==
    \A s \in Nat, i \in Calls : <<s, i>> \in ran =>
      s <= step /\ (Outside => s < step) /\ (InRound /\ s = step => i < next)

Endings ==
    /\ finish # "none" <=> pc = "ended"
    /\ finish = "answered" /\ ~answer_as => queue = <<>>
    /\ pc = "shaping" => answer_as /\ session # <<>> /\ session[Len(session)] = Instruction

\* SteeringHeard's account of the user's messages.
UsersIn(s) == {k \in DOMAIN s : s[k].what = "user"}
Heard(s, q, n) ==
    \E heard \in 0 .. n :
      /\ {s[k].n : k \in UsersIn(s)} = 1 .. heard
      /\ \A j, k \in UsersIn(s) : j < k => s[j].n < s[k].n
      /\ q = [k \in 1 .. n - heard |-> heard + k]

WholeInv ==
    /\ RunTypes /\ Dated /\ Listed /\ Started /\ Endings
    /\ Heard(session, queue, sent) /\ RoundsWhole

LEMMA MessagesAre ==
    /\ \A n \in Nat : User(n) \in Messages /\ ~OfStep(User(n)) /\ User(n).what = "user" /\ User(n).n = n
    /\ Said \in Messages /\ ~OfStep(Said) /\ Said.what # "user"
    /\ Instruction \in Messages /\ ~OfStep(Instruction) /\ Instruction.what # "user"
    /\ \A s, n \in Nat : /\ Called(s, n) \in Messages /\ OfStep(Called(s, n)) /\ Called(s, n).what = "calls"
                         /\ Called(s, n).step = s /\ Called(s, n).n = n
    /\ \A s, i \in Nat : /\ Result(s, i) \in Messages /\ OfStep(Result(s, i)) /\ Result(s, i).what = "result"
                         /\ Result(s, i).step = s /\ Result(s, i).i = i
<1>1. /\ \A n \in Nat : User(n) \in Messages
      /\ Said \in Messages /\ Instruction \in Messages
      /\ \A s, n \in Nat : Called(s, n) \in Messages /\ Result(s, n) \in Messages
  BY DEF Messages
<1>2. /\ \A n : User(n).what = "user" /\ User(n).n = n
      /\ Said.what = "said" /\ Instruction.what = "instruction"
  BY DEF User, Said, Instruction
<1>3. \A s, n : Called(s, n).what = "calls" /\ Called(s, n).step = s /\ Called(s, n).n = n
  BY DEF Called
<1>4. \A s, i : Result(s, i).what = "result" /\ Result(s, i).step = s /\ Result(s, i).i = i
  BY DEF Result
<1> QED BY <1>1, <1>2, <1>3, <1>4 DEF OfStep

LEMMA Joins ==
    ASSUME NEW S, NEW s \in Seq(S), NEW t \in Seq(S)
    PROVE  /\ s \o t \in Seq(S) /\ Len(s \o t) = Len(s) + Len(t)
           /\ \A k \in DOMAIN s : k \in DOMAIN (s \o t) /\ (s \o t)[k] = s[k]
           /\ \A k \in DOMAIN t : Len(s) + k \in DOMAIN (s \o t) /\ (s \o t)[Len(s) + k] = t[k]
           /\ \A k \in DOMAIN (s \o t) : k \in DOMAIN s \/ (k - Len(s) \in DOMAIN t /\ (s \o t)[k] = t[k - Len(s)])
OBVIOUS

LEMMA Appends == ASSUME NEW S, NEW s \in Seq(S), NEW m \in S PROVE Append(s, m) = s \o <<m>> /\ <<m>> \in Seq(S)
OBVIOUS

\* A list that takes in the members of a set it has none of, in their order.
LEMMA TakesIn ==
    ASSUME NEW s \in Seq(Calls), Distinct(s), NEW V \in SUBSET Calls, ToSet(s) \cap V = {}
    PROVE  /\ s \o Ascending(V) \in Seq(Calls) /\ Distinct(s \o Ascending(V))
           /\ ToSet(s \o Ascending(V)) = ToSet(s) \cup V
<1> DEFINE a == Ascending(V)  r == s \o a
<1>1. V \in SUBSET Nat /\ IsFiniteSet(V)
  <2>1. IsFiniteSet(1 .. MaxCalls) /\ V \in SUBSET (1 .. MaxCalls)
    BY CallsAre, FS_Interval
  <2>2. IsFiniteSet(V)
    BY <2>1, FS_Subset
  <2> QED BY <2>1, <2>2
<1>2. a \in Seq(V) /\ Distinct(a) /\ ToSet(a) = V
  BY <1>1, AscendingLists
<1>3. a \in Seq(Calls)
  BY <1>2
<1> HIDE DEF a
<1>4. /\ r \in Seq(Calls)
      /\ \A k \in DOMAIN s : k \in DOMAIN r /\ r[k] = s[k]
      /\ \A k \in DOMAIN a : Len(s) + k \in DOMAIN r /\ r[Len(s) + k] = a[k]
      /\ \A k \in DOMAIN r : k \in DOMAIN s \/ (k - Len(s) \in DOMAIN a /\ r[k] = a[k - Len(s)])
  BY <1>3, Joins
<1> HIDE DEF r
<1>5. ToSet(r) = ToSet(s) \cup V
  <2>1. \A k \in DOMAIN r : r[k] \in ToSet(s) \cup ToSet(a)
    BY <1>4 DEF ToSet
  <2>2. \A x \in ToSet(s) \cup ToSet(a) : \E k \in DOMAIN r : r[k] = x
    BY <1>4 DEF ToSet
  <2>3. \A x : x \in ToSet(r) <=> \E k \in DOMAIN r : r[k] = x
    BY DEF ToSet
  <2> QED BY <1>2, <2>1, <2>2, <2>3
<1>6. Distinct(r)
  <2> SUFFICES ASSUME NEW j \in DOMAIN r, NEW k \in DOMAIN r, r[j] = r[k] PROVE j = k
    BY DEF Distinct
  <2>1. CASE j \in DOMAIN s /\ k \in DOMAIN s
    BY <1>4, <2>1 DEF Distinct
  <2>2. CASE j \notin DOMAIN s /\ k \notin DOMAIN s
    <3>1. j - Len(s) \in DOMAIN a /\ k - Len(s) \in DOMAIN a /\ a[j - Len(s)] = a[k - Len(s)]
      BY <1>4, <2>2
    <3>2. j - Len(s) = k - Len(s)
      BY <1>2, <3>1 DEF Distinct
    <3>3. j \in Nat /\ k \in Nat
      BY <1>4
    <3> QED BY <3>2, <3>3
  <2>3. ASSUME NEW x \in DOMAIN s, NEW y \in DOMAIN r, y \notin DOMAIN s, r[x] = r[y] PROVE FALSE
    <3>1. r[x] \in ToSet(s) /\ r[y] \in ToSet(a)
      BY <1>4, <2>3 DEF ToSet
    <3> QED BY <1>2, <2>3, <3>1
  <2> QED BY <2>1, <2>2, <2>3
<1> QED BY <1>4, <1>5, <1>6 DEF r, a

-----------------------------------------------------------------------------
(* What a session that grows keeps.                                        *)

Grows(tail) == tail \in Seq(Messages) /\ session \in Seq(Messages) /\ session' = session \o tail

LEMMA GrownIs ==
    ASSUME NEW tail, Grows(tail)
    PROVE  /\ session' \in Seq(Messages) /\ Len(session') = Len(session) + Len(tail)
           /\ \A k \in DOMAIN session : k \in DOMAIN session' /\ session'[k] = session[k]
           /\ \A k \in DOMAIN tail : Len(session) + k \in DOMAIN session' /\ session'[Len(session) + k] = tail[k]
           /\ \A k \in DOMAIN session' : \/ k \in DOMAIN session
                                         \/ k - Len(session) \in DOMAIN tail /\ session'[k] = tail[k - Len(session)]
BY Joins DEF Grows

\* Nothing about a step joined: it stands as it did.
LEMMA SameOfStep ==
    ASSUME NEW tail, Grows(tail), NEW s, \A k \in DOMAIN tail : OfStep(tail[k]) => tail[k].step # s
    PROVE  Answered(s)' = Answered(s) /\ CalledIn(s)' = CalledIn(s)
<1>1. \A k \in DOMAIN session' : OfStep(session'[k]) /\ session'[k].step = s =>
        k \in DOMAIN session /\ session'[k] = session[k]
  BY GrownIs
<1>2. \A k \in DOMAIN session : k \in DOMAIN session' /\ session'[k] = session[k]
  BY GrownIs
<1>3. {k \in DOMAIN session' : session'[k].what = "result" /\ session'[k].step = s}
        = {k \in DOMAIN session : session[k].what = "result" /\ session[k].step = s}
  BY <1>1, <1>2 DEF OfStep
<1>4. {k \in DOMAIN session' : session'[k].what = "calls" /\ session'[k].step = s}
        = {k \in DOMAIN session : session[k].what = "calls" /\ session[k].step = s}
  BY <1>1, <1>2 DEF OfStep
<1>5. Answered(s)' = Answered(s)
  BY <1>2, <1>3 DEF Answered
<1>6. CalledIn(s)' = CalledIn(s)
  BY <1>2, <1>4 DEF CalledIn
<1> QED BY <1>5, <1>6

LEMMA SameUsers ==
    ASSUME NEW tail, Grows(tail), \A k \in DOMAIN tail : tail[k].what # "user",
           Heard(session, queue, sent), UNCHANGED <<queue, sent>>
    PROVE  Heard(session', queue', sent')
<1>1. UsersIn(session') = UsersIn(session) /\ \A k \in UsersIn(session) : session'[k] = session[k]
  BY GrownIs DEF UsersIn
<1>2. {session'[k].n : k \in UsersIn(session')} = {session[k].n : k \in UsersIn(session)}
  BY <1>1
<1> QED BY <1>1, <1>2 DEF Heard
-----------------------------------------------------------------------------
(* The rounds of a run, step by step.                                      *)

LEMMA WholeTypes ==
    ASSUME Inv, WholeInv
    PROVE  /\ session \in Seq(Messages) /\ step \in Nat /\ sent \in Nat /\ results \in Seq(Calls)
           /\ next \in Nat \ {0} /\ Len(calls) \in Nat /\ Calls = 1 .. MaxCalls /\ MaxCalls \in Nat
           /\ Len(calls) <= MaxCalls /\ batch \subseteq Calls
           /\ outcome \in [Calls -> {"none", "told", "fatal", "denied"}]
BY CallsAre DEF Inv, LoopInv, LoopTypes, WholeInv, RunTypes

\* Messages of no step join while no round is under way.
LEMMA TalkKeeps ==
    ASSUME Inv, WholeInv, Outside, NEW tail, Grows(tail), \A k \in DOMAIN tail : ~OfStep(tail[k]),
           pc' \in {"boundary", "generating", "shaping", "ended"}, step' \in {step, step + 1},
           pc = "shaping" => pc' \in {"shaping", "ended"},
           UNCHANGED <<roundVars, memory, sent>>, finish' # "tool_failed",
           Endings', Heard(session', queue', sent')
    PROVE  WholeInv'
<1>1. /\ session' \in Seq(Messages)
      /\ \A k \in DOMAIN session : k \in DOMAIN session' /\ session'[k] = session[k]
      /\ \A k \in DOMAIN session' : OfStep(session'[k]) => k \in DOMAIN session /\ session'[k] = session[k]
  BY GrownIs
<1>2. \A k \in DOMAIN session : OfStep(session[k]) => session[k].step \in 0 .. step /\ session[k].step < step
  BY DEF WholeInv, Dated
<1>3. step' \in Nat /\ step <= step' /\ \A d \in 0 .. step : d \in 0 .. step' /\ (d < step => d < step')
  BY WholeTypes
<1>4. RunTypes'
  BY <1>1, <1>3, WholeTypes DEF RunTypes, roundVars
<1>5. ~InRound'
  BY DEF InRound
<1>6. Dated'
  BY <1>1, <1>2, <1>3, <1>5 DEF Dated
<1>7. Listed'
  BY <1>5 DEF WholeInv, Listed, InRound, Outside, roundVars, memory, Settled
<1>8. Started'
  <2> SUFFICES ASSUME NEW s \in Nat, NEW i \in Calls, <<s, i>> \in ran' PROVE s <= step' /\ s < step'
    BY <1>5 DEF Started
  <2>1. s < step
    BY DEF WholeInv, Started, memory
  <2> QED BY <1>3, <2>1, WholeTypes
<1>9. InCallOrder'
  <2>1. \A k \in DOMAIN session' : session'[k].what = "result" =>
          /\ k > 1 /\ session'[k - 1].what \in {"calls", "result"}
          /\ session'[k - 1].step = session'[k].step
          /\ session'[k].i = IF session'[k - 1].what = "calls" THEN 1 ELSE session'[k - 1].i + 1
    <3> SUFFICES ASSUME NEW k \in DOMAIN session', session'[k].what = "result"
                 PROVE  /\ k > 1 /\ session'[k - 1].what \in {"calls", "result"}
                        /\ session'[k - 1].step = session'[k].step
                        /\ session'[k].i = IF session'[k - 1].what = "calls" THEN 1 ELSE session'[k - 1].i + 1
      OBVIOUS
    <3>1. k \in DOMAIN session /\ session'[k] = session[k]
      BY <1>1 DEF OfStep
    <3>2. k > 1 /\ k - 1 \in DOMAIN session
      BY <3>1, WholeTypes DEF WholeInv, RoundsWhole, InCallOrder
    <3>3. session'[k - 1] = session[k - 1]
      BY <1>1, <3>2
    <3> QED BY <3>1, <3>2, <3>3 DEF WholeInv, RoundsWhole, InCallOrder
  <2>2. \A j, k \in DOMAIN session' :
          session'[j].what = "calls" /\ session'[k].what = "calls" /\ session'[j].step = session'[k].step => j = k
    BY <1>1 DEF OfStep, WholeInv, RoundsWhole, InCallOrder
  <2> QED BY <2>1, <2>2 DEF InCallOrder
<1>10. NothingForgotten'
  <2> SUFFICES ASSUME NEW s \in 0 .. step' - 1, NEW n \in CalledIn(s)'
               PROVE  /\ {i \in Calls : <<s, i>> \in ran'} \subseteq Answered(s)'
                      /\ s \notin interrupted' => Answered(s)' = 1 .. n
    BY DEF NothingForgotten
  <2>1. Answered(s)' = Answered(s) /\ CalledIn(s)' = CalledIn(s)
    BY SameOfStep
  <2>2. s # step
    <3>1. PICK k \in DOMAIN session : session[k].what = "calls" /\ session[k].step = s
      BY <2>1 DEF CalledIn
    <3> QED BY <1>2, <3>1, WholeTypes DEF OfStep
  <2>3. s \in 0 .. step - 1
    BY <2>2, WholeTypes
  <2> QED BY <2>1, <2>3 DEF WholeInv, RoundsWhole, NothingForgotten, memory
<1>11. RecordedUpToFailure'
  BY DEF RecordedUpToFailure
<1> QED BY <1>4, <1>6, <1>7, <1>8, <1>9, <1>10, <1>11 DEF WholeInv, RoundsWhole

\* The loop ends with the session as it is.
LEMMA EndsWhole ==
    ASSUME Inv, WholeInv, pc # "ended",
           pc' = "ended", finish' \notin {"none", "tool_failed"}, finish' = "answered" => queue = <<>> \/ answer_as,
           UNCHANGED <<step, session, queue, sent, answer_as, ran, interrupted, results, outcome>>
    PROVE  WholeInv'
<1>1. ~InRound' /\ ~Outside'
  BY DEF InRound, Outside
<1>2. RunTypes' /\ Dated' /\ Listed' /\ Started'
  BY <1>1 DEF WholeInv, RunTypes, Dated, Listed, Started, InRound, Outside
<1>3. Endings' /\ Heard(session, queue, sent)'
  BY DEF WholeInv, Endings, Heard, UsersIn
<1>4. RoundsWhole'
  <2>1. \A s : Answered(s)' = Answered(s) /\ CalledIn(s)' = CalledIn(s)
    BY DEF Answered, CalledIn
  <2>2. InCallOrder'
    BY DEF WholeInv, RoundsWhole, InCallOrder
  <2>3. NothingForgotten'
    BY <2>1 DEF WholeInv, RoundsWhole, NothingForgotten
  <2> QED BY <2>2, <2>3 DEF RoundsWhole, RecordedUpToFailure
<1> QED BY <1>2, <1>3, <1>4 DEF WholeInv

\* The round goes on: the session and what of it is told stay.
LEMMA GoesOn ==
    ASSUME Inv, WholeInv, UNCHANGED <<step, session, queue, sent, answer_as, finish, calls>>,
           pc # "ended", pc' # "ended", Outside <=> Outside', pc # "shaping" /\ pc' # "shaping",
           InRound <=> InRound',
           interrupted \subseteq interrupted', interrupted' \subseteq interrupted \cup {step},
           \A s \in Nat, i \in Calls : s < step => (<<s, i>> \in ran <=> <<s, i>> \in ran'),
           results' \in Seq(Calls), Listed', Started'
    PROVE  WholeInv'
<1>1. RunTypes' /\ Dated' /\ Endings'
  BY DEF WholeInv, RunTypes, Dated, Endings
<1>2. Heard(session, queue, sent)'
  BY DEF WholeInv, Heard, UsersIn
<1>3. \A s : Answered(s)' = Answered(s) /\ CalledIn(s)' = CalledIn(s)
  BY DEF Answered, CalledIn
<1>4. InCallOrder'
  BY DEF WholeInv, RoundsWhole, InCallOrder
<1>5. NothingForgotten'
  <2> SUFFICES ASSUME NEW s \in 0 .. step - 1, NEW n \in CalledIn(s)
               PROVE  /\ {i \in Calls : <<s, i>> \in ran'} \subseteq Answered(s)
                      /\ s \notin interrupted' => Answered(s) = 1 .. n
    BY <1>3 DEF NothingForgotten
  <2>1. s \in Nat /\ s < step /\ s # step
    BY WholeTypes
  <2>2. {i \in Calls : <<s, i>> \in ran'} = {i \in Calls : <<s, i>> \in ran}
    BY <2>1
  <2> QED BY <2>1, <2>2 DEF WholeInv, RoundsWhole, NothingForgotten
<1>6. RecordedUpToFailure'
  BY DEF WholeInv, Endings, RecordedUpToFailure
<1> QED BY <1>1, <1>2, <1>4, <1>5, <1>6 DEF WholeInv, RoundsWhole
LEMMA PushWhole == ASSUME Inv, WholeInv, NEW b \in BOOLEAN, Push(b) PROVE WholeInv'
<1>1. /\ pc # "ended" /\ sent' = sent + 1 /\ queue' = Append(queue, sent + 1)
      /\ UNCHANGED <<pc, step, session, roundVars, memory, answer_as, finish>>
  BY DEF Push
<1>2. RunTypes' /\ Dated' /\ Listed' /\ Started' /\ Endings'
  <2>1. sent' \in Nat
    BY <1>1, WholeTypes
  <2> QED BY <1>1, <2>1 DEF WholeInv, RunTypes, Dated, Listed, Started, Endings, InRound, Outside, Settled,
                           roundVars, memory
<1>3. Heard(session, queue, sent)'
  <2>1. PICK heard \in 0 .. sent :
          /\ {session[k].n : k \in UsersIn(session)} = 1 .. heard
          /\ \A j, k \in UsersIn(session) : j < k => session[j].n < session[k].n
          /\ queue = [k \in 1 .. sent - heard |-> heard + k]
    BY DEF WholeInv, Heard
  <2>2. heard \in 0 .. sent' /\ queue' = [k \in 1 .. sent' - heard |-> heard + k]
    <3> DEFINE m == sent - heard
    <3>0. sent \in Nat /\ heard \in Nat /\ heard <= sent /\ sent' = sent + 1
      BY <1>1, WholeTypes
    <3>1. m \in Nat /\ sent' - heard = m + 1 /\ heard + (m + 1) = sent + 1 /\ heard \in 0 .. sent'
      BY <3>0
    <3>2. queue = [k \in 1 .. m |-> heard + k]
      BY <2>1
    <3> HIDE DEF m
    <3>3. queue \in Seq(Nat) /\ Len(queue) = m
      BY <3>1, <3>2
    <3>4. queue' = [k \in 1 .. m + 1 |-> heard + k]
      <4>1. DOMAIN queue' = 1 .. m + 1 /\ queue' = [k \in DOMAIN queue' |-> queue'[k]]
        BY <1>1, <3>1, <3>3, WholeTypes
      <4>2. \A k \in 1 .. m + 1 : queue'[k] = heard + k
        <5>1. \A k \in 1 .. m + 1 : queue'[k] = IF k = m + 1 THEN sent + 1 ELSE queue[k]
          BY <1>1, <3>0, <3>1, <3>3
        <5>2. \A k \in 1 .. m + 1 : k # m + 1 => k \in 1 .. m
          BY <3>1
        <5> QED BY <3>1, <3>2, <5>1, <5>2
      <4> QED BY <4>1, <4>2
    <3> QED BY <3>1, <3>4
  <2>3. Heard(session, queue', sent')
    BY <2>1, <2>2 DEF Heard
  <2> QED BY <1>1, <2>3
<1>4. RoundsWhole'
  <2>1. \A s : Answered(s)' = Answered(s) /\ CalledIn(s)' = CalledIn(s)
    BY <1>1 DEF Answered, CalledIn
  <2> QED BY <1>1, <2>1 DEF WholeInv, RoundsWhole, InCallOrder, NothingForgotten, RecordedUpToFailure,
                            roundVars, memory
<1> QED BY <1>2, <1>3, <1>4 DEF WholeInv

\* All that waits is heard.
LEMMA BoundaryWhole == ASSUME Inv, WholeInv, Boundary PROVE WholeInv'
<1>1. /\ pc = "boundary" /\ UNCHANGED <<step, sent, roundVars, memory, answer_as, mcpVars>>
  BY DEF Boundary
<1>2. CASE Ended("budget") /\ UNCHANGED <<session, queue>>
  BY <1>1, <1>2, EndsWhole DEF Ended, roundVars, memory
<1>3. CASE /\ session' = session \o [k \in DOMAIN queue |-> User(queue[k])] /\ queue' = <<>>
           /\ pc' = "generating" /\ UNCHANGED finish
  <2> DEFINE tail == [k \in DOMAIN queue |-> User(queue[k])]
  <2>1. PICK heard \in 0 .. sent :
          /\ {session[k].n : k \in UsersIn(session)} = 1 .. heard
          /\ \A j, k \in UsersIn(session) : j < k => session[j].n < session[k].n
          /\ queue = [k \in 1 .. sent - heard |-> heard + k]
    BY DEF WholeInv, Heard
  <2>2. sent - heard \in Nat /\ DOMAIN tail = 1 .. sent - heard /\ Len(queue) = sent - heard
    BY <2>1, WholeTypes
  <2>3. \A k \in DOMAIN tail : heard + k \in Nat /\ tail[k] = User(heard + k)
    BY <2>1, <2>2, WholeTypes
  <2>4. tail \in Seq(Messages) /\ Len(tail) = sent - heard
    <3>1. \A k \in DOMAIN tail : tail[k] \in Messages
      BY <2>3, MessagesAre
    <3>2. tail = [k \in DOMAIN tail |-> tail[k]]
      OBVIOUS
    <3> HIDE DEF tail
    <3> QED BY <2>2, <3>1, <3>2
  <2>5. Grows(tail)
    BY <1>3, <2>4, WholeTypes DEF Grows
  <2>6. \A k \in DOMAIN tail : ~OfStep(tail[k]) /\ tail[k].what = "user" /\ tail[k].n = heard + k
    BY <2>3, MessagesAre
  <2> HIDE DEF tail
  <2>7. Heard(session', queue', sent')
    <3> DEFINE l == Len(session)
    <3>1. /\ UsersIn(session') = UsersIn(session) \cup {l + k : k \in DOMAIN tail}
          /\ \A k \in UsersIn(session) : k <= l /\ session'[k] = session[k]
          /\ \A k \in DOMAIN tail : session'[l + k] = tail[k] /\ session'[l + k].n = heard + k
      <4>1. /\ \A k \in DOMAIN session : k <= l /\ k \in DOMAIN session' /\ session'[k] = session[k]
            /\ \A k \in DOMAIN tail : l + k \in DOMAIN session' /\ session'[l + k] = tail[k]
            /\ \A k \in DOMAIN session' : \/ k \in DOMAIN session
                                          \/ k - l \in DOMAIN tail /\ session'[k] = tail[k - l] /\ k = l + (k - l)
        BY <2>5, GrownIs, WholeTypes
      <4> HIDE DEF l
      <4> QED BY <2>6, <4>1 DEF UsersIn
    <3>2. \A k \in UsersIn(session) : session[k].n \in 1 .. heard
      BY <2>1
    <3>3. {session'[k].n : k \in UsersIn(session')} = 1 .. sent
      <4>1. \A k \in UsersIn(session') : session'[k].n \in 1 .. sent
        <5> SUFFICES ASSUME NEW k \in UsersIn(session') PROVE session'[k].n \in 1 .. sent
          OBVIOUS
        <5>1. CASE k \in UsersIn(session)
          BY <3>1, <3>2, <5>1, WholeTypes
        <5>2. CASE k \in {l + j : j \in DOMAIN tail}
          <6>1. PICK j \in DOMAIN tail : k = l + j
            BY <5>2
          <6> QED BY <2>2, <3>1, <6>1, WholeTypes
        <5> QED BY <3>1, <5>1, <5>2
      <4>2. \A x \in 1 .. sent : \E k \in UsersIn(session') : session'[k].n = x
        <5> SUFFICES ASSUME NEW x \in 1 .. sent PROVE \E k \in UsersIn(session') : session'[k].n = x
          OBVIOUS
        <5>1. CASE x <= heard
          <6>1. x \in 1 .. heard
            BY <5>1
          <6>2. PICK k \in UsersIn(session) : session[k].n = x
            BY <2>1, <6>1
          <6> QED BY <3>1, <6>2
        <5>2. CASE x > heard
          <6>1. x - heard \in DOMAIN tail /\ heard + (x - heard) = x
            BY <2>2, <5>2, WholeTypes
          <6>2. l + (x - heard) \in UsersIn(session')
            BY <3>1, <6>1
          <6> QED BY <3>1, <6>1, <6>2
        <5> QED BY <5>1, <5>2
      <4> QED BY <4>1, <4>2
    <3>4. \A j, k \in UsersIn(session') : j < k => session'[j].n < session'[k].n
      <4> SUFFICES ASSUME NEW j \in UsersIn(session'), NEW k \in UsersIn(session'), j < k
                   PROVE  session'[j].n < session'[k].n
        OBVIOUS
      <4>0. l \in Nat /\ \A x \in UsersIn(session) : x \in Nat
        BY WholeTypes DEF UsersIn
      <4>1. CASE j \in UsersIn(session) /\ k \in UsersIn(session)
        BY <2>1, <3>1, <4>1
      <4>2. ASSUME NEW y \in DOMAIN tail, k = l + y PROVE session'[j].n < session'[k].n
        <5>1. CASE j \in UsersIn(session)
          <6>1. session'[j].n \in 1 .. heard /\ session'[k].n = heard + y
            BY <3>1, <3>2, <4>2, <5>1
          <6> QED BY <2>2, <6>1
        <5>2. ASSUME NEW x \in DOMAIN tail, j = l + x PROVE session'[j].n < session'[k].n
          <6>1. session'[j].n = heard + x /\ session'[k].n = heard + y
            BY <3>1, <4>2, <5>2
          <6>2. x < y
            <7> HIDE DEF l
            <7> QED BY <2>2, <4>0, <4>2, <5>2
          <6> QED BY <2>2, <6>1, <6>2
        <5> QED BY <3>1, <5>1, <5>2
      <4>3. ASSUME NEW x \in DOMAIN tail, j = l + x, k \in UsersIn(session) PROVE FALSE
        <5>1. k <= l /\ k \in Nat /\ x \in Nat /\ x > 0
          BY <2>2, <3>1, <4>0, <4>3
        <5> HIDE DEF l
        <5> QED BY <4>0, <4>3, <5>1
      <4> QED BY <3>1, <4>1, <4>2, <4>3
    <3>5. queue' = [k \in 1 .. sent' - sent |-> sent + k] /\ sent' = sent /\ sent \in 0 .. sent
      BY <1>1, <1>3, WholeTypes
    <3> QED BY <3>3, <3>4, <3>5 DEF Heard
  <2>8. Endings'
    BY <1>1, <1>3 DEF WholeInv, Endings
  <2> QED BY <1>1, <1>3, <2>5, <2>6, <2>7, <2>8, TalkKeeps DEF Outside, WholeInv, Endings
<1> QED BY <1>2, <1>3 DEF Boundary

LEMMA TurnIsLostWhole == ASSUME Inv, WholeInv, TurnIsLost PROVE WholeInv'
<1>1. PICK how \in {"error", "budget"} : Ended(how)
  BY DEF TurnIsLost
<1> QED BY <1>1, EndsWhole DEF TurnIsLost, Ended, sessionVars, roundVars, memory

LEMMA TurnAnswersWhole == ASSUME Inv, WholeInv, TurnAnswers PROVE WholeInv'
<1>1. /\ pc = "generating" /\ finish = "none"
      /\ UNCHANGED <<queue, sent, roundVars, memory, answer_as>>
  BY DEF TurnAnswers, WholeInv, Endings
<1>2. ASSUME NEW tail, tail \in {<<Said>>, <<Said, Instruction>>}
      PROVE  /\ tail \in Seq(Messages)
             /\ \A k \in DOMAIN tail : ~OfStep(tail[k]) /\ tail[k].what # "user"
  <2>1. Said \in Messages /\ Instruction \in Messages
    BY MessagesAre
  <2>2. tail \in Seq(Messages) /\ \A k \in DOMAIN tail : tail[k] \in {Said, Instruction}
    <3>1. CASE tail = <<Said>>
      BY <2>1, <3>1
    <3>2. CASE tail = <<Said, Instruction>>
      BY <2>1, <3>2
    <3> QED BY <1>2, <3>1, <3>2
  <2> QED BY <2>2, MessagesAre
<1>3. CASE IsPending
  <2>1. pc' = "boundary" /\ step' = step + 1 /\ session' = Append(session, Said) /\ UNCHANGED finish
    BY <1>3 DEF TurnAnswers
  <2>2. Grows(<<Said>>)
    <3>1. session' = session \o <<Said>>
      BY SMTT(30), <2>1, WholeTypes, Appends, MessagesAre
    <3> QED BY <1>2, <3>1, WholeTypes DEF Grows
  <2>3. Endings'
    BY <1>1, <2>1 DEF Endings
  <2>4. Heard(session', queue', sent')
    BY <1>1, <1>2, <2>2, SameUsers DEF WholeInv
  <2> QED BY <1>1, <1>2, <2>1, <2>2, <2>3, <2>4, TalkKeeps DEF Outside
<1>4. CASE ~IsPending /\ answer_as
  <2>1. pc' = "shaping" /\ session' = session \o <<Said, Instruction>> /\ UNCHANGED <<step, finish>>
    BY <1>4 DEF TurnAnswers
  <2>2. Grows(<<Said, Instruction>>)
    BY <1>2, <2>1, WholeTypes DEF Grows
  <2>3. Endings'
    <3> DEFINE two == <<Said, Instruction>>
    <3>1. Len(two) = 2 /\ 2 \in DOMAIN two /\ two[2] = Instruction
      OBVIOUS
    <3> HIDE DEF two
    <3>2. Len(session') = Len(session) + 2 /\ session'[Len(session) + 2] = Instruction
      BY <2>2, <3>1, GrownIs DEF two
    <3>3. session' # <<>>
      BY <3>2, WholeTypes
    <3> QED BY <1>1, <1>4, <2>1, <3>2, <3>3 DEF Endings
  <2>4. Heard(session', queue', sent')
    BY <1>1, <1>2, <2>2, SameUsers DEF WholeInv
  <2> QED BY <1>1, <1>2, <2>1, <2>2, <2>3, <2>4, TalkKeeps DEF Outside
<1>5. CASE ~IsPending /\ ~answer_as
  <2>1. pc' = "ended" /\ finish' = "answered" /\ session' = Append(session, Said) /\ UNCHANGED step
    BY <1>5 DEF TurnAnswers, Ended
  <2>2. Grows(<<Said>>)
    <3>1. session' = session \o <<Said>>
      BY <2>1, WholeTypes, Appends, MessagesAre
    <3> QED BY <1>2, <3>1, WholeTypes DEF Grows
  <2>3. Endings'
    BY <1>1, <1>5, <2>1 DEF Endings, IsPending
  <2>4. Heard(session', queue', sent')
    BY <1>1, <1>2, <2>2, SameUsers DEF WholeInv
  <2> QED BY <1>1, <1>2, <2>1, <2>2, <2>3, <2>4, TalkKeeps DEF Outside
<1> QED BY <1>3, <1>4, <1>5

LEMMA ShapedWhole == ASSUME Inv, WholeInv, Shaped PROVE WholeInv'
<1>1. /\ pc = "shaping" /\ finish = "none" /\ answer_as /\ pc' = "ended"
      /\ UNCHANGED <<step, queue, sent, roundVars, memory, answer_as>>
  BY DEF Shaped, Ended, WholeInv, Endings
<1>2. CASE Ended("error") /\ UNCHANGED session
  BY <1>1, <1>2, EndsWhole DEF Ended, roundVars, memory
<1>3. CASE Ended("answered") /\ session' = Append(session, Said)
  <2>1. Grows(<<Said>>)
    BY <1>3, WholeTypes, Appends, MessagesAre DEF Grows
  <2>2. \A k \in DOMAIN <<Said>> : ~OfStep(<<Said>>[k]) /\ <<Said>>[k].what # "user"
    BY MessagesAre
  <2>3. Endings'
    BY <1>1, <1>3 DEF Endings, Ended
  <2>4. Heard(session', queue', sent')
    BY <1>1, <2>1, <2>2, SameUsers DEF WholeInv
  <2> QED BY <1>1, <1>3, <2>1, <2>2, <2>3, <2>4, TalkKeeps DEF Outside, Ended
<1> QED BY <1>2, <1>3 DEF Shaped
LEMMA TurnCallsWhole == ASSUME Inv, WholeInv, NEW tools \in Rounds, TurnCalls(tools) PROVE WholeInv'
<1>1. /\ pc = "generating" /\ pc' = "calls" /\ session' = Append(session, Called(step, Len(tools)))
      /\ calls' = tools
      /\ UNCHANGED <<step, queue, sent, interrupts, next, batch, then, running, outcome, results,
                     memory, answer_as, finish>>
  BY DEF TurnCalls
<1>2. Len(tools) \in Nat
  <2>1. PICK n \in 1 .. MaxCalls : tools \in [1 .. n -> Tools]
    BY AgentAssumption
  <2> QED BY <2>1, CallsAre
<1> DEFINE c == Called(step, Len(tools))  tail == <<c>>
<1>3. c \in Messages /\ OfStep(c) /\ c.what = "calls" /\ c.step = step
  BY <1>2, WholeTypes, MessagesAre
<1>4. /\ Grows(tail) /\ Len(tail) = 1 /\ DOMAIN tail = 1 .. 1 /\ tail[1] = c
  <2> HIDE DEF c
  <2> QED BY <1>1, <1>3, WholeTypes, Appends DEF Grows, c
<1> DEFINE l == Len(session)
<1>5. /\ session' \in Seq(Messages) /\ Len(session') = l + 1 /\ session'[l + 1] = c /\ l \in Nat
      /\ DOMAIN session = 1 .. l /\ DOMAIN session' = 1 .. l + 1
      /\ \A k \in DOMAIN session : k \in DOMAIN session' /\ session'[k] = session[k]
      /\ \A k \in DOMAIN session' : k \in DOMAIN session \/ k = l + 1
  <2>1. session' \in Seq(Messages) /\ Len(session') = l + 1 /\ session'[l + 1] = c /\ l \in Nat
    <3> HIDE DEF c, tail
    <3>1. 1 \in DOMAIN tail /\ l \in Nat
      BY <1>4, WholeTypes
    <3> QED BY <1>4, <3>1, GrownIs
  <2>2. DOMAIN session = 1 .. l /\ DOMAIN session' = 1 .. Len(session')
    BY <2>1, WholeTypes
  <2>3. \A k \in DOMAIN session : k \in DOMAIN session' /\ session'[k] = session[k]
    BY <1>4, GrownIs
  <2> HIDE DEF l, c, tail
  <2> QED BY <2>1, <2>2, <2>3
<1>6. \A k \in DOMAIN session : OfStep(session[k]) => session[k].step \in 0 .. step /\ session[k].step < step
  BY <1>1 DEF WholeInv, Dated, Outside
<1>7. InRound' /\ ~Outside' /\ Outside /\ pc' # "record"
  BY <1>1 DEF InRound, Outside
<1>8. RunTypes'
  BY <1>1, <1>5 DEF WholeInv, RunTypes
<1>9. Dated'
  <2>1. \A k \in DOMAIN session' : OfStep(session'[k]) =>
          session'[k].step \in 0 .. step /\ (k # l + 1 => session'[k].step < step)
    <3> HIDE DEF c, l
    <3> QED BY <1>3, <1>5, <1>6, WholeTypes
  <2>2. session' # <<>> /\ session'[Len(session')] = Called(step, Len(calls'))
    BY <1>1, <1>5
  <2> HIDE DEF l
  <2> QED BY <1>1, <1>5, <1>7, <2>1, <2>2 DEF Dated
<1>10. Listed'
  <2>1. next = 1 /\ batch = {} /\ results = <<>> /\ \A i \in Calls : ~Settled(i)
    BY <1>1 DEF WholeInv, Listed, Inv, LoopInv, Scheduled
  <2>2. Distinct(results) /\ ToSet(results) = {} /\ {j \in Calls : j < next} = {}
    BY <2>1, CallsAre DEF Distinct, ToSet
  <2> QED BY <1>1, <1>2, <2>1, <2>2 DEF Listed, Settled, InRound
<1>11. Started'
  BY <1>1, <1>7, WholeTypes DEF WholeInv, Started, memory
<1>12. Endings'
  BY <1>1 DEF WholeInv, Endings
<1>13. Heard(session', queue', sent')
  <2>1. \A k \in DOMAIN tail : tail[k].what # "user"
    BY <1>3, <1>4
  <2> HIDE DEF tail
  <2> QED BY <1>1, <1>4, <2>1, SameUsers DEF WholeInv
<1>14. InCallOrder'
  <2>1. \A k \in DOMAIN session' : session'[k].what = "result" =>
          /\ k > 1 /\ session'[k - 1].what \in {"calls", "result"}
          /\ session'[k - 1].step = session'[k].step
          /\ session'[k].i = IF session'[k - 1].what = "calls" THEN 1 ELSE session'[k - 1].i + 1
    <3> SUFFICES ASSUME NEW k \in DOMAIN session', session'[k].what = "result"
                 PROVE  /\ k > 1 /\ session'[k - 1].what \in {"calls", "result"}
                        /\ session'[k - 1].step = session'[k].step
                        /\ session'[k].i = IF session'[k - 1].what = "calls" THEN 1 ELSE session'[k - 1].i + 1
      OBVIOUS
    <3>1. k \in DOMAIN session /\ session'[k] = session[k]
      <4> HIDE DEF c, l
      <4> QED BY <1>3, <1>5
    <3>2. k > 1 /\ k - 1 \in DOMAIN session
      BY <3>1, WholeTypes DEF WholeInv, RoundsWhole, InCallOrder
    <3>3. session'[k - 1] = session[k - 1]
      BY <1>5, <3>2
    <3> QED BY <3>1, <3>2, <3>3 DEF WholeInv, RoundsWhole, InCallOrder
  <2>2. \A j, k \in DOMAIN session' :
          session'[j].what = "calls" /\ session'[k].what = "calls" /\ session'[j].step = session'[k].step => j = k
    <3> SUFFICES ASSUME NEW j \in DOMAIN session', NEW k \in DOMAIN session',
                        session'[j].what = "calls", session'[k].what = "calls", session'[j].step = session'[k].step
                 PROVE  j = k
      OBVIOUS
    <3>1. CASE j \in DOMAIN session /\ k \in DOMAIN session
      BY <1>5, <3>1 DEF WholeInv, RoundsWhole, InCallOrder
    <3>2. ASSUME NEW x \in DOMAIN session, session[x].what = "calls", session[x].step = step PROVE FALSE
      BY <1>6, <3>2, WholeTypes DEF OfStep
    <3> HIDE DEF c, l
    <3>3. CASE j \in DOMAIN session /\ k = l + 1
      BY <1>3, <1>5, <3>2, <3>3
    <3>4. CASE j = l + 1 /\ k \in DOMAIN session
      BY <1>3, <1>5, <3>2, <3>4
    <3> QED BY <1>5, <3>1, <3>3, <3>4
  <2> QED BY <2>1, <2>2 DEF InCallOrder
<1>15. NothingForgotten'
  <2> SUFFICES ASSUME NEW s \in 0 .. step - 1, NEW n \in CalledIn(s)'
               PROVE  /\ {i \in Calls : <<s, i>> \in ran'} \subseteq Answered(s)'
                      /\ s \notin interrupted' => Answered(s)' = 1 .. n
    BY <1>1 DEF NothingForgotten
  <2>1. s # step
    BY WholeTypes
  <2>2. Answered(s)' = Answered(s) /\ CalledIn(s)' = CalledIn(s)
    <3>1. \A k \in DOMAIN tail : OfStep(tail[k]) => tail[k].step # s
      BY <1>3, <1>4, <2>1
    <3> HIDE DEF tail
    <3> QED BY <1>4, <3>1, SameOfStep
  <2> QED BY <1>1, <2>2 DEF WholeInv, RoundsWhole, NothingForgotten, memory
<1>16. RecordedUpToFailure'
  BY <1>1 DEF WholeInv, Endings, RecordedUpToFailure
<1> QED BY <1>8, <1>9, <1>10, <1>11, <1>12, <1>13, <1>14, <1>15, <1>16 DEF WholeInv, RoundsWhole

LEMMA ConsiderWhole == ASSUME Inv, WholeInv, Consider PROVE WholeInv'
<1>1. /\ pc = "calls" /\ UNCHANGED <<sessionVars, calls, running, outcome, results, ran>>
  BY DEF Consider
<1>2. InRound /\ ~Outside /\ finish = "none"
  BY <1>1 DEF InRound, Outside, WholeInv, Endings
<1>3. CASE next > Len(calls) \/ InterruptPending
  <2>1. /\ pc' = "batch" /\ then' = "record" /\ UNCHANGED <<next, batch, finish>>
        /\ interrupted' = IF next <= Len(calls) THEN interrupted \cup {step} ELSE interrupted
    BY <1>3 DEF Consider
  <2>2. next > Len(calls) \/ step \in interrupted'
    BY <2>1, WholeTypes
  <2>3. InRound' /\ ~Outside'
    BY <2>1 DEF InRound, Outside
  <2>4. Listed'
    BY <1>1, <1>2, <2>1, <2>2 DEF WholeInv, Listed, Settled, sessionVars
  <2>5. Started'
    BY <1>1, <1>2, <2>1, <2>3 DEF WholeInv, Started, sessionVars
  <2> QED BY <1>1, <1>2, <2>1, <2>3, <2>4, <2>5, GoesOn, WholeTypes DEF sessionVars
<1>4. CASE ~ (next > Len(calls) \/ InterruptPending)
  <2>1. UNCHANGED interrupted /\ next <= Len(calls)
    <3>1. UNCHANGED interrupted
      BY <1>4 DEF Consider
    <3>2. next \in Nat /\ Len(calls) \in Nat /\ ~ (next > Len(calls))
      BY <1>4, WholeTypes
    <3> QED BY <3>1, <3>2
  <2>2. CASE Circles
    BY <1>1, <1>4, <2>1, <2>2, EndsWhole DEF Consider, Ended, sessionVars
  <2>3. CASE ~Circles /\ Solo(calls[next])
    <3>1. pc' = "batch" /\ then' = "solo" /\ UNCHANGED <<next, batch, finish>>
      BY <1>4, <2>3 DEF Consider
    <3>2. InRound' /\ ~Outside'
      BY <3>1 DEF InRound, Outside
    <3>3. Listed'
      BY <1>1, <1>2, <2>1, <3>1 DEF WholeInv, Listed, Settled, sessionVars
    <3>4. Started'
      BY <1>1, <1>2, <3>1, <3>2 DEF WholeInv, Started, sessionVars
    <3> QED BY <1>1, <1>2, <2>1, <3>1, <3>2, <3>3, <3>4, GoesOn, WholeTypes DEF sessionVars
  <2>4. CASE ~Circles /\ ~Solo(calls[next])
    <3>1. batch' = batch \cup {next} /\ next' = next + 1 /\ UNCHANGED <<pc, then, finish>>
      BY <1>4, <2>4 DEF Consider
    <3>2. InRound' /\ ~Outside'
      BY <1>1, <3>1 DEF InRound, Outside
    <3>3. /\ next \in Nat /\ next <= Len(calls) + 1 /\ \A i \in Calls : i < next => i < next + 1 /\ i # next
          /\ \A i \in Calls : i < next + 1 => i < next \/ i = next
      BY WholeTypes, <2>1
    <3>4. {j \in Calls : j < next'} \ batch' = {j \in Calls : j < next} \ batch
      BY <3>1, <3>3
    <3>5. Listed'
      <4>1. next' <= Len(calls') + 1
        BY <1>1, <2>1, <3>1, WholeTypes
      <4>2. /\ Distinct(results) /\ ToSet(results) = {j \in Calls : j < next} \ batch
            /\ \A i \in ToSet(results) : Settled(i)
            /\ \A i \in Calls : Settled(i) => i < next'
        BY <1>2, <3>1, <3>3 DEF WholeInv, Listed
      <4> QED BY <1>1, <3>1, <3>4, <4>1, <4>2 DEF Listed, Settled
    <3>6. Started'
      BY <1>1, <1>2, <3>1, <3>2, <3>3 DEF WholeInv, Started, sessionVars
    <3> QED BY <1>1, <1>2, <2>1, <3>1, <3>2, <3>5, <3>6, GoesOn, WholeTypes DEF sessionVars
  <2> QED BY <2>2, <2>3, <2>4
<1> QED BY <1>3, <1>4

\* Calls of this round are started: those before the loop's index.
LEMMA BeginStarts ==
    ASSUME Inv, WholeInv, InRound, NEW is \in SUBSET Calls, ran' = ran \cup {<<step, i>> : i \in is},
           step' = step, InRound', next' \in Nat, next <= next', \A i \in is : i < next'
    PROVE  /\ Started'
           /\ \A s \in Nat, i \in Calls : s < step => (<<s, i>> \in ran <=> <<s, i>> \in ran')
<1>1. \A s \in Nat, i \in Calls : <<s, i>> \in ran' => <<s, i>> \in ran \/ (s = step /\ i \in is)
  OBVIOUS
<1>2. ~Outside'
  BY DEF InRound, Outside
<1>3. Started'
  BY <1>1, <1>2, WholeTypes DEF WholeInv, Started
<1>4. \A s \in Nat, i \in Calls : s < step => (<<s, i>> \in ran <=> <<s, i>> \in ran')
  BY <1>1, WholeTypes
<1> QED BY <1>3, <1>4

LEMMA RunBatchWhole == ASSUME Inv, WholeInv, RunBatch PROVE WholeInv'
<1>1. PICK denied \in SUBSET Gated(batch) :
        /\ outcome' = [i \in Calls |-> IF i \in denied THEN "denied" ELSE outcome[i]]
        /\ results' = results \o Ascending(denied)
        /\ batch' = batch \ denied /\ pc' = "running"
        /\ ran' = ran \cup {<<step, i>> : i \in batch \ denied}
  BY DEF RunBatch, Begin
<1>2. /\ pc = "batch" /\ UNCHANGED <<step, session, queue, sent, answer_as, calls, next, then, interrupted, finish>>
  BY DEF RunBatch, sessionVars
<1>3. InRound /\ ~Outside /\ InRound' /\ ~Outside'
  BY <1>1, <1>2 DEF InRound, Outside
<1>4. /\ denied \in SUBSET Calls /\ denied \subseteq batch /\ \A i \in batch : i < next
  BY <1>2 DEF Gated, Inv, LoopInv, LoopTypes, Scheduled
<1>5. /\ next <= Len(calls) + 1 /\ Distinct(results) /\ ToSet(results) = {j \in Calls : j < next} \ batch
      /\ \A i \in ToSet(results) : Settled(i)
      /\ \A i \in Calls : Settled(i) => i < next
  BY <1>3 DEF WholeInv, Listed
<1>6. results' \in Seq(Calls) /\ Distinct(results') /\ ToSet(results') = ToSet(results) \cup denied
  BY <1>1, <1>4, <1>5, WholeTypes, TakesIn
<1>7. \A i \in Calls : Settled(i)' <=> Settled(i) \/ i \in denied
  BY <1>1 DEF Settled
<1>8. Listed'
  <2>1. ToSet(results)' = {j \in Calls : j < next'} \ batch'
    BY <1>1, <1>2, <1>4, <1>5, <1>6
  <2>2. /\ \A i \in ToSet(results)' : Settled(i)'
        /\ \A i \in Calls : Settled(i)' => i < next'
    <3>1. \A i \in ToSet(results)' : i \in Calls
      BY <2>1
    <3> QED BY <1>2, <1>4, <1>5, <1>6, <1>7, <3>1
  <2>3. Distinct(results)'
    BY <1>6
  <2> QED BY <1>1, <1>2, <1>5, <2>1, <2>2, <2>3 DEF WholeInv, Listed
<1>9. /\ Started'
      /\ \A s \in Nat, i \in Calls : s < step => (<<s, i>> \in ran <=> <<s, i>> \in ran')
  <2>1. batch \ denied \in SUBSET Calls
    BY WholeTypes
  <2>2. next' \in Nat /\ next <= next' /\ \A i \in batch \ denied : i < next'
    BY <1>2, <1>4, WholeTypes
  <2> QED BY <1>1, <1>2, <1>3, <2>1, <2>2, BeginStarts
<1> QED BY <1>1, <1>2, <1>3, <1>6, <1>8, <1>9, GoesOn

LEMMA RunSoloWhole == ASSUME Inv, WholeInv, RunSolo PROVE WholeInv'
<1>1. /\ pc = "solo" /\ next' = next + 1 /\ then' = "calls" /\ pc' \in {"calls", "running"}
      /\ UNCHANGED <<step, session, queue, sent, answer_as, calls, interrupted, finish>>
  BY DEF RunSolo, sessionVars, Begin
<1>2. InRound /\ ~Outside /\ InRound' /\ ~Outside'
  BY <1>1 DEF InRound, Outside
<1>3. /\ next <= Len(calls) /\ Distinct(results) /\ ToSet(results) = {j \in Calls : j < next} \ batch
      /\ \A i \in ToSet(results) : Settled(i)
      /\ \A i \in Calls : Settled(i) => i < next
  BY <1>1, <1>2 DEF WholeInv, Listed
<1>4. /\ batch = {} /\ next \in Calls /\ next + 1 \in Nat /\ next < next + 1 /\ next <= next + 1
      /\ \A i \in Calls : i < next + 1 <=> i < next \/ i = next
      /\ ~ (next < next) /\ next + 1 <= Len(calls) + 1
  BY <1>1, <1>3, WholeTypes DEF Inv, LoopInv, Scheduled
<1>5. ASSUME NEW out \in {"told", "denied"}, outcome' = [outcome EXCEPT ![next] = out],
             results' = Append(results, next), pc' = "calls", UNCHANGED <<batch, ran>>
      PROVE  WholeInv'
  <2>1. results' \in Seq(Calls) /\ Distinct(results') /\ ToSet(results') = ToSet(results) \cup {next}
    <3>1. results' \in Seq(Calls)
      BY <1>4, <1>5, WholeTypes
    <3>2. /\ DOMAIN results' = 1 .. Len(results) + 1 /\ DOMAIN results = 1 .. Len(results)
          /\ \A k \in DOMAIN results' : results'[k] = IF k \in DOMAIN results THEN results[k] ELSE next
          /\ Len(results) \in Nat
      BY <1>5, WholeTypes
    <3>3. \A k \in DOMAIN results : results[k] # next
      BY <1>3, <1>4 DEF ToSet
    <3>4. Distinct(results')
      BY <1>3, <3>2, <3>3 DEF Distinct
    <3>5. ToSet(results') = ToSet(results) \cup {next}
      <4>1. \A k \in DOMAIN results' : results'[k] \in ToSet(results) \cup {next}
        BY <3>2 DEF ToSet
      <4>2. \A x \in ToSet(results) : \E k \in DOMAIN results' : results'[k] = x
        <5>1. \A k \in DOMAIN results : k \in DOMAIN results' /\ results'[k] = results[k]
          BY <3>2
        <5> QED BY <5>1 DEF ToSet
      <4>3. Len(results) + 1 \in DOMAIN results' /\ results'[Len(results) + 1] = next
        BY <3>2
      <4>4. \A x : x \in ToSet(results') <=> \E k \in DOMAIN results' : results'[k] = x
        BY DEF ToSet
      <4> QED BY <4>1, <4>2, <4>3, <4>4
    <3> QED BY <3>1, <3>4, <3>5
  <2>2. \A i \in Calls : Settled(i)' <=> Settled(i) \/ i = next
    BY <1>4, <1>5, WholeTypes DEF Settled
  <2>3. ToSet(results)' = {j \in Calls : j < next'} \ batch'
    BY <1>1, <1>3, <1>4, <1>5, <2>1
  <2>4. /\ \A i \in ToSet(results)' : Settled(i)'
        /\ \A i \in Calls : Settled(i)' => i < next'
    <3>1. \A i \in ToSet(results)' : i \in Calls
      BY <2>3
    <3> QED BY <1>1, <1>3, <1>4, <2>1, <2>2, <3>1
  <2>5. Listed'
    BY <1>1, <1>4, <1>5, <2>1, <2>3, <2>4 DEF Listed
  <2>6. Started'
    BY <1>1, <1>2, <1>4, <1>5 DEF WholeInv, Started
  <2> QED BY <1>1, <1>2, <1>5, <2>1, <2>5, <2>6, GoesOn
<1>6. ASSUME Begin({next}), UNCHANGED <<outcome, results>> PROVE WholeInv'
  <2>1. /\ batch' = {next} /\ pc' = "running" /\ ran' = ran \cup {<<step, i>> : i \in {next}}
    BY <1>6 DEF Begin
  <2>2. {j \in Calls : j < next'} \ batch' = {j \in Calls : j < next} \ batch
    BY <1>1, <1>4, <2>1
  <2>3. \A i \in Calls : Settled(i)' => i < next'
    BY <1>1, <1>3, <1>4, <1>6 DEF Settled
  <2>4. Listed'
    BY <1>1, <1>3, <1>4, <1>6, <2>1, <2>2, <2>3 DEF Listed, Settled
  <2>5. /\ Started'
        /\ \A s \in Nat, i \in Calls : s < step => (<<s, i>> \in ran <=> <<s, i>> \in ran')
    <3>1. {next} \in SUBSET Calls /\ next' \in Nat /\ next <= next' /\ \A i \in {next} : i < next'
      BY <1>1, <1>4
    <3> QED BY <1>1, <1>2, <2>1, <3>1, BeginStarts
  <2>6. results' \in Seq(Calls)
    BY <1>6, WholeTypes
  <2> QED BY <1>1, <1>2, <2>1, <2>4, <2>5, <2>6, GoesOn
<1>7. \/ \E out \in {"told", "denied"} :
           /\ outcome' = [outcome EXCEPT ![next] = out] /\ results' = Append(results, next)
           /\ pc' = "calls" /\ UNCHANGED <<batch, ran>>
      \/ Begin({next}) /\ UNCHANGED <<outcome, results>>
  BY DEF RunSolo
<1> QED BY <1>5, <1>6, <1>7

LEMMA ReturnWhole == ASSUME Inv, WholeInv, NEW i \in Calls, Return(i) PROVE WholeInv'
<1>1. /\ pc = "running" /\ i \in running
      /\ UNCHANGED <<pc, step, session, queue, sent, answer_as, calls, next, batch, then, results, ran,
                     interrupted, finish>>
  BY DEF Return, sessionVars, memory
<1>2. PICK out \in {"told", "fatal"} : outcome' = [outcome EXCEPT ![i] = out]
  BY DEF Return
<1>3. InRound /\ ~Outside /\ InRound' /\ ~Outside'
  BY <1>1 DEF InRound, Outside
<1>4. i < next
  BY <1>1 DEF Inv, LoopInv, LoopTypes, Scheduled
<1>5. \A j \in Calls : Settled(j)' <=> Settled(j) \/ j = i
  BY <1>2, WholeTypes DEF Settled
<1>6. Listed'
  <2>1. /\ \A j \in ToSet(results) : j \in Calls /\ Settled(j)
        /\ \A j \in Calls : Settled(j) => j < next
    BY <1>3 DEF WholeInv, Listed
  <2> QED BY <1>1, <1>3, <1>4, <1>5, <2>1 DEF WholeInv, Listed
<1>7. Started'
  BY <1>1, <1>3 DEF WholeInv, Started
<1> QED BY <1>1, <1>3, <1>6, <1>7, GoesOn, WholeTypes

LEMMA PanicWhole == ASSUME Inv, WholeInv, NEW i \in Calls, Panic(i) PROVE WholeInv'
BY EndsWhole DEF Panic, Ended, sessionVars, memory

LEMMA GatherWhole == ASSUME Inv, WholeInv, Gather PROVE WholeInv'
<1>1. /\ pc = "running" /\ running = {} /\ results' = results \o Ascending(batch) /\ batch' = {} /\ pc' = then
      /\ UNCHANGED <<step, session, queue, sent, answer_as, calls, next, then, outcome, ran,
                     interrupted, finish>>
  BY DEF Gather, sessionVars, memory
<1>2. /\ then \in {"record", "solo", "calls"} /\ \A j \in Calls : j < next => Settled(j)
      /\ \A i \in batch : i < next
  BY <1>1 DEF Inv, LoopInv, Scheduled
<1>3. InRound /\ ~Outside /\ InRound' /\ ~Outside'
  BY <1>1, <1>2 DEF InRound, Outside
<1>4. /\ next <= Len(calls) + 1 /\ Distinct(results) /\ ToSet(results) = {j \in Calls : j < next} \ batch
      /\ \A i \in Calls : Settled(i) => i < next
      /\ then = "solo" => next <= Len(calls)
      /\ then = "record" => next > Len(calls) \/ step \in interrupted
  BY <1>1, <1>3 DEF WholeInv, Listed
<1>5. results' \in Seq(Calls) /\ Distinct(results') /\ ToSet(results') = ToSet(results) \cup batch
  BY <1>1, <1>4, WholeTypes, TakesIn
<1>6. ToSet(results)' = {j \in Calls : j < next} /\ \A j \in Calls : Settled(j)' <=> Settled(j)
  BY <1>1, <1>2, <1>4, <1>5, WholeTypes DEF Settled
<1>7. Listed'
  BY <1>1, <1>2, <1>4, <1>5, <1>6 DEF Listed
<1>8. Started'
  BY <1>1, <1>3 DEF WholeInv, Started
<1> QED BY <1>1, <1>2, <1>3, <1>5, <1>7, <1>8, GoesOn
\* The results of a round's first calls join the session after its turn.
LEMMA ResultsJoin ==
    ASSUME NEW y \in Nat, NEW n \in Nat, NEW u \in Nat, NEW tail, Grows(tail),
           Len(tail) = u, \A k \in 1 .. u : tail[k] = Result(y, k),
           session # <<>>, session[Len(session)] = Called(y, n), InCallOrder,
           \A k \in DOMAIN session : OfStep(session[k]) => session[k].step \in 0 .. y,
           \A k \in DOMAIN session : OfStep(session[k]) /\ k # Len(session) => session[k].step < y
    PROVE  /\ Answered(y)' = 1 .. u /\ CalledIn(y)' = {n} /\ InCallOrder'
           /\ \A k \in DOMAIN session' : OfStep(session'[k]) => session'[k].step \in 0 .. y
<1> DEFINE l == Len(session)
<1>1. /\ session \in Seq(Messages) /\ session' \in Seq(Messages)
      /\ l \in Nat /\ l > 0 /\ DOMAIN session = 1 .. l /\ session[l] = Called(y, n)
      /\ \A k \in 1 .. l : session'[k] = session[k]
      /\ DOMAIN tail = 1 .. u
  BY GrownIs DEF Grows
<1>2. DOMAIN session' = 1 .. l + u /\ \A k \in 1 .. u : session'[l + k] = Result(y, k)
  <2>1. Len(session') = l + u
    BY <1>1, GrownIs
  <2>2. \A k \in 1 .. u : session'[l + k] = tail[k]
    BY ZenonT(30), <1>1, GrownIs
  <2> QED BY <1>1, <2>1, <2>2
<1>3. /\ \A k \in 1 .. u : /\ session'[l + k].what = "result" /\ OfStep(session'[l + k])
                           /\ session'[l + k].step = y /\ session'[l + k].i = k
  <2> SUFFICES ASSUME NEW k \in 1 .. u
               PROVE  /\ session'[l + k].what = "result" /\ OfStep(session'[l + k])
                      /\ session'[l + k].step = y /\ session'[l + k].i = k
    OBVIOUS
  <2>1. k \in Nat /\ session'[l + k] = Result(y, k)
    BY <1>2
  <2> QED BY <2>1, MessagesAre
<1>4. /\ OfStep(session[l]) /\ session[l].what = "calls" /\ session[l].step = y /\ session[l].n = n
      /\ session'[l] = session[l] /\ l \in 1 .. l
  BY <1>1, MessagesAre
<1>5. \A k \in 1 .. l : OfStep(session[k]) /\ session[k].step = y => k = l
  <2> SUFFICES ASSUME NEW k \in 1 .. l, OfStep(session[k]), session[k].step = y, k # l PROVE FALSE
    OBVIOUS
  <2>1. session[k].step < y
    BY <1>1
  <2> QED BY <2>1
<1> HIDE DEF l
<1>6. /\ \A k \in 1 .. l + u : k \in 1 .. l \/ (k - l \in 1 .. u /\ k = l + (k - l) /\ k \notin 1 .. l)
      /\ \A k \in 1 .. u : l + k \in 1 .. l + u /\ l + k \notin 1 .. l
      /\ \A k \in 1 .. l : k \in 1 .. l + u
  BY <1>1
<1>7. Answered(y)' = 1 .. u
  <2> DEFINE R == {k \in DOMAIN session' : session'[k].what = "result" /\ session'[k].step = y}
  <2>1. \A k \in R : k - l \in 1 .. u /\ session'[k].i = k - l
    <3> SUFFICES ASSUME NEW k \in R PROVE k - l \in 1 .. u /\ session'[k].i = k - l
      OBVIOUS
    <3>1. k \notin 1 .. l
      BY <1>1, <1>4, <1>5 DEF OfStep
    <3>2. k - l \in 1 .. u /\ k = l + (k - l)
      BY <1>2, <1>6, <3>1
    <3> DEFINE d == k - l
    <3> HIDE DEF d
    <3>3. d \in 1 .. u /\ k = l + d
      BY <3>2 DEF d
    <3>4. session'[k].i = d
      BY <1>3, <3>3
    <3> QED BY <3>2, <3>4 DEF d
  <2>2. \A k \in 1 .. u : l + k \in R /\ session'[l + k].i = k
    BY <1>2, <1>3, <1>6
  <2>3. Answered(y)' = {session'[k].i : k \in R}
    BY DEF Answered
  <2> HIDE DEF R
  <2>4. \A x \in {session'[k].i : k \in R} : x \in 1 .. u
    BY <2>1
  <2>5. \A x \in 1 .. u : x \in {session'[k].i : k \in R}
    BY <2>2
  <2> QED BY <2>3, <2>4, <2>5
<1>8. CalledIn(y)' = {n}
  <2> DEFINE C == {k \in DOMAIN session' : session'[k].what = "calls" /\ session'[k].step = y}
  <2>1. \A k \in C : k = l
    <3> SUFFICES ASSUME NEW k \in C PROVE k = l
      OBVIOUS
    <3>1. CASE k \in 1 .. l
      BY <1>1, <1>5, <3>1 DEF OfStep
    <3>2. CASE k \notin 1 .. l
      <4> DEFINE d == k - l
      <4>1. d \in 1 .. u /\ k = l + d
        BY <1>2, <1>6, <3>2
      <4> HIDE DEF d
      <4> QED BY <1>3, <4>1
    <3> QED BY <3>1, <3>2
  <2>2. l \in C /\ session'[l].n = n
    BY <1>2, <1>4, <1>6
  <2>3. CalledIn(y)' = {session'[k].n : k \in C}
    BY DEF CalledIn
  <2> HIDE DEF C
  <2> QED BY <2>1, <2>2, <2>3
<1>9. \A k \in DOMAIN session' : OfStep(session'[k]) => session'[k].step \in 0 .. y
  <2> SUFFICES ASSUME NEW k \in DOMAIN session', OfStep(session'[k]) PROVE session'[k].step \in 0 .. y
    OBVIOUS
  <2>1. CASE k \in 1 .. l
    BY <1>1, <2>1
  <2>2. CASE k \notin 1 .. l
    <3> DEFINE d == k - l
    <3>1. d \in 1 .. u /\ k = l + d
      BY <1>2, <1>6, <2>2
    <3> HIDE DEF d
    <3> QED BY <1>3, <3>1
  <2> QED BY <2>1, <2>2
<1>10. InCallOrder'
  <2>1. ASSUME NEW k \in DOMAIN session', session'[k].what = "result"
        PROVE  /\ k > 1 /\ session'[k - 1].what \in {"calls", "result"}
               /\ session'[k - 1].step = session'[k].step
               /\ session'[k].i = IF session'[k - 1].what = "calls" THEN 1 ELSE session'[k - 1].i + 1
    <3>1. CASE k \in 1 .. l
      <4>1. session'[k] = session[k] /\ k > 1 /\ k - 1 \in 1 .. l
        BY <1>1, <2>1, <3>1 DEF InCallOrder
      <4>2. session'[k - 1] = session[k - 1]
        BY <1>1, <4>1
      <4> QED BY <1>1, <2>1, <3>1, <4>1, <4>2 DEF InCallOrder
    <3>2. CASE k \notin 1 .. l
      <4> DEFINE d == k - l
      <4>1. d \in 1 .. u /\ k = l + d /\ k > 1
        BY <1>1, <1>2, <1>6, <3>2
      <4>2. CASE d = 1
        <5>1. k - 1 = l
          BY <1>1, <4>1, <4>2
        <5>2. /\ session'[k].step = y /\ session'[k].i = d
              /\ session'[l].what = "calls" /\ session'[l].step = y
          <6> HIDE DEF d
          <6> QED BY <1>3, <1>4, <4>1
        <5>3. session'[k - 1] = session'[l]
          BY <5>1
        <5> HIDE DEF d
        <5> QED BY <4>1, <4>2, <5>2, <5>3
      <4>3. CASE d # 1
        <5>1. d - 1 \in 1 .. u /\ k - 1 = l + (d - 1) /\ (d - 1) + 1 = d
          BY <1>1, <4>1, <4>3
        <5> DEFINE e == d - 1
        <5>2. e \in 1 .. u /\ k - 1 = l + e /\ e + 1 = d
          BY <5>1
        <5> HIDE DEF d, e
        <5>3. /\ session'[k - 1].what = "result" /\ session'[k - 1].step = y /\ session'[k - 1].i = e
              /\ session'[k].step = y /\ session'[k].i = d
          BY <1>3, <4>1, <5>2
        <5> QED BY <4>1, <5>2, <5>3
      <4> QED BY <4>2, <4>3
    <3> QED BY <3>1, <3>2
  <2>2. ASSUME NEW j \in DOMAIN session', NEW k \in DOMAIN session',
               session'[j].what = "calls", session'[k].what = "calls", session'[j].step = session'[k].step
        PROVE  j = k
    <3>1. \A x \in DOMAIN session' : session'[x].what = "calls" => x \in 1 .. l
      <4> SUFFICES ASSUME NEW x \in DOMAIN session', session'[x].what = "calls", x \notin 1 .. l PROVE FALSE
        OBVIOUS
      <4> DEFINE d == x - l
      <4>1. d \in 1 .. u /\ x = l + d
        BY <1>2, <1>6
      <4> HIDE DEF d
      <4> QED BY <1>3, <4>1
    <3>2. j \in 1 .. l /\ k \in 1 .. l
      BY <2>2, <3>1
    <3> QED BY <1>1, <2>2, <3>2 DEF InCallOrder
  <2> QED BY <2>1, <2>2 DEF InCallOrder
<1> QED BY <1>7, <1>8, <1>9, <1>10

\* The results that Record takes: those of the first calls, in their order, all
\* of them or those before the first that ends the run.
LEMMA RecordTakes ==
    ASSUME Inv, WholeInv, Record
    PROVE  \E u \in 0 .. next - 1, tail \in Seq(Messages) :
             /\ Grows(tail) /\ Len(tail) = u /\ \A k \in 1 .. u : tail[k] = Result(step, k)
             /\ \/ /\ pc' = "boundary" /\ step' = step + 1 /\ NoRound /\ UNCHANGED finish
                   /\ u = next - 1
                \/ /\ pc' = "ended" /\ finish' = "tool_failed" /\ UNCHANGED <<step, roundVars>>
                   /\ u + 1 \in Calls /\ outcome[u + 1] \in {"fatal", "denied"}
                   /\ \A j \in 1 .. u : outcome[j] = "told"
<1> DEFINE bad == {i \in Calls : outcome[i] \in {"fatal", "denied"}}
           sorted == Sorted(results)
           upto == IF bad = {} THEN Len(sorted) ELSE Min({k \in DOMAIN sorted : sorted[k] \in bad}) - 1
           tail == [k \in 1 .. upto |-> Result(step, sorted[k])]
           m == next - 1
<1>1. /\ pc = "record" /\ session' = session \o tail
      /\ IF bad # {} THEN pc' = "ended" /\ finish' = "tool_failed" /\ UNCHANGED <<step, roundVars>>
         ELSE pc' = "boundary" /\ step' = step + 1 /\ NoRound /\ UNCHANGED finish
  BY DEF Record, Ended
<1>2. InRound /\ batch = {}
  BY <1>1 DEF InRound, WholeInv, Listed
<1>3. /\ next <= Len(calls) + 1 /\ Distinct(results) /\ ToSet(results) = {j \in Calls : j < next}
      /\ \A i \in ToSet(results) : Settled(i)
      /\ \A i \in Calls : Settled(i) => i < next
  BY <1>2 DEF WholeInv, Listed
<1>4. m \in Nat /\ 1 .. m \subseteq Calls /\ \A j \in Calls : j < next <=> j \in 1 .. m
  BY <1>3, WholeTypes
<1>5. sorted = [k \in 1 .. m |-> k] /\ Len(sorted) = m /\ DOMAIN sorted = 1 .. m
  <2>1. ToSet(results) = 1 .. m
    BY <1>3, <1>4
  <2>2. results \in Seq(Nat)
    BY WholeTypes
  <2>3. sorted = [k \in 1 .. m |-> k]
    <3> HIDE DEF m
    <3> QED BY <1>3, <1>4, <2>1, <2>2, SortedLists
  <2> HIDE DEF m, sorted
  <2> QED BY <1>4, <2>3
<1>6. bad \subseteq 1 .. m /\ \A j \in 1 .. m : j \notin bad => outcome[j] = "told"
  <2>1. \A j \in 1 .. m : j \in Calls /\ Settled(j)
    BY <1>3, <1>4
  <2> QED BY <1>3, <1>4, <2>1, WholeTypes DEF Settled
<1>7. /\ upto \in 0 .. m
      /\ bad = {} => upto = m
      /\ bad # {} => upto + 1 \in bad /\ \A j \in 1 .. upto : j \notin bad
  <2> HIDE DEF bad, sorted
  <2>1. {k \in DOMAIN sorted : sorted[k] \in bad} = bad
    BY <1>5, <1>6
  <2>2. bad # {} => upto = Min(bad) - 1
    BY <2>1
  <2>3. CASE bad = {}
    BY <1>4, <1>5, <2>3
  <2>4. CASE bad # {}
    <3>1. Min(bad) \in bad /\ \A d \in bad : Min(bad) <= d
      <4>1. bad \in SUBSET Nat
        BY <1>4, <1>6
      <4> QED BY <2>4, <4>1, LeastIs
    <3> DEFINE b == Min(bad)
    <3>2. b \in 1 .. m /\ b \in bad /\ upto = b - 1 /\ \A d \in bad : b <= d
      BY <1>6, <2>2, <2>4, <3>1
    <3> HIDE DEF b, upto, m
    <3>3. upto \in 0 .. m /\ upto + 1 = b /\ \A j \in 1 .. upto : ~ (b <= j)
      BY <1>4, <3>2
    <3> QED BY <2>4, <3>2, <3>3
  <2> QED BY <2>3, <2>4
<1> HIDE DEF bad, upto, m
<1>8. \A k \in 1 .. upto : k \in 1 .. m /\ k \in Nat
  BY <1>4, <1>7
<1>9. /\ tail \in Seq(Messages) /\ Len(tail) = upto
      /\ \A k \in 1 .. upto : tail[k] = Result(step, k)
  <2>1. \A k \in 1 .. upto : tail[k] = Result(step, k)
    BY <1>5, <1>8
  <2>2. \A k \in 1 .. upto : tail[k] \in Messages
    BY <1>8, <2>1, WholeTypes, MessagesAre
  <2>3. tail = [k \in 1 .. upto |-> tail[k]] /\ upto \in Nat
    BY <1>4, <1>7
  <2> HIDE DEF tail
  <2> QED BY <2>1, <2>2, <2>3
<1> HIDE DEF tail
<1>10. Grows(tail)
  BY <1>1, <1>9, WholeTypes DEF Grows
<1>11. CASE bad = {}
  BY <1>1, <1>7, <1>9, <1>10, <1>11 DEF m
<1>12. CASE bad # {}
  <2>1. upto + 1 \in Calls /\ outcome[upto + 1] \in {"fatal", "denied"}
    BY <1>7, <1>12 DEF bad
  <2>2. \A j \in 1 .. upto : outcome[j] = "told"
    BY <1>6, <1>7, <1>8, <1>12
  <2> QED BY <1>1, <1>7, <1>9, <1>10, <1>12, <2>1, <2>2 DEF m
<1> QED BY <1>11, <1>12
LEMMA RecordWhole == ASSUME Inv, WholeInv, Record PROVE WholeInv'
<1>1. /\ pc = "record" /\ UNCHANGED <<queue, sent, memory, answer_as>>
  BY DEF Record
<1>2. PICK u \in 0 .. next - 1, tail \in Seq(Messages) :
        /\ Grows(tail) /\ Len(tail) = u /\ \A k \in 1 .. u : tail[k] = Result(step, k)
        /\ \/ /\ pc' = "boundary" /\ step' = step + 1 /\ NoRound /\ UNCHANGED finish
              /\ u = next - 1
           \/ /\ pc' = "ended" /\ finish' = "tool_failed" /\ UNCHANGED <<step, roundVars>>
              /\ u + 1 \in Calls /\ outcome[u + 1] \in {"fatal", "denied"}
              /\ \A j \in 1 .. u : outcome[j] = "told"
  BY RecordTakes
<1>3. InRound /\ ~Outside /\ finish = "none" /\ step' \in {step, step + 1}
  BY <1>1, <1>2 DEF InRound, Outside, WholeInv, Endings
<1>4. PICK y \in Nat : y = step
  BY WholeTypes
<1>5. PICK n \in Nat : n = Len(calls)
  BY WholeTypes
<1>6. u \in Nat /\ y + 1 \in Nat /\ ~ (y < y) /\ y < y + 1 /\ u <= next - 1
  BY <1>2, WholeTypes
<1>7. /\ session # <<>> /\ session[Len(session)] = Called(y, n) /\ InCallOrder
      /\ \A k \in DOMAIN session : OfStep(session[k]) => session[k].step \in 0 .. y
      /\ \A k \in DOMAIN session : OfStep(session[k]) /\ k # Len(session) => session[k].step < y
  BY <1>3, <1>4, <1>5 DEF WholeInv, Dated, RoundsWhole
<1>8. /\ Answered(y)' = 1 .. u /\ CalledIn(y)' = {n} /\ InCallOrder'
      /\ \A k \in DOMAIN session' : OfStep(session'[k]) => session'[k].step \in 0 .. y
  BY <1>2, <1>4, <1>6, <1>7, ResultsJoin
<1>9. session' \in Seq(Messages)
  BY <1>2, GrownIs
<1>10. Heard(session', queue', sent')
  <2>1. \A k \in DOMAIN tail : tail[k].what # "user"
    <3> SUFFICES ASSUME NEW k \in DOMAIN tail PROVE tail[k].what # "user"
      OBVIOUS
    <3>1. k \in 1 .. u /\ k \in Nat /\ tail[k] = Result(y, k)
      BY <1>2, <1>4
    <3> QED BY <3>1, MessagesAre
  <2> QED BY <1>1, <1>2, <2>1, SameUsers DEF WholeInv
\* The rounds before this one stand as they did.
<1>11. ASSUME NEW s \in 0 .. y - 1, NEW c \in CalledIn(s)'
       PROVE  /\ {i \in Calls : <<s, i>> \in ran'} \subseteq Answered(s)'
              /\ s \notin interrupted' => Answered(s)' = 1 .. c
  <2>1. s # y
    OBVIOUS
  <2>2. \A k \in DOMAIN tail : OfStep(tail[k]) => tail[k].step # s
    <3> SUFFICES ASSUME NEW k \in DOMAIN tail PROVE tail[k].step # s
      OBVIOUS
    <3>1. k \in 1 .. u /\ k \in Nat /\ tail[k] = Result(y, k)
      BY <1>2, <1>4
    <3> QED BY <2>1, <3>1, MessagesAre
  <2>3. Answered(s)' = Answered(s) /\ CalledIn(s)' = CalledIn(s)
    BY <1>2, <2>2, SameOfStep
  <2>4. s \in 0 .. step - 1 /\ c \in CalledIn(s)
    BY <1>4, <2>3
  <2> QED BY <1>1, <2>3, <2>4 DEF WholeInv, RoundsWhole, NothingForgotten, memory
<1>12. CASE /\ pc' = "boundary" /\ step' = step + 1 /\ NoRound /\ UNCHANGED finish
            /\ u = next - 1
  <2>1. ~InRound' /\ Outside'
    BY <1>12 DEF InRound, Outside
  <2>2. RunTypes'
    BY <1>1, <1>4, <1>6, <1>9, <1>12, WholeTypes DEF RunTypes, NoRound
  <2>3. Dated'
    <3>1. \A d \in 0 .. y : d \in 0 .. y + 1 /\ d < y + 1
      OBVIOUS
    <3> QED BY <1>4, <1>8, <1>12, <2>1, <3>1 DEF Dated
  <2>4. Listed'
    BY <1>12, <2>1 DEF Listed, NoRound, Settled, InRound
  <2>5. Started'
    <3> SUFFICES ASSUME NEW s \in Nat, NEW i \in Calls, <<s, i>> \in ran PROVE s <= y + 1 /\ s < y + 1
      BY <1>1, <1>4, <1>12, <2>1 DEF Started, memory
    <3>1. s <= y
      BY <1>4 DEF WholeInv, Started
    <3> QED BY <3>1
  <2>6. Endings'
    BY <1>3, <1>12 DEF Endings
  <2>7. NothingForgotten'
    <3> SUFFICES ASSUME NEW s \in 0 .. step' - 1, NEW c \in CalledIn(s)'
                 PROVE  /\ {i \in Calls : <<s, i>> \in ran'} \subseteq Answered(s)'
                        /\ s \notin interrupted' => Answered(s)' = 1 .. c
      BY DEF NothingForgotten
    <3>1. CASE s = y
      <4>1. Answered(s)' = 1 .. u /\ c = n
        BY <1>8, <3>1
      <4>2. \A i \in Calls : <<s, i>> \in ran => i \in 1 .. u
        <5> SUFFICES ASSUME NEW i \in Calls, <<s, i>> \in ran PROVE i \in 1 .. u
          OBVIOUS
        <5>1. i < next
          BY <1>3, <1>4, <3>1 DEF WholeInv, Started
        <5>2. i \in 1 .. MaxCalls /\ next \in Nat /\ MaxCalls \in Nat /\ u = next - 1
          BY <1>12, WholeTypes
        <5> QED BY <5>1, <5>2
      <4>3. s \notin interrupted => u = n
        <5>1. next > Len(calls) \/ step \in interrupted
          BY <1>1 DEF WholeInv, Listed
        <5>2. next <= Len(calls) + 1
          BY <1>3 DEF WholeInv, Listed
        <5>3. next \in Nat /\ Len(calls) \in Nat
          BY WholeTypes
        <5> QED BY <1>4, <1>5, <1>12, <3>1, <5>1, <5>2, <5>3
      <4> QED BY <1>1, <4>1, <4>2, <4>3 DEF memory
    <3>2. CASE s # y
      <4>1. s \in 0 .. y - 1
        BY <1>4, <1>12, <3>2
      <4> QED BY <1>11, <4>1
    <3> QED BY <3>1, <3>2
  <2>8. RecordedUpToFailure'
    BY <1>3, <1>12 DEF RecordedUpToFailure
  <2> QED BY <1>8, <1>10, <2>2, <2>3, <2>4, <2>5, <2>6, <2>7, <2>8 DEF WholeInv, RoundsWhole
<1>13. CASE /\ pc' = "ended" /\ finish' = "tool_failed" /\ UNCHANGED <<step, roundVars>>
            /\ u + 1 \in Calls /\ outcome[u + 1] \in {"fatal", "denied"}
            /\ \A j \in 1 .. u : outcome[j] = "told"
  <2>1. ~InRound' /\ ~Outside'
    BY <1>13 DEF InRound, Outside
  <2>2. RunTypes'
    BY <1>1, <1>9, <1>13, WholeTypes DEF RunTypes, roundVars
  <2>3. Dated'
    BY <1>4, <1>8, <1>13, <2>1 DEF Dated
  <2>4. Listed'
    BY <1>13, <2>1 DEF Listed, InRound
  <2>5. Started'
    BY <1>1, <1>13, <2>1 DEF WholeInv, Started, memory
  <2>6. Endings'
    BY <1>13 DEF Endings
  <2>7. NothingForgotten'
    <3> SUFFICES ASSUME NEW s \in 0 .. y - 1, NEW c \in CalledIn(s)'
                 PROVE  /\ {i \in Calls : <<s, i>> \in ran'} \subseteq Answered(s)'
                        /\ s \notin interrupted' => Answered(s)' = 1 .. c
      BY <1>4, <1>13 DEF NothingForgotten
    <3> QED BY <1>11
  <2>8. RecordedUpToFailure'
    <3>1. /\ Answered(step)' = 1 .. (u + 1) - 1 /\ \A j \in 1 .. (u + 1) - 1 : outcome'[j] = "told"
          /\ outcome'[u + 1] \in {"fatal", "denied"}
      <4>1. Answered(step)' = Answered(y)'
        BY <1>4, <1>13 DEF Answered
      <4>2. (u + 1) - 1 = u
        BY <1>6
      <4> QED BY <1>8, <1>13, <4>1, <4>2 DEF roundVars
    <3> QED BY <1>13, <3>1 DEF RecordedUpToFailure
  <2> QED BY <1>8, <1>10, <2>2, <2>3, <2>4, <2>5, <2>6, <2>7, <2>8 DEF WholeInv, RoundsWhole
<1> QED BY <1>2, <1>12, <1>13

LEMMA StandsWhole == ASSUME WholeInv, UNCHANGED agentVars PROVE WholeInv'
<1>1. UNCHANGED <<pc, step, session, queue, sent, answer_as, calls, next, batch, then, outcome, results, ran,
                  interrupted, finish>>
  BY DEF agentVars, sessionVars, roundVars, memory
<1>2. RunTypes' /\ Dated' /\ Listed' /\ Started' /\ Endings'
  BY <1>1 DEF WholeInv, RunTypes, Dated, Listed, Started, Endings, InRound, Outside, Settled
<1>3. Heard(session, queue, sent)'
  BY <1>1 DEF WholeInv
<1>4. RoundsWhole'
  <2>1. \A s : Answered(s)' = Answered(s) /\ CalledIn(s)' = CalledIn(s)
    BY <1>1 DEF Answered, CalledIn
  <2>2. InCallOrder' /\ NothingForgotten'
    BY <1>1, <2>1 DEF WholeInv, RoundsWhole, InCallOrder, NothingForgotten
  <2>3. RecordedUpToFailure'
    <3>1. Answered(step)' = Answered(step)
      BY <1>1 DEF Answered
    <3> QED BY <1>1, <3>1 DEF WholeInv, RoundsWhole, RecordedUpToFailure
  <2> QED BY <2>2, <2>3 DEF RoundsWhole
<1> QED BY <1>2, <1>3, <1>4 DEF WholeInv

LEMMA InitWhole == Init => WholeInv
<1> SUFFICES ASSUME Init PROVE WholeInv
  OBVIOUS
<1>1. /\ pc = "boundary" /\ step = 0 /\ session = <<>> /\ queue = <<>> /\ sent = 0 /\ results = <<>>
      /\ ran = {} /\ finish = "none" /\ outcome = [i \in Calls |-> "none"]
  BY DEF Init
<1>2. RunTypes /\ Dated /\ Listed /\ Started /\ Endings
  BY <1>1 DEF RunTypes, Dated, Listed, Started, Endings, InRound, Outside, Settled
<1>3. Heard(session, queue, sent)
  <2>1. UsersIn(session) = {}
    BY <1>1 DEF UsersIn
  <2>2. queue = [k \in 1 .. sent - 0 |-> 0 + k] /\ {session[k].n : k \in UsersIn(session)} = 1 .. 0
    BY <1>1, <2>1
  <2>3. 0 \in 0 .. sent
    BY <1>1
  <2> QED BY <2>1, <2>2, <2>3 DEF Heard
<1>4. RoundsWhole
  BY <1>1 DEF RoundsWhole, InCallOrder, NothingForgotten, RecordedUpToFailure
<1> QED BY <1>2, <1>3, <1>4 DEF WholeInv

LEMMA NextWhole == Inv /\ WholeInv /\ [Next]_vars => WholeInv'
<1> SUFFICES ASSUME Inv, WholeInv, [Next]_vars PROVE WholeInv'
  OBVIOUS
<1>1. CASE Boundary \/ TurnIsLost \/ TurnAnswers \/ Shaped
  BY <1>1, BoundaryWhole, TurnIsLostWhole, TurnAnswersWhole, ShapedWhole
<1>2. CASE \E tools \in Rounds : TurnCalls(tools)
  BY <1>2, TurnCallsWhole
<1>3. CASE Consider \/ RunBatch \/ RunSolo
  BY <1>3, ConsiderWhole, RunBatchWhole, RunSoloWhole
<1>4. CASE Gather \/ Record
  BY <1>4, GatherWhole, RecordWhole
<1>5. CASE \E i \in Calls : Return(i) \/ Panic(i)
  BY <1>5, ReturnWhole, PanicWhole
<1>6. CASE Client \/ Server \/ UNCHANGED vars
  BY <1>6, StandsWhole DEF Client, Server, vars
<1>7. CASE \E interrupt \in BOOLEAN : Push(interrupt)
  BY <1>7, PushWhole
<1> QED BY <1>1, <1>2, <1>3, <1>4, <1>5, <1>6, <1>7 DEF Next, Loop

LEMMA WholeImplies == WholeInv => SteeringHeard /\ RoundsWhole
BY DEF WholeInv, Heard, UsersIn, Endings, SteeringHeard, UserAt

-----------------------------------------------------------------------------
\* McpClient::request (client.rs): whatever replies of abandoned requests stand
\* in the pipe, a call is told of a reply only when the server answered that
\* call's own request so.
THEOREM OwnReplies == Spec => []RepliesAreOwn
<1>1. Spec => []Inv
  BY InitInv, NextKeeps, PTL DEF Spec
<1> QED BY <1>1, InvImplies, PTL

\* run_with, run_batch and dispatch (agent.rs): an exclusive tool runs alone and in
\* its place, a risky one runs when the user allowed it, and no run goes on to
\* another turn after a refusal.
THEOREM GateIsHeld == Spec => []GateHolds
<1>1. Spec => []Inv
  BY InitInv, NextKeeps, PTL DEF Spec
<1> QED BY <1>1, InvImplies, PTL

LEMMA RunInv == Spec => [](Inv /\ WholeInv)
<1>1. Init => Inv /\ WholeInv
  BY InitInv, InitWhole
<1>2. (Inv /\ WholeInv) /\ [Next]_vars => (Inv /\ WholeInv)'
  BY NextKeeps, NextWhole
<1> QED BY <1>1, <1>2, PTL DEF Spec

\* Steering::follow_up and interrupt, and the boundary of run_with (agent.rs):
\* every message of the user stands in the session once, in the order they were
\* sent, or waits; and none waits when a run gives its answer unshaped.
THEOREM MessagesAreHeard == Spec => []SteeringHeard
<1>1. Inv /\ WholeInv => SteeringHeard
  BY WholeImplies
<1> QED BY <1>1, RunInv, PTL

\* run_with's record of a round (agent.rs): the session holds the results of a
\* round's first calls in their order, right after its turn; a round the run went
\* on from has the result of all it started; and one that a failure or a refusal
\* ended has what came before it.
THEOREM RoundsAreWhole == Spec => []RoundsWhole
<1>1. Inv /\ WholeInv => RoundsWhole
  BY WholeImplies
<1> QED BY <1>1, RunInv, PTL
=============================================================================
