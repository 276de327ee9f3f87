-------------------------- MODULE ControllerProofs --------------------------
(* Proofs about Controller, for stamps that do not collide.                *)
EXTENDS Controller, FiniteSetTheorems, TLAPS

\* Every resident runtime works for a turn that was asked for, on a session
\* one of them started.
Owned == \A k \in Resident : /\ chats[k] \in Runtime /\ chats[k].run \in RunStates
                             /\ chats[k].tx \in 1 .. turns /\ chats[k].sid \in 1 .. turns

\* A pass ticks generating runtimes only, and a system task that has finished
\* is one the pass will retire.
PassOK ==
    /\ loop = "pass" => todo \subseteq Generating
    /\ to_remove \subseteq Resident \cap TaskIds
    /\ loop # "pass" => to_remove = {}
    /\ \A k \in Resident \cap TaskIds : IsTerminal(chats[k]) => loop = "pass" /\ k \in to_remove

\* The reader of channel c waits for nothing more: it left, saw the end, has
\* it in the queue, or will never get it.
Settled(c) == c.st # "open" \/ c.done \/ c.lost \/ \E i \in 1 .. Len(c.q) : c.q[i] = TRUE

\* A runtime that is not at work has settled its reader.
AtWork == {"Generating", "Capturing", "Paused"}
Ends == \A k \in Resident : chats[k].run \in AtWork \/ Settled(chan[chats[k].tx])

IInv == TypeOK /\ Owned /\ NothingOutlivesItsRuntime /\ PassOK /\ Ends

Channels(ch) == ch \in [Turns -> Channel] /\ \A t \in Turns : Len(ch[t].q) <= Cap

\* What no event does to a channel: unsettle it, take back an end, reopen it.
Heard(c, d) == /\ Settled(c) => Settled(d)
               /\ c.ended => d.ended
               /\ c.lost => d.lost
               /\ d.st = c.st

-----------------------------------------------------------------------------
(* One channel.                                                            *)

LEMMA PushKeeps ==
    ASSUME NEW c \in Channel, Len(c.q) <= Cap, NEW e
    PROVE  /\ Push(c, e) \in Channel /\ Len(Push(c, e).q) <= Cap
           /\ Heard(c, Push(c, e))
           /\ e \in Terminal => Settled(Push(c, e))
           /\ e \in Terminal /\ c.st = "open" => Push(c, e).ended \/ Push(c, e).lost
<1> SUFFICES ASSUME NEW d, d = Push(c, e)
             PROVE  /\ d \in Channel /\ Len(d.q) <= Cap /\ Heard(c, d)
                    /\ e \in Terminal => Settled(d)
                    /\ e \in Terminal /\ c.st = "open" => d.ended \/ d.lost
  OBVIOUS
<1>0. c.q \in Seq(BOOLEAN) /\ Len(c.q) \in Nat /\ Cap \in Nat
  BY ControllerAssumption DEF ControllerAssumption, Channel
<1>1. CASE c.st # "open"
  BY <1>1 DEF Push, Heard, Settled
<1>2. ASSUME Len(c.q) < Cap, NEW b \in BOOLEAN,
             d = [c EXCEPT !.q = Append(c.q, b), !.ended = c.ended \/ b]
      PROVE  /\ d \in Channel /\ Len(d.q) <= Cap /\ Heard(c, d)
             /\ b => Settled(d) /\ d.ended
  <2>2. /\ d.q = Append(c.q, b) /\ d.ended = (c.ended \/ b)
        /\ d.st = c.st /\ d.done = c.done /\ d.lost = c.lost
    BY <1>2 DEF Channel
  <2>3. /\ Append(c.q, b) \in Seq(BOOLEAN)
        /\ Len(d.q) = Len(c.q) + 1
        /\ \A i \in 1 .. Len(c.q) : d.q[i] = c.q[i]
        /\ d.q[Len(c.q) + 1] = b
    BY <1>0, <2>2
  <2>4. d \in Channel
    <3>1. (c.ended \/ b) \in BOOLEAN OBVIOUS
    <3> QED BY <1>2, <2>3, <3>1 DEF Channel
  <2>5. Settled(c) => Settled(d)
    BY <1>0, <2>2, <2>3 DEF Settled
  <2>6. ASSUME b PROVE Settled(d) /\ d.ended
    <3>1. Len(c.q) + 1 \in 1 .. Len(d.q) BY <1>0, <2>3
    <3>2. d.q[Len(c.q) + 1] = TRUE BY <2>3, <2>6
    <3>3. Settled(d) BY <3>1, <3>2, Zenon DEF Settled
    <3> QED BY <2>2, <2>6, <3>3
  <2>7. Len(d.q) <= Cap BY <1>0, <1>2, <2>3
  <2> QED BY <2>2, <2>4, <2>5, <2>6, <2>7 DEF Heard
<1>3. CASE c.st = "open" /\ Len(c.q) < Cap
  <2>1. d = [c EXCEPT !.q = Append(c.q, e \in Terminal), !.ended = c.ended \/ e \in Terminal]
    BY <1>3 DEF Push
  <2>2. CASE e \in Terminal
    <3>1. (e \in Terminal) = TRUE BY <2>2
    <3>2. d = [c EXCEPT !.q = Append(c.q, TRUE), !.ended = c.ended \/ TRUE] BY <2>1, <3>1, Zenon
    <3> QED BY <1>2, <1>3, <3>2
  <2>3. CASE e \notin Terminal
    <3>1. (e \in Terminal) = FALSE BY <2>3
    <3>2. d = [c EXCEPT !.q = Append(c.q, FALSE), !.ended = c.ended \/ FALSE] BY <2>1, <3>1, Zenon
    <3> QED BY <1>2, <1>3, <2>3, <3>2
  <2> QED BY <2>2, <2>3
<1>4. CASE c.st = "open" /\ ~ (Len(c.q) < Cap)
  <2>1. d = [c EXCEPT !.lost = c.lost \/ e \in Terminal] BY <1>4 DEF Push
  <2>2. /\ d.q = c.q /\ d.ended = c.ended /\ d.st = c.st /\ d.done = c.done
        /\ d.lost = (c.lost \/ e \in Terminal)
    BY <2>1 DEF Channel
  <2>3. d \in Channel BY <2>1 DEF Channel
  <2> QED BY <2>2, <2>3 DEF Heard, Settled
<1> QED BY <1>1, <1>3, <1>4

\* Telling any runtimes, and answering a caller, are pushes.
LEMMA NotifyKeeps ==
    ASSUME NEW ch, Channels(ch), NEW S, NEW e
    PROVE  /\ Channels(Notify(ch, S, e))
           /\ \A t \in Turns : Heard(ch[t], Notify(ch, S, e)[t])
           /\ e \in Terminal => \A k \in S : \A t \in Turns : chats[k].tx = t =>
                /\ Settled(Notify(ch, S, e)[t])
                /\ ch[t].st = "open" => Notify(ch, S, e)[t].ended \/ Notify(ch, S, e)[t].lost
<1> DEFINE n == Notify(ch, S, e)
<1>1. n = [t \in Turns |-> IF \E k \in S : chats[k].tx = t THEN Push(ch[t], e) ELSE ch[t]]
  BY DEF Notify
<1>2. \A t \in Turns : ch[t] \in Channel /\ Len(ch[t].q) <= Cap BY DEF Channels
<1>3. \A t \in Turns : n[t] \in Channel /\ Len(n[t].q) <= Cap /\ Heard(ch[t], n[t])
  <2> TAKE t \in Turns
  <2>1. CASE \E k \in S : chats[k].tx = t BY <1>1, <1>2, <2>1, PushKeeps
  <2>2. CASE ~ \E k \in S : chats[k].tx = t BY <1>1, <1>2, <2>2 DEF Heard
  <2> QED BY <2>1, <2>2
<1>4. ASSUME e \in Terminal, NEW k \in S, NEW t \in Turns, chats[k].tx = t
      PROVE  Settled(n[t]) /\ (ch[t].st = "open" => n[t].ended \/ n[t].lost)
  <2>1. n[t] = Push(ch[t], e) BY <1>1, <1>4
  <2> QED BY <1>2, <1>4, <2>1, PushKeeps
<1>5. Channels(n)
  <2>1. n \in [Turns -> Channel]
    <3>1. n = [t \in Turns |-> n[t]] BY <1>1
    <3> HIDE DEF n
    <3> QED BY <1>3, <3>1
  <2> HIDE DEF n
  <2> QED BY <1>3, <2>1 DEF Channels
<1> QED BY <1>3, <1>4, <1>5

LEMMA ReplyKeeps ==
    ASSUME NEW ch, Channels(ch), NextTurn \in Turns, NEW e
    PROVE  /\ Channels(Reply(ch, e))
           /\ \A t \in Turns : Heard(ch[t], Reply(ch, e)[t])
           /\ \A t \in Turns : t # NextTurn => Reply(ch, e)[t] = ch[t]
           /\ e \in Terminal => Settled(Reply(ch, e)[NextTurn])
<1> DEFINE p == Push(ch[NextTurn], e)
<1>1. ch[NextTurn] \in Channel /\ Len(ch[NextTurn].q) <= Cap BY DEF Channels
<1>2. /\ p \in Channel /\ Len(p.q) <= Cap /\ Heard(ch[NextTurn], p)
      /\ e \in Terminal => Settled(p)
  BY <1>1, PushKeeps
<1>3. Reply(ch, e) = [ch EXCEPT ![NextTurn] = p] BY DEF Reply
<1>4. Reply(ch, e)[NextTurn] = p /\ \A t \in Turns : t # NextTurn => Reply(ch, e)[t] = ch[t]
  <2> HIDE DEF p
  <2> QED BY <1>3 DEF Channels
<1>5. Reply(ch, e) \in [Turns -> Channel]
  <2> HIDE DEF p
  <2> QED BY <1>2, <1>3 DEF Channels
<1>6. \A t \in Turns : Heard(ch[t], ch[t]) BY DEF Heard
<1>7. \A t \in Turns : Len(Reply(ch, e)[t].q) <= Cap
  <2> HIDE DEF p
  <2> QED BY <1>2, <1>4 DEF Channels
<1> QED
  <2> HIDE DEF p
  <2> QED BY <1>2, <1>4, <1>5, <1>6, <1>7 DEF Channels
-----------------------------------------------------------------------------
(* The books: runtimes, sessions and hooks.                                *)

\* No load happened.
SameEngine == UNCHANGED <<bare, stale>>

BooksOK ==
    /\ bare \in BOOLEAN /\ stale \in [Turns -> Turns \cup {NoTurn}]
    /\ chats \in [Keys -> Runtime]
    /\ sessions \in SUBSET Turns
    /\ hooks \in [Turns -> Turns \cup {NoTurn}]
    /\ Owned /\ NothingOutlivesItsRuntime

\* An empty slot is of the type of a runtime, and no resident runtime is one.
LEMMA Slots ==
    /\ NoRt \in Runtime
    /\ \A r : r.run \in RunStates => r # NoRt
<1>1. NoRt \in Runtime BY DEF NoRt, Runtime, Kinds
<1>2. NoRt.run = "none" /\ "none" \notin RunStates BY DEF NoRt, RunStates
<1> QED BY <1>1, <1>2

\* What a replaced engine leaves of the registry, and any other of a stale bus.
BareBooks == (bare => sessions = {}) /\ (~bare => stale = NoHooks)

LEMMA BareBooksKept ==
    ASSUME BareBooks, SameEngine, sessions' \subseteq sessions
    PROVE  BareBooks'
  BY DEF BareBooks, SameEngine, NoHooks

\* terminate_runtime_owned keeps the books.
LEMMA Retired ==
    ASSUME IInv, SameEngine, NEW S \in SUBSET Resident,
           chats' = Without(S), hooks' = HooksWithout(S),
           sessions' \subseteq SessionsWithout(S),
           turns' \in Nat, turns <= turns'
    PROVE  /\ BooksOK'
           /\ Resident' = Resident \ S
           /\ \A k \in Resident' : chats'[k] = chats[k]
<1>1. \A k \in Keys : chats'[k] = IF k \in S THEN NoRt ELSE chats[k]
  BY DEF Without
<1>2. Resident' = Resident \ S BY <1>1 DEF Resident
<1>3. \A k \in Resident' : chats'[k] = chats[k] BY <1>1, <1>2 DEF Resident
<1>4. chats' \in [Keys -> Runtime]
  <2>1. \A k \in Keys : chats'[k] \in Runtime BY <1>1, Slots DEF IInv, TypeOK
  <2> QED BY <2>1 DEF Without
<1>5. /\ hooks' \in [Turns -> Turns \cup {NoTurn}]
      /\ \A s \in Turns : hooks'[s] = IF s \in SidsOf(S) THEN NoTurn ELSE hooks[s]
  BY DEF HooksWithout, IInv, TypeOK
<1>6. sessions' \subseteq sessions \ SidsOf(S) BY DEF SessionsWithout
<1>7. turns \in Nat BY DEF IInv, TypeOK
<1>8. Owned'
  BY <1>2, <1>3, <1>7 DEF IInv, Owned
<1>9. NothingOutlivesItsRuntime'
  <2>1. \A k \in Resident : chats[k].sid \in Turns
    BY <1>7, ControllerAssumption DEF ControllerAssumption, IInv, TypeOK, Owned, Turns
  <2>2. SidsOf(Resident)' = {chats[k].sid : k \in Resident \ S}
    BY <1>2, <1>3 DEF SidsOf
  <2>3. sessions' \subseteq SidsOf(Resident)'
    BY <1>6, <2>2 DEF IInv, NothingOutlivesItsRuntime, SidsOf
  <2>4. \A j, k \in Resident' : chats'[j].sid = chats'[k].sid => j = k
    BY <1>2, <1>3 DEF IInv, NothingOutlivesItsRuntime
  <2>5. \A s \in Turns \ SidsOf(Resident)' : hooks'[s] = NoTurn
    <3>1. \A s \in Turns \ SidsOf(Resident) : hooks[s] = NoTurn
      BY DEF IInv, NothingOutlivesItsRuntime
    <3> QED BY <1>5, <2>2, <3>1 DEF SidsOf
  <2>6. \A k \in Resident' : hooks'[chats'[k].sid] = hooks[chats[k].sid]
    BY <1>2, <1>3, <1>5, <2>1 DEF IInv, NothingOutlivesItsRuntime, SidsOf
  <2>7. \A k \in Resident' : hooks'[chats'[k].sid] # chats'[k].tx
                                => bare' /\ hooks'[chats'[k].sid] = NoTurn
    BY <1>2, <1>3, <2>6 DEF IInv, NothingOutlivesItsRuntime, SameEngine
  <2>8. BareBooks' BY <1>6, BareBooksKept DEF IInv, NothingOutlivesItsRuntime, BareBooks
  <2> QED BY <2>3, <2>4, <2>5, <2>7, <2>8 DEF NothingOutlivesItsRuntime, BareBooks
<1>10. bare' \in BOOLEAN /\ stale' \in [Turns -> Turns \cup {NoTurn}]
  BY DEF IInv, TypeOK, SameEngine
<1> QED
  BY <1>2, <1>3, <1>4, <1>5, <1>6, <1>8, <1>9, <1>10 DEF BooksOK, IInv, TypeOK

\* A runtime built under k, after those in S made room.
LEMMA Built ==
    ASSUME IInv, SameEngine, ~bare, NEW S \in SUBSET Resident, NEW k \in Keys, k \notin Resident \ S,
           NEW rt \in Runtime, rt.run \in RunStates, rt.tx = NextTurn, rt.sid = NextTurn,
           turns < MaxTurns, turns' = turns + 1,
           chats' = [Without(S) EXCEPT ![k] = rt],
           hooks' = [HooksWithout(S) EXCEPT ![NextTurn] = NextTurn],
           sessions' \subseteq SessionsWithout(S) \cup {NextTurn}
    PROVE  /\ BooksOK'
           /\ Resident' = (Resident \ S) \cup {k}
           /\ \A j \in Resident' \ {k} : chats'[j] = chats[j]
           /\ chats'[k] = rt
<1>0. turns \in Nat /\ NextTurn \in Turns /\ NextTurn = turns + 1
  BY ControllerAssumption DEF ControllerAssumption, IInv, TypeOK, NextTurn, Turns
<1>1. \A j \in Keys : chats'[j] = IF j = k THEN rt ELSE IF j \in S THEN NoRt ELSE chats[j]
  BY DEF Without
<1>2. Resident' = (Resident \ S) \cup {k} BY <1>1, Slots DEF Resident
<1>3. \A j \in Resident' \ {k} : chats'[j] = chats[j] BY <1>1, <1>2 DEF Resident
<1>4. chats' \in [Keys -> Runtime]
  <2>1. \A j \in Keys : chats'[j] \in Runtime BY <1>1, Slots DEF IInv, TypeOK
  <2> QED BY <2>1 DEF Without
<1>5. /\ hooks' \in [Turns -> Turns \cup {NoTurn}]
      /\ \A s \in Turns : hooks'[s] = IF s = NextTurn THEN NextTurn
                                      ELSE IF s \in SidsOf(S) THEN NoTurn ELSE hooks[s]
  BY <1>0 DEF HooksWithout, IInv, TypeOK
<1>6. sessions' \subseteq (sessions \ SidsOf(S)) \cup {NextTurn} BY DEF SessionsWithout
<1>7. chats'[k] = rt BY <1>1
<1>8. Owned'
  <2>1. \A j \in Resident' \ {k} : /\ chats'[j] \in Runtime /\ chats'[j].run \in RunStates
                                   /\ chats'[j].tx \in 1 .. turns' /\ chats'[j].sid \in 1 .. turns'
    BY <1>0, <1>2, <1>3 DEF IInv, Owned
  <2> QED BY <1>0, <1>7, <2>1 DEF Owned
<1>9. NothingOutlivesItsRuntime'
  <2>1. \A j \in Resident : chats[j].sid \in Turns /\ chats[j].sid # NextTurn
    BY <1>0, ControllerAssumption DEF ControllerAssumption, IInv, TypeOK, Owned, Turns
  <2>2. SidsOf(Resident)' = {chats[j].sid : j \in (Resident \ S) \ {k}} \cup {NextTurn}
    BY <1>2, <1>3, <1>7 DEF SidsOf
  <2>0. (Resident \ S) \ {k} = Resident \ S OBVIOUS
  <2>3. sessions' \subseteq SidsOf(Resident)'
    <3>1. sessions \subseteq {chats[j].sid : j \in Resident}
      BY DEF IInv, NothingOutlivesItsRuntime, SidsOf
    <3>2. sessions' \subseteq (sessions \ {chats[j].sid : j \in S}) \cup {NextTurn}
      BY <1>6 DEF SidsOf
    <3> QED BY <2>0, <2>2, <3>1, <3>2
  <2>4. \A i, j \in Resident' : chats'[i].sid = chats'[j].sid => i = j
    BY <1>2, <1>3, <1>7, <2>1 DEF IInv, NothingOutlivesItsRuntime
  <2>5. \A s \in Turns \ SidsOf(Resident)' : hooks'[s] = NoTurn
    <3> TAKE s \in Turns \ SidsOf(Resident)'
    <3>1. s # NextTurn /\ \A j \in Resident \ S : chats[j].sid # s BY <2>0, <2>2
    <3>2. CASE s \in SidsOf(S) BY <1>5, <3>1, <3>2
    <3>3. CASE s \notin SidsOf(S)
      <4>1. s \notin SidsOf(Resident) BY <3>1, <3>3 DEF SidsOf
      <4> QED BY <1>5, <3>1, <3>3, <4>1 DEF IInv, NothingOutlivesItsRuntime
    <3> QED BY <3>2, <3>3
  <2>6. \A j \in Resident' : hooks'[chats'[j].sid] = chats'[j].tx
    <3>1. \A j \in Resident \ S : chats[j].sid \notin SidsOf(S)
      BY DEF IInv, NothingOutlivesItsRuntime, SidsOf
    <3>2. \A j \in Resident' \ {k} : j \in Resident \ S BY <1>2
    <3>3. \A j \in Resident' \ {k} : hooks'[chats'[j].sid] = chats'[j].tx
      <4>1. \A j \in Resident : hooks[chats[j].sid] = chats[j].tx
        BY DEF IInv, NothingOutlivesItsRuntime
      <4> QED BY <1>3, <1>5, <2>1, <3>1, <3>2, <4>1
    <3> QED BY <1>0, <1>5, <1>7, <3>3
  <2>7. ~bare' /\ stale' = NoHooks /\ NoHooks' = NoHooks
    BY DEF IInv, NothingOutlivesItsRuntime, SameEngine, NoHooks
  <2> QED BY <2>3, <2>4, <2>5, <2>6, <2>7 DEF NothingOutlivesItsRuntime
<1>11. bare' \in BOOLEAN /\ stale' \in [Turns -> Turns \cup {NoTurn}]
  BY DEF IInv, TypeOK, SameEngine
<1>10. sessions' \in SUBSET Turns BY <1>0, <1>6 DEF IInv, TypeOK
<1> QED
  BY <1>2, <1>3, <1>4, <1>5, <1>7, <1>8, <1>9, <1>10, <1>11 DEF BooksOK

\* The Forwarder is pointed at the turn of rt, or left alone with the turn.
HooksFollow(k, rt) == \/ hooks' = [hooks EXCEPT ![rt.sid] = rt.tx]
                      \/ hooks' = hooks /\ rt.tx = chats[k].tx

\* Runtime k goes on, on its session, for the turn its Forwarder reports to.
LEMMA Updated ==
    ASSUME IInv, SameEngine, NEW k \in Resident,
           NEW rt \in Runtime, rt.run \in RunStates, rt.sid = chats[k].sid,
           turns' \in Nat, turns <= turns', rt.tx \in Turns, rt.tx <= turns',
           chats' = [chats EXCEPT ![k] = rt],
           HooksFollow(k, rt),
           sessions' \subseteq sessions
    PROVE  /\ BooksOK'
           /\ Resident' = Resident
           /\ \A j \in Resident \ {k} : chats'[j] = chats[j]
           /\ chats'[k] = rt
<1>0. turns \in Nat /\ k \in Keys /\ rt.sid \in Turns
  BY ControllerAssumption DEF ControllerAssumption, IInv, TypeOK, Owned, Turns, Resident
<1>1. \A j \in Keys : chats'[j] = IF j = k THEN rt ELSE chats[j]
  BY DEF IInv, TypeOK
<1>2. Resident' = Resident BY <1>0, <1>1, Slots DEF Resident
<1>3. /\ \A j \in Resident \ {k} : chats'[j] = chats[j]
      /\ chats'[k] = rt
  BY <1>0, <1>1 DEF Resident
<1>4. chats' \in [Keys -> Runtime] BY DEF IInv, TypeOK
<1>5. /\ hooks' \in [Turns -> Turns \cup {NoTurn}]
      /\ \A s \in Turns : s # rt.sid => hooks'[s] = hooks[s]
      /\ \/ hooks'[rt.sid] = rt.tx
         \/ hooks'[rt.sid] = hooks[rt.sid] /\ rt.tx = chats[k].tx
  BY <1>0 DEF IInv, TypeOK, HooksFollow
<1>8. Owned'
  <2>1. rt.tx \in 1 .. turns' /\ rt.sid \in 1 .. turns' BY <1>0 DEF IInv, Owned, Turns
  <2> QED BY <1>0, <1>2, <1>3, <2>1 DEF IInv, Owned
<1>9. NothingOutlivesItsRuntime'
  <2>1. \A j \in Resident : chats'[j].sid = chats[j].sid BY <1>3
  <2>2. SidsOf(Resident)' = SidsOf(Resident) BY <1>2, <2>1 DEF SidsOf
  <2>3. \A j \in Resident : chats[j].sid \in Turns
    BY <1>0, ControllerAssumption DEF ControllerAssumption, IInv, TypeOK, Owned, Turns
  <2>4. \A s \in Turns \ SidsOf(Resident) : hooks'[s] = NoTurn
    BY <1>5 DEF IInv, NothingOutlivesItsRuntime, SidsOf
  <2>5. ASSUME NEW j \in Resident, hooks'[chats'[j].sid] # chats'[j].tx
        PROVE  bare' /\ hooks'[chats'[j].sid] = NoTurn
    <3>1. hooks[chats[j].sid] # chats[j].tx => bare /\ hooks[chats[j].sid] = NoTurn
      BY DEF IInv, NothingOutlivesItsRuntime
    <3>2. CASE j = k BY <1>3, <1>5, <2>5, <3>1, <3>2 DEF SameEngine
    <3>3. CASE j # k
      <4>1. chats[j].sid # rt.sid BY <3>3 DEF IInv, NothingOutlivesItsRuntime
      <4> QED BY <1>3, <1>5, <2>3, <2>5, <3>1, <3>3, <4>1 DEF SameEngine
    <3> QED BY <3>2, <3>3
  <2>6. BareBooks' BY BareBooksKept DEF IInv, NothingOutlivesItsRuntime, BareBooks
  <2>7. sessions' \subseteq SidsOf(Resident)'
    BY <2>2 DEF IInv, NothingOutlivesItsRuntime
  <2>8. \A i, j \in Resident' : chats'[i].sid = chats'[j].sid => i = j
    BY <1>2, <2>1 DEF IInv, NothingOutlivesItsRuntime
  <2> QED BY <1>2, <2>2, <2>4, <2>5, <2>6, <2>7, <2>8 DEF NothingOutlivesItsRuntime, BareBooks
<1>10. bare' \in BOOLEAN /\ stale' \in [Turns -> Turns \cup {NoTurn}]
  BY DEF IInv, TypeOK, SameEngine
<1> QED BY <1>2, <1>3, <1>4, <1>5, <1>8, <1>9, <1>10 DEF BooksOK, IInv, TypeOK

\* Nothing of it changed, unless a backend forgot its sessions.
LEMMA Untouched ==
    ASSUME IInv, SameEngine, UNCHANGED <<chats, hooks>>, sessions' \subseteq sessions,
           turns' \in Nat, turns <= turns'
    PROVE  BooksOK' /\ Resident' = Resident
<1>1. Resident' = Resident /\ SidsOf(Resident)' = SidsOf(Resident)
  BY DEF Resident, SidsOf
<1>2. turns \in Nat BY DEF IInv, TypeOK
<1>3. Owned' BY <1>1, <1>2 DEF IInv, Owned
<1>4. NothingOutlivesItsRuntime'
  <2>1. BareBooks' BY BareBooksKept DEF IInv, NothingOutlivesItsRuntime, BareBooks
  <2>2. \A k \in Resident : hooks[chats[k].sid] # chats[k].tx
                                => bare' /\ hooks[chats[k].sid] = NoTurn
    BY DEF IInv, NothingOutlivesItsRuntime, SameEngine
  <2> QED BY <1>1, <2>1, <2>2 DEF IInv, NothingOutlivesItsRuntime, BareBooks
<1>5. bare' \in BOOLEAN /\ stale' \in [Turns -> Turns \cup {NoTurn}]
  BY DEF IInv, TypeOK, SameEngine
<1> QED BY <1>1, <1>3, <1>4, <1>5 DEF BooksOK, IInv, TypeOK

-----------------------------------------------------------------------------
(* The other parts of the invariant, by how a step treats them.            *)

OlderOK == older \in SUBSET (Keys \X Keys)

\* No channel of a turn asked for is unsettled again.
Following(ch) == \A t \in 1 .. turns : Settled(chan[t]) => Settled(ch[t])

LEMMA OrderKeeps ==
    ASSUME TypeOK
    PROVE  /\ \A S : OrderWithout(S) \in SUBSET (Keys \X Keys)
           /\ \A k \in Keys : \A T \in SUBSET Keys :
                Touch(k, older, T) \in SUBSET (Keys \X Keys)
           /\ \A k \in Keys : \A S : \A T \in SUBSET Keys :
                Touch(k, OrderWithout(S), T) \in SUBSET (Keys \X Keys)
  BY DEF TypeOK, OrderWithout, Touch

\* A command leaves the pass alone, and what a task was it stays.
LEMMA CommandPass ==
    ASSUME IInv, Taken,
           \A k \in Resident' \cap TaskIds :
              \/ chats'[k].run = "Generating"
              \/ k \in Resident /\ chats'[k] = chats[k]
    PROVE  /\ PassOK'
           /\ loop' \in {"recv", "tick"} /\ todo' \in SUBSET Keys /\ to_remove' \in SUBSET Keys
<1>1. loop = "recv" /\ UNCHANGED <<todo, to_remove>> /\ loop' \in {"recv", "tick"}
  BY DEF Taken
<1>2. \A k \in Resident \cap TaskIds : ~IsTerminal(chats[k])
  BY <1>1 DEF IInv, PassOK
<1>3. \A k \in Resident' \cap TaskIds : ~IsTerminal(chats'[k])
  BY <1>2 DEF IsTerminal
<1>4. to_remove = {} BY <1>1 DEF IInv, PassOK
<1>5. PassOK' BY <1>1, <1>3, <1>4 DEF PassOK
<1> QED BY <1>1, <1>5 DEF IInv, TypeOK

LEMMA EndsStep ==
    ASSUME IInv, Following(chan'),
           \A k \in Resident' :
              \/ /\ k \in Resident /\ chats'[k].tx = chats[k].tx
                 /\ chats'[k].run = chats[k].run
              \/ chats'[k].run \in AtWork
              \/ Settled(chan'[chats'[k].tx])
    PROVE  Ends'
<1> SUFFICES ASSUME NEW k \in Resident'
             PROVE  chats'[k].run \in AtWork \/ Settled(chan'[chats'[k].tx])
  BY DEF Ends, Settled
<1>1. CASE /\ k \in Resident /\ chats'[k].tx = chats[k].tx
           /\ chats'[k].run = chats[k].run
  BY <1>1 DEF IInv, Ends, Owned, Following
<1> QED BY <1>1

\* Telling runtimes, and readers that wait for nothing, keep channels settled.
LEMMA NotifyFollows ==
    ASSUME IInv, NEW ch, Channels(ch), Following(ch), NEW S, NEW e
    PROVE  Channels(Notify(ch, S, e)) /\ Following(Notify(ch, S, e))
<1>1. \A t \in 1 .. turns : t \in Turns
  BY ControllerAssumption DEF ControllerAssumption, IInv, TypeOK, Turns
<1> QED BY <1>1, NotifyKeeps DEF Following, Heard

LEMMA Same ==
    ASSUME IInv
    PROVE  Channels(chan) /\ Following(chan) /\ turns \in Nat
  BY DEF IInv, TypeOK, Channels, Following

\* A command's own channel is new.
LEMMA OpenedFollows ==
    ASSUME IInv, turns < MaxTurns, NEW st \in {"open", "closed"}
    PROVE  /\ NextTurn \in Turns /\ NextTurn = turns + 1
           /\ Channels(Opened(st)) /\ Following(Opened(st))
           /\ \A t \in 1 .. turns : Opened(st)[t] = chan[t]
           /\ Opened(st)[NextTurn].st = st
<1>1. turns \in Nat /\ MaxTurns \in Nat /\ Cap \in Nat
  BY ControllerAssumption DEF ControllerAssumption, IInv, TypeOK
<1>2. NextTurn \in Turns /\ NextTurn = turns + 1 BY <1>1 DEF NextTurn, Turns
<1>3. Fresh(st) \in Channel /\ Fresh(st).st = st /\ Len(Fresh(st).q) = 0
  BY DEF Fresh, Channel
<1>4. \A t \in Turns : Opened(st)[t] = IF t = NextTurn THEN Fresh(st) ELSE chan[t]
  BY DEF Opened, IInv, TypeOK
<1>5. Channels(Opened(st))
  <2>1. Opened(st) \in [Turns -> Channel] BY <1>3 DEF Opened, IInv, TypeOK
  <2> QED BY <1>1, <1>3, <1>4, <2>1 DEF Channels, IInv, TypeOK
<1>6. \A t \in 1 .. turns : t \in Turns /\ t # NextTurn BY <1>1, <1>2 DEF Turns
<1> QED BY <1>2, <1>3, <1>4, <1>5, <1>6 DEF Following

LEMMA ReplyFollows ==
    ASSUME IInv, turns < MaxTurns, NEW ch, Channels(ch), Following(ch), NEW e
    PROVE  /\ Channels(Reply(ch, e)) /\ Following(Reply(ch, e))
           /\ e \in Terminal => Settled(Reply(ch, e)[NextTurn])
<1>1. turns \in Nat /\ MaxTurns \in Nat
  BY ControllerAssumption DEF ControllerAssumption, IInv, TypeOK
<1>2. NextTurn \in Turns BY <1>1 DEF NextTurn, Turns
<1>3. \A t \in 1 .. turns : t \in Turns BY <1>1 DEF Turns, IInv, TypeOK
<1> QED BY <1>2, <1>3, ReplyKeeps DEF Following, Heard

\* The parts together.
LEMMA Assembled ==
    ASSUME BooksOK', Channels(chan'), OlderOK', PassOK', Ends',
           turns' \in 0 .. MaxTurns, loop' \in {"recv", "tick", "pass", "stopped"},
           todo' \in SUBSET Keys, to_remove' \in SUBSET Keys
    PROVE  IInv'
  BY DEF IInv, BooksOK, OlderOK, TypeOK, Channels

-----------------------------------------------------------------------------
(* The commands.                                                           *)

\* Retiring S, wherever the loop is.
LEMMA TerminateStep ==
    ASSUME IInv, SameEngine, NEW S \in SUBSET Resident, NEW e, Terminate(S, e), UNCHANGED turns
    PROVE  /\ BooksOK' /\ Channels(chan') /\ OlderOK' /\ Ends' /\ turns' \in 0 .. MaxTurns
           /\ Resident' = Resident \ S
           /\ \A k \in Resident' : chats'[k] = chats[k]
<1>1. turns' \in Nat /\ turns <= turns' /\ turns' \in 0 .. MaxTurns
  BY ControllerAssumption DEF ControllerAssumption, IInv, TypeOK
<1>2. /\ BooksOK' /\ Resident' = Resident \ S
      /\ \A k \in Resident' : chats'[k] = chats[k]
  BY <1>1, Retired DEF Terminate
<1>3. Channels(chan') /\ Following(chan') BY Same, NotifyFollows DEF Terminate
<1>4. OlderOK' BY OrderKeeps DEF IInv, Terminate, OlderOK
<1>5. Ends' BY <1>2, <1>3, EndsStep
<1> QED BY <1>1, <1>2, <1>3, <1>4, <1>5

LEMMA TerminateCommand ==
    ASSUME IInv, NEW S \in SUBSET Resident, NEW e, Terminate(S, e), UNCHANGED turns, Dispatch
    PROVE  IInv'
<1>e. SameEngine BY DEF Dispatch, SameEngine
<1>1. /\ BooksOK' /\ Channels(chan') /\ OlderOK' /\ Ends' /\ turns' \in 0 .. MaxTurns
      /\ Resident' = Resident \ S
      /\ \A k \in Resident' : chats'[k] = chats[k]
  BY <1>e, TerminateStep
<1>2. PassOK' /\ loop' \in {"recv", "tick"} /\ todo' \in SUBSET Keys /\ to_remove' \in SUBSET Keys
  BY <1>1, CommandPass DEF Dispatch
<1> QED BY <1>1, <1>2, Assembled

\* A refused command.
LEMMA RefuseStep ==
    ASSUME IInv, Dispatch, turns < MaxTurns, turns' = turns + 1,
           NEW st \in {"open", "closed"}, Refuse(Opened(st))
    PROVE  IInv'
<1>e. SameEngine BY DEF Dispatch, SameEngine
<1>1. turns' \in Nat /\ turns <= turns' /\ turns' \in 0 .. MaxTurns
  BY ControllerAssumption DEF ControllerAssumption, IInv, TypeOK
<1>2. UNCHANGED <<chats, older, sessions, hooks>> /\ chan' = Reply(Opened(st), "Error")
  BY DEF Refuse
<1>3. BooksOK' /\ Resident' = Resident BY <1>e, <1>1, <1>2, Untouched
<1>4. Channels(chan') /\ Following(chan') BY <1>2, OpenedFollows, ReplyFollows
<1>5. OlderOK' BY <1>2 DEF OlderOK, IInv, TypeOK
<1>6. Ends' BY <1>2, <1>3, <1>4, EndsStep
<1>7. PassOK' /\ loop' \in {"recv", "tick"} /\ todo' \in SUBSET Keys /\ to_remove' \in SUBSET Keys
  BY <1>2, <1>3, CommandPass DEF Dispatch
<1> QED BY <1>1, <1>3, <1>4, <1>5, <1>6, <1>7, Assembled

\* Who makes room is resident, and the own runtime of k is among them.
LEMMA EvictionsResident ==
    ASSUME NEW k, NEW S \in Evictions(k)
    PROVE  S \in SUBSET Resident /\ k \notin Resident \ S
  BY DEF Evictions, LeastRecent

LEMMA WokenLess ==
    ASSUME NEW live, NEW w \in Woken(live)
    PROVE  w \subseteq live
  BY DEF Woken

LEMMA BuildStep ==
    ASSUME IInv, Dispatch, turns < MaxTurns, turns' = turns + 1,
           NEW k \in ChatIds, NEW kind \in Kinds, NEW mic \in BOOLEAN,
           NEW st \in {"open", "closed"}, BuildRuntime(k, kind, mic, Opened(st))
    PROVE  IInv'
<1> DEFINE rt == [run |-> AttachedRun(mic), tx |-> NextTurn, sid |-> NextTurn,
                  kind |-> kind, paused |-> FALSE, speech |-> FALSE]
           told(S) == Notify(Opened(st), S, "Stopped")
<1>e. SameEngine BY DEF Dispatch, SameEngine
<1>1. turns' \in Nat /\ turns <= turns' /\ turns' \in 0 .. MaxTurns
  BY ControllerAssumption DEF ControllerAssumption, IInv, TypeOK
<1>2. PICK S \in Evictions(k) : \E live \in Woken(SessionsWithout(S)) :
        \/ /\ chan' \in {told(S), Reply(told(S), "Error")}
           /\ chats' = Without(S) /\ older' = OrderWithout(S)
           /\ sessions' = live /\ hooks' = HooksWithout(S)
        \/ /\ ~bare /\ chan' = Reply(told(S), "Accepted")
           /\ chats' = [Without(S) EXCEPT ![k] = rt]
           /\ older' = Touch(k, OrderWithout(S), Resident \ S)
           /\ sessions' = live \cup {NextTurn}
           /\ hooks' = [HooksWithout(S) EXCEPT ![NextTurn] = NextTurn]
  BY DEF BuildRuntime
<1>0. PICK live \in Woken(SessionsWithout(S)) :
        \/ /\ chan' \in {told(S), Reply(told(S), "Error")}
           /\ chats' = Without(S) /\ older' = OrderWithout(S)
           /\ sessions' = live /\ hooks' = HooksWithout(S)
        \/ /\ ~bare /\ chan' = Reply(told(S), "Accepted")
           /\ chats' = [Without(S) EXCEPT ![k] = rt]
           /\ older' = Touch(k, OrderWithout(S), Resident \ S)
           /\ sessions' = live \cup {NextTurn}
           /\ hooks' = [HooksWithout(S) EXCEPT ![NextTurn] = NextTurn]
  BY <1>2
<1> HIDE DEF rt
<1>3. S \in SUBSET Resident /\ k \notin Resident \ S /\ live \subseteq SessionsWithout(S) /\ k \in Keys
  BY EvictionsResident, WokenLess DEF Keys
<1>4. Channels(told(S)) /\ Following(told(S)) BY OpenedFollows, NotifyFollows
<1> HIDE DEF told
<1>5. k \notin TaskIds BY ControllerAssumption DEF ControllerAssumption
<1>6. Resident \in SUBSET Keys BY DEF Resident
<1>7. CASE /\ chan' \in {told(S), Reply(told(S), "Error")}
           /\ chats' = Without(S) /\ older' = OrderWithout(S)
           /\ sessions' = live /\ hooks' = HooksWithout(S)
  <2>1. /\ BooksOK' /\ Resident' = Resident \ S
        /\ \A j \in Resident' : chats'[j] = chats[j]
    BY <1>e, <1>1, <1>3, <1>7, Retired
  <2>2. Channels(chan') /\ Following(chan') BY <1>4, <1>7, ReplyFollows
  <2>3. OlderOK' BY <1>7, OrderKeeps DEF IInv, OlderOK
  <2>4. Ends' BY <2>1, <2>2, EndsStep
  <2>5. PassOK' /\ loop' \in {"recv", "tick"} /\ todo' \in SUBSET Keys /\ to_remove' \in SUBSET Keys
    BY <2>1, CommandPass DEF Dispatch
  <2> QED BY <1>1, <2>1, <2>2, <2>3, <2>4, <2>5, Assembled
<1>8. CASE /\ ~bare /\ chan' = Reply(told(S), "Accepted")
           /\ chats' = [Without(S) EXCEPT ![k] = rt]
           /\ older' = Touch(k, OrderWithout(S), Resident \ S)
           /\ sessions' = live \cup {NextTurn}
           /\ hooks' = [HooksWithout(S) EXCEPT ![NextTurn] = NextTurn]
  <2>0. NextTurn \in Turns BY OpenedFollows
  <2>1. /\ rt \in Runtime /\ rt.run \in {"Capturing", "Generating"}
        /\ rt.tx = NextTurn /\ rt.sid = NextTurn
    BY <2>0 DEF rt, AttachedRun, Runtime, RunStates
  <2>2. rt.run \in RunStates BY <2>1 DEF RunStates
  <2>3. /\ BooksOK' /\ Resident' = (Resident \ S) \cup {k}
        /\ \A j \in Resident' \ {k} : chats'[j] = chats[j]
        /\ chats'[k] = rt
    BY ZenonT(30), <1>e, <1>3, <1>8, <2>1, <2>2, Built
  <2>4. Channels(chan') /\ Following(chan') BY <1>4, <1>8, ReplyFollows
  <2>5. OlderOK' BY <1>3, <1>6, <1>8, OrderKeeps DEF IInv, OlderOK
  <2>6. Ends' BY <2>1, <2>3, <2>4, EndsStep DEF AtWork
  <2>7. PassOK' /\ loop' \in {"recv", "tick"} /\ todo' \in SUBSET Keys /\ to_remove' \in SUBSET Keys
    BY <1>5, <2>3, CommandPass DEF Dispatch
  <2> QED BY <1>1, <2>3, <2>4, <2>5, <2>6, <2>7, Assembled
<1> QED BY <1>0, <1>7, <1>8

\* A runtime in place is written anew with the channels ch, as a command.
LEMMA UpdateStep ==
    ASSUME IInv, Dispatch, turns' \in {turns, turns + 1}, turns' \in 0 .. MaxTurns,
           NEW k \in Resident \ TaskIds, NEW rt \in Runtime, rt.run \in RunStates,
           rt.sid = chats[k].sid, rt.tx \in 1 .. turns',
           chats' = [chats EXCEPT ![k] = rt],
           HooksFollow(k, rt),
           sessions' \subseteq sessions, OlderOK',
           Channels(chan'), Following(chan'),
           \/ rt.run \in AtWork \/ Settled(chan'[rt.tx])
           \/ rt.run = chats[k].run /\ rt.tx = chats[k].tx
    PROVE  IInv'
<1>e. SameEngine BY DEF Dispatch, SameEngine
<1>1. turns' \in Nat /\ turns <= turns' /\ rt.tx \in Turns /\ rt.tx <= turns'
  BY ControllerAssumption DEF ControllerAssumption, IInv, TypeOK, Turns
<1>2. /\ BooksOK' /\ Resident' = Resident /\ chats'[k] = rt
      /\ \A j \in Resident \ {k} : chats'[j] = chats[j]
  BY <1>e, <1>1, Updated
<1>3. Ends' BY <1>2, EndsStep
<1>4. PassOK' /\ loop' \in {"recv", "tick"} /\ todo' \in SUBSET Keys /\ to_remove' \in SUBSET Keys
  BY <1>2, CommandPass DEF Dispatch
<1> QED BY <1>2, <1>3, <1>4, Assembled

LEMMA ExtendStep ==
    ASSUME IInv, Dispatch, turns < MaxTurns, turns' = turns + 1,
           NEW k \in ChatIds, k \in Resident, NEW kind \in Kinds, NEW mic \in BOOLEAN,
           NEW st \in {"open", "closed"}, ExtendRuntime(k, kind, mic, Opened(st))
    PROVE  IInv'
<1> DEFINE ch == Opened(st)
           pointed == [chats[k] EXCEPT !.tx = NextTurn]
           attached == [pointed EXCEPT !.run = AttachedRun(mic), !.kind = kind, !.speech = FALSE]
<1>e. SameEngine BY DEF Dispatch, SameEngine
<1>1. /\ turns' \in Nat /\ turns <= turns' /\ turns' \in 0 .. MaxTurns
      /\ turns' \in {turns, turns + 1} /\ NextTurn \in 1 .. turns'
  BY ControllerAssumption DEF ControllerAssumption, IInv, TypeOK, NextTurn
<1>2. /\ NextTurn \in Turns /\ Channels(ch) /\ Following(ch)
      /\ \A e : Channels(Reply(ch, e)) /\ Following(Reply(ch, e))
      /\ Settled(Reply(ch, "Error")[NextTurn])
      /\ Channels(Reply(Reply(ch, "Error"), "Stopped"))
      /\ Following(Reply(Reply(ch, "Error"), "Stopped"))
  BY OpenedFollows, ReplyFollows DEF Terminal
<1>3. k \in Resident \ TaskIds /\ k \in Keys /\ Resident \in SUBSET Keys
  BY ControllerAssumption DEF ControllerAssumption, Resident
<1>4. chats[k] \in Runtime /\ chats[k].run \in RunStates BY DEF IInv, Owned
<1>5. /\ pointed \in Runtime /\ pointed.run \in RunStates
      /\ pointed.sid = chats[k].sid /\ pointed.tx = NextTurn
  BY <1>2, <1>4 DEF Runtime
<1>6. /\ attached \in Runtime /\ attached.run \in {"Capturing", "Generating"}
      /\ attached.sid = chats[k].sid /\ attached.tx = NextTurn
  BY <1>2, <1>4 DEF Runtime, AttachedRun, RunStates
<1>7. \/ /\ chan' \in {ch, Reply(Reply(ch, "Error"), "Stopped")}
         /\ chats' = Without({k}) /\ older' = OrderWithout({k})
         /\ sessions' = SessionsWithout({k}) /\ hooks' = HooksWithout({k})
      \/ /\ chan' = Reply(ch, "Error")
         /\ chats' = [chats EXCEPT ![k] = pointed]
         /\ hooks' = [hooks EXCEPT ![chats[k].sid] = NextTurn]
         /\ UNCHANGED <<older, sessions>>
      \/ /\ chan' = Reply(ch, "Accepted")
         /\ chats' = [chats EXCEPT ![k] = attached]
         /\ hooks' = [hooks EXCEPT ![chats[k].sid] = NextTurn]
         /\ older' = Touch(k, older, Resident \ {k})
         /\ UNCHANGED sessions
  BY DEF ExtendRuntime, Repointed
<1> HIDE DEF ch, pointed, attached
<1>8. CASE /\ chan' \in {ch, Reply(Reply(ch, "Error"), "Stopped")}
           /\ chats' = Without({k}) /\ older' = OrderWithout({k})
           /\ sessions' = SessionsWithout({k}) /\ hooks' = HooksWithout({k})
  <2>1. /\ BooksOK' /\ Resident' = Resident \ {k}
        /\ \A j \in Resident' : chats'[j] = chats[j]
    BY <1>e, <1>1, <1>8, Retired
  <2>2. Channels(chan') /\ Following(chan') BY <1>2, <1>8
  <2>3. OlderOK' BY <1>8, OrderKeeps DEF IInv, OlderOK
  <2>4. Ends' BY <2>1, <2>2, EndsStep
  <2>5. PassOK' /\ loop' \in {"recv", "tick"} /\ todo' \in SUBSET Keys /\ to_remove' \in SUBSET Keys
    BY <2>1, CommandPass DEF Dispatch
  <2> QED BY <1>1, <2>1, <2>2, <2>3, <2>4, <2>5, Assembled
<1>9. CASE /\ chan' = Reply(ch, "Error")
           /\ chats' = [chats EXCEPT ![k] = pointed]
           /\ hooks' = [hooks EXCEPT ![chats[k].sid] = NextTurn]
           /\ UNCHANGED <<older, sessions>>
  <2>1. OlderOK' BY <1>9 DEF OlderOK, IInv, TypeOK
  <2>2. /\ Channels(chan') /\ Following(chan') /\ Settled(chan'[pointed.tx])
        /\ HooksFollow(k, pointed)
        /\ sessions' \subseteq sessions /\ pointed.tx \in 1 .. turns'
    BY <1>1, <1>2, <1>5, <1>9 DEF HooksFollow
  <2> QED BY <1>1, <1>3, <1>5, <1>9, <2>1, <2>2, UpdateStep
<1>10. CASE /\ chan' = Reply(ch, "Accepted")
            /\ chats' = [chats EXCEPT ![k] = attached]
            /\ hooks' = [hooks EXCEPT ![chats[k].sid] = NextTurn]
            /\ older' = Touch(k, older, Resident \ {k})
            /\ UNCHANGED sessions
  <2>1. OlderOK' BY <1>3, <1>10, OrderKeeps DEF IInv, OlderOK
  <2>2. /\ Channels(chan') /\ Following(chan')
        /\ HooksFollow(k, attached)
        /\ sessions' \subseteq sessions /\ attached.tx \in 1 .. turns'
        /\ attached.run \in AtWork /\ attached.run \in RunStates
    BY <1>1, <1>2, <1>6, <1>10 DEF AtWork, RunStates, HooksFollow
  <2> QED BY <1>1, <1>3, <1>6, <1>10, <2>1, <2>2, UpdateStep
<1> QED BY <1>7, <1>8, <1>9, <1>10

\* A command that keeps turn, session and Forwarder of runtime k.
LEMMA RewriteStep ==
    ASSUME IInv, Dispatch, UNCHANGED <<turns, sessions, hooks>>,
           NEW k \in Resident \ TaskIds, NEW rt \in Runtime, rt.run \in RunStates,
           rt.sid = chats[k].sid, rt.tx = chats[k].tx,
           chats' = [chats EXCEPT ![k] = rt], OlderOK',
           Channels(chan'), Following(chan'),
           rt.run \in AtWork \/ rt.run = chats[k].run
    PROVE  IInv'
<1>1. rt.tx \in 1 .. turns' /\ turns' \in {turns, turns + 1} /\ turns' \in 0 .. MaxTurns
  BY DEF IInv, Owned, TypeOK
<1>2. HooksFollow(k, rt)
  BY DEF HooksFollow
<1> QED BY <1>1, <1>2, UpdateStep

LEMMA PauseStep ==
    ASSUME IInv, NEW k \in ChatIds, PauseChat(k)
    PROVE  IInv'
<1> DEFINE rt == [chats[k] EXCEPT !.paused = TRUE,
                                  !.run = IF @ = "Generating" THEN "Paused" ELSE @]
<1>1. k \in Resident \ TaskIds
  BY ControllerAssumption DEF ControllerAssumption, PauseChat, Pausable
<1>2. chats[k] \in Runtime /\ chats[k].run \in RunStates BY <1>1 DEF IInv, Owned
<1>3. /\ rt \in Runtime /\ rt.run \in RunStates
      /\ rt.run \in AtWork \/ rt.run = chats[k].run
      /\ rt.sid = chats[k].sid /\ rt.tx = chats[k].tx
  BY <1>2 DEF Runtime, RunStates, AtWork
<1>4. chats' = [chats EXCEPT ![k] = rt] BY DEF PauseChat, IInv, TypeOK
<1>5. /\ Dispatch /\ UNCHANGED <<turns, sessions, hooks>> /\ OlderOK'
      /\ Channels(chan') /\ Following(chan')
  BY Same DEF PauseChat, OlderOK, IInv, TypeOK
<1> HIDE DEF rt
<1> QED BY <1>1, <1>3, <1>4, <1>5, RewriteStep

LEMMA Resumed ==
    ASSUME IInv, NEW k \in ChatIds, ResumeChat(k)
    PROVE  \/ chats' = [chats EXCEPT ![k] = [chats[k] EXCEPT !.paused = FALSE, !.run = "Generating"]]
           \/ chats' = [chats EXCEPT ![k] = [chats[k] EXCEPT !.paused = FALSE]]
<1>1. chats \in [Keys -> Runtime] BY DEF IInv, TypeOK
<1>2. CASE chats' = [chats EXCEPT ![k].paused = FALSE, ![k].run = "Generating"]
  BY <1>1, <1>2
<1>3. CASE chats' = [chats EXCEPT ![k].paused = FALSE]
  BY <1>1, <1>3
<1> QED BY <1>2, <1>3 DEF ResumeChat

LEMMA ResumeStep ==
    ASSUME IInv, NEW k \in ChatIds, ResumeChat(k)
    PROVE  IInv'
<1>1. k \in Resident \ TaskIds
  BY ControllerAssumption DEF ControllerAssumption, ResumeChat, Pausable
<1>2. chats[k] \in Runtime /\ chats[k].run \in RunStates BY <1>1 DEF IInv, Owned
<1>3. /\ Dispatch /\ UNCHANGED <<turns, sessions, hooks>> /\ OlderOK'
  BY DEF ResumeChat, OlderOK, IInv, TypeOK
<1>4. Channels(chan') /\ Following(chan') BY Same, NotifyFollows DEF ResumeChat
<1>5. PICK rt : /\ chats' = [chats EXCEPT ![k] = rt]
                /\ rt \in {[chats[k] EXCEPT !.paused = FALSE, !.run = "Generating"],
                           [chats[k] EXCEPT !.paused = FALSE]}
  BY Resumed
<1>6. /\ rt \in Runtime /\ rt.run \in RunStates
      /\ rt.run \in AtWork \/ rt.run = chats[k].run
      /\ rt.sid = chats[k].sid /\ rt.tx = chats[k].tx
  BY <1>2, <1>5 DEF Runtime, RunStates, AtWork
<1> QED BY <1>1, <1>3, <1>4, <1>5, <1>6, RewriteStep

\* Nothing but the order of use changed.
LEMMA TouchStep ==
    ASSUME IInv, Dispatch, UNCHANGED <<chats, hooks, chan, turns>>,
           sessions' \subseteq sessions, OlderOK'
    PROVE  IInv'
<1>e. SameEngine BY DEF Dispatch, SameEngine
<1>1. turns' \in Nat /\ turns <= turns' /\ turns' \in 0 .. MaxTurns
  BY DEF IInv, TypeOK
<1>2. BooksOK' /\ Resident' = Resident BY <1>e, <1>1, Untouched
<1>3. Channels(chan') /\ Following(chan') BY Same
<1>4. Ends' BY <1>2, <1>3, EndsStep
<1>5. PassOK' /\ loop' \in {"recv", "tick"} /\ todo' \in SUBSET Keys /\ to_remove' \in SUBSET Keys
  BY <1>2, CommandPass DEF Dispatch
<1> QED BY <1>1, <1>2, <1>3, <1>4, <1>5, Assembled

\* A load retires every runtime, or leaves them all; those it leaves on a
\* replaced engine are missing from the new bus.
LEMMA LoadStep ==
    ASSUME IInv, LoadModel
    PROVE  IInv'
<1>1. /\ turns' \in Nat /\ turns <= turns' /\ turns' \in 0 .. MaxTurns /\ Taken /\ UNCHANGED turns
  BY DEF IInv, TypeOK, LoadModel
<1>2. NoHooks \in [Turns -> Turns \cup {NoTurn}] /\ NoHooks' = NoHooks
      /\ \A s \in Turns : NoHooks[s] = NoTurn
  BY DEF NoHooks
<1>3. CASE Terminate(Resident, "Stopped") /\ bare' = FALSE /\ stale' = NoHooks
  <2>1. /\ chats' = Without(Resident) /\ hooks' = HooksWithout(Resident)
        /\ sessions' = SessionsWithout(Resident) /\ older' = OrderWithout(Resident)
        /\ chan' = Notify(chan, Resident, "Stopped")
    BY <1>3 DEF Terminate
  <2>2. Resident' = {}
    BY <2>1 DEF Without, Resident
  <2>3. /\ chats' \in [Keys -> Runtime] /\ sessions' = {} /\ sessions' \in SUBSET Turns
        /\ hooks' \in [Turns -> Turns \cup {NoTurn}]
        /\ \A s \in Turns : hooks'[s] = NoTurn
    <3>1. chats' \in [Keys -> Runtime] BY <2>1, Slots DEF Without, IInv, TypeOK
    <3>2. sessions' = {} BY <2>1 DEF SessionsWithout, IInv, NothingOutlivesItsRuntime
    <3>3. \A s \in Turns : hooks'[s] = NoTurn
      BY <2>1 DEF HooksWithout, IInv, NothingOutlivesItsRuntime
    <3>4. hooks' \in [Turns -> Turns \cup {NoTurn}] BY <2>1 DEF HooksWithout, IInv, TypeOK
    <3> QED BY <3>1, <3>2, <3>3, <3>4
  <2>4. NothingOutlivesItsRuntime'
    BY <1>2, <1>3, <2>2, <2>3 DEF NothingOutlivesItsRuntime
  <2>5. BooksOK' BY <1>2, <1>3, <2>2, <2>3, <2>4 DEF BooksOK, Owned
  <2>6. Channels(chan') /\ Following(chan') BY <2>1, Same, NotifyFollows
  <2>7. OlderOK' BY <2>1, OrderKeeps DEF IInv, OlderOK
  <2>8. Ends' BY <2>2, <2>6, EndsStep
  <2>9. PassOK' /\ loop' \in {"recv", "tick"} /\ todo' \in SUBSET Keys /\ to_remove' \in SUBSET Keys
    BY <1>1, <2>2, CommandPass
  <2> QED BY <1>1, <2>5, <2>6, <2>7, <2>8, <2>9, Assembled
<1>4. ASSUME UNCHANGED <<chats, older, chan>>, BooksOK'
      PROVE  IInv'
  <2>1. Resident' = Resident BY <1>4 DEF Resident
  <2>2. OlderOK' BY <1>4 DEF OlderOK, IInv, TypeOK
  <2>3. Channels(chan') /\ Following(chan') BY <1>4, Same
  <2>4. Ends' BY <1>4, <2>1, <2>3, EndsStep
  <2>5. PassOK' /\ loop' \in {"recv", "tick"} /\ todo' \in SUBSET Keys /\ to_remove' \in SUBSET Keys
    BY <1>1, <1>4, <2>1, CommandPass
  <2> QED BY <1>1, <1>4, <2>2, <2>3, <2>4, <2>5, Assembled
<1>5. CASE UNCHANGED <<chats, older, sessions, hooks, chan, bare, stale>>
  <2>1. SameEngine BY <1>5 DEF SameEngine
  <2>2. BooksOK' BY <1>1, <1>5, <2>1, Untouched
  <2> QED BY <1>4, <1>5, <2>2
<1>6. CASE Replaced
  <2>1. /\ sessions' = {} /\ hooks' = NoHooks /\ bare' = TRUE
        /\ stale' = IF bare THEN stale ELSE hooks
        /\ UNCHANGED <<chats, older, chan>>
    BY <1>6 DEF Replaced
  <2>2. Resident' = Resident /\ SidsOf(Resident)' = SidsOf(Resident)
    BY <2>1 DEF Resident, SidsOf
  <2>3. stale' \in [Turns -> Turns \cup {NoTurn}] BY <2>1 DEF IInv, TypeOK
  <2>4. Owned' BY <1>1, <2>1, <2>2 DEF IInv, Owned
  <2>5. \A k \in Resident : chats[k].sid \in Turns
    BY ControllerAssumption DEF ControllerAssumption, IInv, TypeOK, Owned, Turns
  <2>6. NothingOutlivesItsRuntime'
    BY <1>2, <2>1, <2>2, <2>5 DEF IInv, NothingOutlivesItsRuntime
  <2>7. BooksOK'
    BY <1>2, <2>1, <2>3, <2>4, <2>6 DEF BooksOK, IInv, TypeOK
  <2> QED BY <1>4, <2>1, <2>7
<1> QED BY <1>3, <1>5, <1>6 DEF LoadModel

LEMMA PushStep ==
    ASSUME IInv, NEW k \in ChatIds, PushMicrophone(k)
    PROVE  IInv'
<1>1. /\ Dispatch /\ UNCHANGED turns /\ k \in Keys /\ {k} \in SUBSET Resident
      /\ Resident \in SUBSET Keys
  BY DEF PushMicrophone, Capturing, Keys, Resident
<1>2. CASE Terminate({k}, "Error") \/ Terminate({k}, "Stopped")
  BY <1>1, <1>2, TerminateCommand
<1>3. CASE /\ older' \in {older, Touch(k, older, Resident)}
           /\ UNCHANGED <<chats, sessions, hooks, chan>>
  <2>1. OlderOK' BY <1>1, <1>3, OrderKeeps DEF OlderOK, IInv, TypeOK
  <2> QED BY <1>1, <1>3, <2>1, TouchStep
<1> QED BY <1>2, <1>3 DEF PushMicrophone

LEMMA CommitStep ==
    ASSUME IInv, NEW k \in ChatIds, CommitMicrophone(k)
    PROVE  IInv'
<1>1. /\ Dispatch /\ UNCHANGED turns /\ k \in Keys /\ k \in Resident \ TaskIds
      /\ {k} \in SUBSET Resident /\ Resident \in SUBSET Keys
  BY ControllerAssumption DEF ControllerAssumption, CommitMicrophone, Capturing, Keys, Resident
<1>2. CASE Terminate({k}, "Error") \/ Terminate({k}, "Stopped")
  BY <1>1, <1>2, TerminateCommand
<1>3. CASE /\ chats' = [chats EXCEPT ![k].run = "Generating"]
           /\ older' = Touch(k, older, Resident)
           /\ UNCHANGED <<sessions, hooks, chan>>
  <2> DEFINE rt == [chats[k] EXCEPT !.run = "Generating"]
  <2>1. OlderOK' BY <1>1, <1>3, OrderKeeps DEF OlderOK, IInv
  <2>2. chats[k] \in Runtime BY <1>1 DEF IInv, Owned
  <2>3. /\ rt \in Runtime /\ rt.run \in RunStates /\ rt.run \in AtWork
        /\ rt.sid = chats[k].sid /\ rt.tx = chats[k].tx
    BY <2>2 DEF Runtime, RunStates, AtWork
  <2>4. chats' = [chats EXCEPT ![k] = rt] BY <1>3
  <2>5. Channels(chan') /\ Following(chan') BY <1>3, Same
  <2> HIDE DEF rt
  <2> QED BY <1>1, <1>3, <2>1, <2>3, <2>4, <2>5, RewriteStep
<1>4. CASE UNCHANGED <<chats, older, sessions, hooks, chan>>
  <2>1. OlderOK' BY <1>4 DEF OlderOK, IInv, TypeOK
  <2> QED BY <1>1, <1>4, <2>1, TouchStep
<1> QED BY <1>2, <1>3, <1>4 DEF CommitMicrophone

\* Without a shared millisecond a system task gets a key of its own.
LEMMA TaskKeysFree ==
    ASSUME ~StampsCollide, NEW k \in TaskKeys
    PROVE  k \in TaskIds /\ k \in Keys /\ k \notin Resident
  BY ControllerAssumption DEF ControllerAssumption, TaskKeys, Resident, Keys

LEMMA SystemInferStep ==
    ASSUME IInv, ~StampsCollide, SystemInfer
    PROVE  IInv'
<1>e. SameEngine BY DEF Dispatch, SameEngine, SystemInfer
<1>1. /\ Dispatch /\ turns < MaxTurns /\ turns' = turns + 1
      /\ turns' \in 0 .. MaxTurns
  BY ControllerAssumption DEF ControllerAssumption, IInv, TypeOK, SystemInfer
<1> DEFINE rt == [run |-> "Generating", tx |-> NextTurn, sid |-> NextTurn,
                  kind |-> "text", paused |-> FALSE, speech |-> FALSE]
<1>2. PICK st \in {"open", "closed"} :
        \/ Refuse(Opened(st))
        \/ \E k \in TaskKeys :
             /\ ~bare
             /\ chats' = [chats EXCEPT ![k] = rt]
             /\ older' = Touch(k, older, Resident)
             /\ sessions' = sessions \cup {NextTurn}
             /\ hooks' = [hooks EXCEPT ![NextTurn] = NextTurn]
             /\ chan' = Opened(st)
  BY DEF SystemInfer
<1>3. CASE Refuse(Opened(st)) BY <1>1, <1>3, RefuseStep
<1>4. ASSUME NEW k \in TaskKeys, ~bare,
             chats' = [chats EXCEPT ![k] = rt],
             older' = Touch(k, older, Resident),
             sessions' = sessions \cup {NextTurn},
             hooks' = [hooks EXCEPT ![NextTurn] = NextTurn],
             chan' = Opened(st)
      PROVE  IInv'
  <2>1. k \in TaskIds /\ k \in Keys /\ k \notin Resident \ {} BY TaskKeysFree
  <2>2. /\ NextTurn \in Turns /\ Channels(chan') /\ Following(chan')
    BY <1>1, <1>4, OpenedFollows
  <2>3. rt \in Runtime /\ rt.run \in RunStates /\ rt.run \in AtWork /\ rt.run = "Generating"
    BY <2>2 DEF Runtime, RunStates, Kinds, AtWork
  <2>4. /\ rt.tx = NextTurn /\ rt.sid = NextTurn OBVIOUS
  <2>5. /\ Without({}) = chats /\ HooksWithout({}) = hooks
        /\ SessionsWithout({}) = sessions
    BY DEF Without, HooksWithout, SessionsWithout, SidsOf, IInv, TypeOK
  <2> HIDE DEF rt
  <2>6. /\ BooksOK' /\ Resident' = (Resident \ {}) \cup {k}
        /\ \A j \in Resident' \ {k} : chats'[j] = chats[j]
        /\ chats'[k] = rt
    <3>1. {} \in SUBSET Resident OBVIOUS
    <3> QED BY ZenonT(30), <1>e, <1>1, <1>4, <2>1, <2>3, <2>4, <2>5, <3>1, Built
  <2>7. Ends' BY <2>2, <2>3, <2>6, EndsStep
  <2>8. PassOK' /\ loop' \in {"recv", "tick"} /\ todo' \in SUBSET Keys /\ to_remove' \in SUBSET Keys
    BY <1>1, <2>3, <2>6, CommandPass DEF Dispatch
  <2>9. OlderOK'
    <3>1. Resident \in SUBSET Keys BY DEF Resident
    <3> QED BY <1>4, <2>1, <3>1, OrderKeeps DEF OlderOK, IInv
  <2> QED BY <1>1, <2>2, <2>6, <2>7, <2>8, <2>9, Assembled
<1> HIDE DEF rt
<1> QED BY <1>2, <1>3, <1>4

-----------------------------------------------------------------------------
(* The scheduler pass.                                                     *)

LEMMA PollStep ==
    ASSUME IInv, Poll
    PROVE  IInv'
<1>e. SameEngine BY DEF SameEngine, Poll
<1>1. /\ UNCHANGED <<chats, older, sessions, hooks, chan, turns, todo, to_remove>>
      /\ loop = "recv" /\ loop' = "tick"
  BY DEF Poll
<1>2. turns' \in Nat /\ turns <= turns' /\ turns' \in 0 .. MaxTurns
  BY <1>1 DEF IInv, TypeOK
<1>3. BooksOK' /\ Resident' = Resident BY <1>e, <1>1, <1>2, Untouched
<1>4. Channels(chan') /\ Following(chan') BY <1>1, Same
<1>5. Ends' BY <1>1, <1>3, <1>4, EndsStep
<1>6. PassOK' BY <1>1, <1>3 DEF IInv, PassOK, IsTerminal
<1>7. OlderOK' /\ todo' \in SUBSET Keys /\ to_remove' \in SUBSET Keys
  BY <1>1 DEF OlderOK, IInv, TypeOK
<1> QED BY <1>1, <1>2, <1>3, <1>4, <1>5, <1>6, <1>7, Assembled

LEMMA TickBeginStep ==
    ASSUME IInv, TickBegin
    PROVE  IInv'
<1>e. SameEngine BY DEF SameEngine, TickBegin
<1>1. PICK X \in SUBSET Capturing, idle \in BOOLEAN :
        LET gone == IF idle THEN Resident ELSE X
        IN /\ chats' = Without(gone)
           /\ older' = OrderWithout(gone)
           /\ sessions' = SessionsWithout(gone)
           /\ hooks' = HooksWithout(gone)
           /\ chan' = Notify(Notify(chan, X, "Error"), gone \ X, "Stopped")
           /\ todo' = Generating \ gone
  BY DEF TickBegin
<1> DEFINE gone == IF idle THEN Resident ELSE X
<1>2. gone \in SUBSET Resident BY DEF Capturing
<1>3. /\ chats' = Without(gone)
      /\ older' = OrderWithout(gone)
      /\ sessions' = SessionsWithout(gone)
      /\ hooks' = HooksWithout(gone)
      /\ chan' = Notify(Notify(chan, X, "Error"), gone \ X, "Stopped")
      /\ todo' = Generating \ gone
  BY <1>1
<1> HIDE DEF gone
<1>4. /\ turns' \in Nat /\ turns <= turns' /\ turns' \in 0 .. MaxTurns /\ turns' = turns
      /\ loop = "tick" /\ loop' = "pass" /\ to_remove' = {}
  BY DEF IInv, TypeOK, TickBegin
<1>5. /\ BooksOK' /\ Resident' = Resident \ gone
      /\ \A k \in Resident' : chats'[k] = chats[k]
  BY <1>e, <1>2, <1>3, <1>4, Retired
<1>6. Channels(chan') /\ Following(chan')
  <2>1. Channels(Notify(chan, X, "Error")) /\ Following(Notify(chan, X, "Error"))
    BY Same, NotifyFollows
  <2> QED BY <1>3, <2>1, NotifyFollows
<1>7. OlderOK' BY <1>3, OrderKeeps DEF OlderOK, IInv
<1>8. Ends' BY <1>5, <1>6, EndsStep
<1>9. PassOK'
  <2>1. Generating' = Generating \ gone BY <1>5 DEF Generating
  <2>2. \A k \in Resident' \cap TaskIds : ~IsTerminal(chats'[k])
    BY <1>4, <1>5 DEF IInv, PassOK, IsTerminal
  <2> QED BY <1>3, <1>4, <2>1, <2>2 DEF PassOK, IsTerminal
<1>10. todo' \in SUBSET Keys BY <1>3 DEF Generating, Resident
<1> QED BY <1>4, <1>5, <1>6, <1>7, <1>8, <1>9, <1>10, Assembled

\* What k's tick may leave: the runtime at work, or its reader settled.
LEMMA TickStep ==
    ASSUME IInv, NEW k \in Keys, Ticks(k), NEW used \in BOOLEAN,
           NEW rt \in Runtime, rt.run \in {"Generating", "Completed", "Failed"},
           rt.sid = chats[k].sid, rt.tx = chats[k].tx,
           NEW c \in Channel, Len(c.q) <= Cap, Heard(chan[chats[k].tx], c),
           rt.run = "Generating" \/ Settled(c),
           Stepped(k, rt, c, used)
    PROVE  IInv'
<1>e. SameEngine BY DEF SameEngine, Stepped
<1>1. /\ chats' = [chats EXCEPT ![k] = rt]
      /\ chan' = [chan EXCEPT ![chats[k].tx] = c]
      /\ older' = IF used THEN Touch(k, older, Resident) ELSE older
      /\ todo' = todo \ {k}
      /\ to_remove' = to_remove \cup (IF k \in TaskIds /\ IsTerminal(rt) THEN {k} ELSE {})
      /\ UNCHANGED <<sessions, hooks, turns, loop>>
  BY DEF Stepped
<1>2. loop = "pass" /\ k \in todo /\ k \in Resident /\ todo \subseteq Generating
  BY DEF Ticks, IInv, PassOK, Generating
<1>3. /\ turns' \in Nat /\ turns <= turns' /\ turns' \in 0 .. MaxTurns
      /\ chats[k].tx \in 1 .. turns /\ chats[k].tx \in Turns
  BY <1>1, <1>2, ControllerAssumption DEF ControllerAssumption, IInv, TypeOK, Owned, Turns
<1>4. HooksFollow(k, rt)
  BY <1>1 DEF HooksFollow
<1>5. rt.run \in RunStates /\ rt.tx \in Turns /\ rt.tx <= turns' /\ sessions' \subseteq sessions
  BY <1>1, <1>3 DEF RunStates
<1>6. /\ BooksOK' /\ Resident' = Resident /\ chats'[k] = rt
      /\ \A j \in Resident \ {k} : chats'[j] = chats[j]
  BY <1>e, <1>1, <1>2, <1>3, <1>4, <1>5, Updated
<1>7. \A t \in Turns : chan'[t] = IF t = chats[k].tx THEN c ELSE chan[t]
  BY <1>1 DEF IInv, TypeOK
<1>8. Channels(chan')
  <2>1. chan' \in [Turns -> Channel] BY <1>1 DEF IInv, TypeOK
  <2> QED BY <1>7, <2>1 DEF Channels, IInv, TypeOK
<1>9. Following(chan')
  <2>1. \A t \in 1 .. turns : t \in Turns
    BY ControllerAssumption DEF ControllerAssumption, IInv, TypeOK, Turns
  <2> QED BY <1>7, <2>1 DEF Following, Heard
<1>10. Ends'
  <2>1. rt.run \in AtWork \/ Settled(chan'[rt.tx]) BY <1>3, <1>7 DEF AtWork
  <2> QED BY <1>6, <1>9, <2>1, EndsStep
<1>11. OlderOK'
  <2>1. Resident \in SUBSET Keys BY DEF Resident
  <2> QED BY <1>1, <2>1, OrderKeeps DEF OlderOK, IInv, TypeOK
<1>12. PassOK'
  <2>1. todo' \subseteq Generating'
    BY <1>1, <1>2, <1>6 DEF Generating
  <2>2. to_remove \subseteq to_remove' /\ to_remove' \subseteq Resident' \cap TaskIds
    BY <1>1, <1>2, <1>6 DEF IInv, PassOK
  <2>3. ASSUME NEW j \in Resident' \cap TaskIds, IsTerminal(chats'[j]) PROVE j \in to_remove'
    <3>1. CASE j = k BY <1>1, <1>6, <2>3, <3>1
    <3>2. CASE j # k BY <1>6, <2>2, <2>3, <3>2 DEF IInv, PassOK
    <3> QED BY <3>1, <3>2
  <2> QED BY <1>1, <1>2, <2>1, <2>2, <2>3 DEF PassOK, IsTerminal
<1>13. todo' \in SUBSET Keys /\ to_remove' \in SUBSET Keys /\ loop' = "pass"
  BY <1>1, <1>2 DEF IInv, TypeOK
<1> QED BY <1>3, <1>6, <1>8, <1>10, <1>11, <1>12, <1>13, Assembled

\* The runtime a tick finds, its channel and what of it waiting speech makes.
LEMMA TickFinds ==
    ASSUME IInv, NEW k \in Keys, Ticks(k)
    PROVE  /\ chats[k] \in Runtime /\ chats[k].run = "Generating" /\ chats[k].tx \in Turns
           /\ chan[chats[k].tx] \in Channel /\ Len(chan[chats[k].tx].q) <= Cap
           /\ Flushed(k) \in Channel /\ Len(Flushed(k).q) <= Cap
           /\ Heard(chan[chats[k].tx], Flushed(k))
           /\ \A e : /\ Push(Flushed(k), e) \in Channel /\ Len(Push(Flushed(k), e).q) <= Cap
                     /\ Heard(chan[chats[k].tx], Push(Flushed(k), e))
                     /\ Heard(Flushed(k), Push(Flushed(k), e))
                     /\ e \in Terminal => Settled(Push(Flushed(k), e))
<1>1. k \in Resident /\ chats[k].run = "Generating"
  BY DEF Ticks, IInv, PassOK, Generating
<1>2. chats[k] \in Runtime /\ chats[k].tx \in Turns
  BY <1>1, ControllerAssumption DEF ControllerAssumption, IInv, TypeOK, Owned, Turns
<1>3. chan[chats[k].tx] \in Channel /\ Len(chan[chats[k].tx].q) <= Cap
  BY <1>2 DEF IInv, TypeOK
<1>4. /\ Flushed(k) \in Channel /\ Len(Flushed(k).q) <= Cap
      /\ Heard(chan[chats[k].tx], Flushed(k))
  <2>1. Heard(chan[chats[k].tx], chan[chats[k].tx]) BY DEF Heard
  <2> QED BY <1>3, <2>1, PushKeeps DEF Flushed
<1>5. \A e : /\ Push(Flushed(k), e) \in Channel /\ Len(Push(Flushed(k), e).q) <= Cap
             /\ Heard(Flushed(k), Push(Flushed(k), e))
             /\ e \in Terminal => Settled(Push(Flushed(k), e))
  BY <1>4, PushKeeps
<1>6. \A e : Heard(chan[chats[k].tx], Push(Flushed(k), e))
  BY <1>4, <1>5 DEF Heard
<1> QED BY <1>1, <1>2, <1>3, <1>4, <1>5, <1>6

\* A channel nobody receives on.
LEMMA DeadSettled ==
    ASSUME NEW c, NEW d, Dead(c), Heard(c, d)
    PROVE  Settled(c) /\ Settled(d)
  BY DEF Dead, Heard, Settled

LEMMA TickKeeps ==
    ASSUME IInv, NEW k \in Keys, Tick(k)
    PROVE  IInv'
<1> DEFINE c == chan[chats[k].tx]
           After(r) == [chats[k] EXCEPT !.speech = FALSE, !.run = r]
<1>0. Ticks(k)
  BY DEF Tick, TickTimeout, TickSpeechFull, TickSpeechDead, TickNothing, TickToken, TickSpeech,
     TickEnd, Pulls
<1>1. /\ chats[k] \in Runtime /\ chats[k].run = "Generating"
      /\ c \in Channel /\ Len(c.q) <= Cap /\ Heard(c, c)
      /\ Flushed(k) \in Channel /\ Len(Flushed(k).q) <= Cap /\ Heard(c, Flushed(k))
      /\ \A e : /\ Push(Flushed(k), e) \in Channel /\ Len(Push(Flushed(k), e).q) <= Cap
                /\ Heard(c, Push(Flushed(k), e))
                /\ Heard(Flushed(k), Push(Flushed(k), e))
                /\ e \in Terminal => Settled(Push(Flushed(k), e))
      /\ \A e : /\ Push(c, e) \in Channel /\ Len(Push(c, e).q) <= Cap
                /\ Heard(c, Push(c, e))
                /\ e \in Terminal => Settled(Push(c, e))
  BY <1>0, TickFinds, PushKeeps DEF Heard
<1>2. \A r \in {"Generating", "Completed", "Failed"} :
        /\ After(r) \in Runtime /\ After(r).run = r
        /\ After(r).sid = chats[k].sid /\ After(r).tx = chats[k].tx
  BY <1>1 DEF Runtime, RunStates
<1>3. ASSUME NEW b \in BOOLEAN
      PROVE  LET rt == [chats[k] EXCEPT !.speech = b]
             IN rt \in Runtime /\ rt.run = "Generating" /\ rt.sid = chats[k].sid /\ rt.tx = chats[k].tx
  BY <1>1 DEF Runtime
<1>4. CASE TickTimeout(k)
  <2>1. Stepped(k, After("Failed"), Push(c, "Error"), FALSE)
    <3>1. [chats[k] EXCEPT !.run = "Failed", !.speech = FALSE] = After("Failed")
      BY <1>1 DEF Runtime
    <3> QED BY <1>4, <3>1 DEF TickTimeout
  <2>2. "Error" \in Terminal BY DEF Terminal
  <2> HIDE DEF c, After
  <2> QED BY <1>0, <1>1, <1>2, <2>1, <2>2, TickStep DEF c
<1>5. CASE TickSpeechFull(k)
  <2>1. Stepped(k, chats[k], c, FALSE) BY <1>5 DEF TickSpeechFull
  <2> QED BY <1>0, <1>1, <2>1, TickStep
<1>6. CASE TickSpeechDead(k)
  <2>1. Stepped(k, After("Completed"), c, FALSE) /\ Dead(c)
    <3>1. [chats[k] EXCEPT !.run = "Completed", !.speech = FALSE] = After("Completed")
      BY <1>1 DEF Runtime
    <3> QED BY <1>6, <3>1 DEF TickSpeechDead
  <2>2. Settled(c) BY <1>1, <2>1, DeadSettled
  <2> HIDE DEF c, After
  <2> QED BY <1>0, <1>1, <1>2, <2>1, <2>2, TickStep DEF c
<1>7. CASE TickNothing(k)
  <2>1. Stepped(k, [chats[k] EXCEPT !.speech = FALSE], Flushed(k), chats[k].speech)
    BY <1>7 DEF TickNothing
  <2>2. chats[k].speech \in BOOLEAN BY <1>1 DEF Runtime
  <2> QED BY <1>0, <1>1, <1>3, <2>1, <2>2, TickStep
<1>8. CASE TickSpeech(k)
  <2>1. Stepped(k, [chats[k] EXCEPT !.speech = TRUE], Flushed(k), chats[k].speech)
    BY <1>8 DEF TickSpeech
  <2>2. chats[k].speech \in BOOLEAN BY <1>1 DEF Runtime
  <2> QED BY <1>0, <1>1, <1>3, <2>1, <2>2, TickStep
<1>9. CASE TickToken(k)
  <2> DEFINE r == IF Dead(Flushed(k)) THEN "Completed" ELSE "Generating"
             d == Push(Flushed(k), "Token")
  <2>1. Stepped(k, After(r), d, TRUE)
    <3>1. [chats[k] EXCEPT !.speech = FALSE,
                           !.run = IF Dead(Flushed(k)) THEN "Completed" ELSE @] = After(r)
      BY <1>1
    <3> QED BY <1>9, <3>1 DEF TickToken
  <2>2. r = "Generating" \/ Settled(d) BY <1>1, DeadSettled
  <2>3. r \in {"Generating", "Completed", "Failed"} OBVIOUS
  <2>4. d \in Channel /\ Len(d.q) <= Cap /\ Heard(c, d) BY <1>1
  <2> HIDE DEF c, After, r, d
  <2> QED BY <1>0, <1>2, <2>1, <2>2, <2>3, <2>4, TickStep DEF c
<1>10. CASE TickEnd(k)
  <2>1. PICK e \in Terminal :
          Stepped(k, [chats[k] EXCEPT !.speech = FALSE,
                                      !.run = IF e = "Error" /\ ~Dead(Flushed(k))
                                              THEN "Failed" ELSE "Completed"],
                  Push(Flushed(k), e), chats[k].speech)
    BY <1>10 DEF TickEnd
  <2> DEFINE r == IF e = "Error" /\ ~Dead(Flushed(k)) THEN "Failed" ELSE "Completed"
             d == Push(Flushed(k), e)
  <2>2. Stepped(k, After(r), d, chats[k].speech) BY <2>1
  <2>3. r \in {"Generating", "Completed", "Failed"} /\ chats[k].speech \in BOOLEAN
    BY <1>1 DEF Runtime
  <2>4. d \in Channel /\ Len(d.q) <= Cap /\ Heard(c, d) /\ Settled(d) BY <1>1
  <2> HIDE DEF c, After, r, d
  <2> QED BY <1>0, <1>2, <2>2, <2>3, <2>4, TickStep DEF c
<1> QED BY <1>4, <1>5, <1>6, <1>7, <1>8, <1>9, <1>10 DEF Tick

LEMMA PassEndStep ==
    ASSUME IInv, PassEnd
    PROVE  IInv'
<1>e. SameEngine BY DEF SameEngine, PassEnd
<1>1. /\ loop = "pass" /\ loop' = "recv" /\ Terminate(to_remove, "Stopped")
      /\ to_remove' = {} /\ UNCHANGED <<turns, todo>>
  BY DEF PassEnd
<1>2. to_remove \in SUBSET Resident BY DEF IInv, PassOK
<1>3. /\ BooksOK' /\ Channels(chan') /\ OlderOK' /\ Ends' /\ turns' \in 0 .. MaxTurns
      /\ Resident' = Resident \ to_remove
      /\ \A k \in Resident' : chats'[k] = chats[k]
  BY <1>e, <1>1, <1>2, TerminateStep
<1>4. PassOK' BY <1>1, <1>3 DEF IInv, PassOK, IsTerminal
<1>5. todo' \in SUBSET Keys /\ to_remove' \in SUBSET Keys BY <1>1 DEF IInv, TypeOK
<1> QED BY <1>1, <1>3, <1>4, <1>5, Assembled

LEMMA ShutdownStep ==
    ASSUME IInv, Shutdown
    PROVE  IInv'
<1>e. SameEngine BY DEF SameEngine, Shutdown
<1>1. /\ loop = "recv" /\ loop' = "stopped" /\ Terminate(Resident, "Stopped")
      /\ UNCHANGED <<turns, todo, to_remove>>
  BY DEF Shutdown
<1>2. Resident \in SUBSET Resident OBVIOUS
<1>3. /\ BooksOK' /\ Channels(chan') /\ OlderOK' /\ Ends' /\ turns' \in 0 .. MaxTurns
      /\ Resident' = {}
  BY <1>e, <1>1, <1>2, TerminateStep
<1>4. PassOK' BY <1>1, <1>3 DEF IInv, PassOK
<1>5. todo' \in SUBSET Keys /\ to_remove' \in SUBSET Keys BY <1>1 DEF IInv, TypeOK
<1> QED BY <1>1, <1>3, <1>4, <1>5, Assembled

-----------------------------------------------------------------------------
(* The readers.                                                            *)

LEMMA TailOf ==
    ASSUME NEW q \in Seq(BOOLEAN), q # <<>>
    PROVE  /\ Tail(q) \in Seq(BOOLEAN) /\ Head(q) \in BOOLEAN
           /\ Len(q) \in Nat /\ Len(Tail(q)) = Len(q) - 1
           /\ \A i \in 1 .. Len(q) - 1 : Tail(q)[i] = q[i + 1]
           /\ Head(q) = q[1]
<1>1. Tail(q) \in Seq(BOOLEAN) /\ Len(q) \in Nat /\ Len(Tail(q)) = Len(q) - 1 OBVIOUS
<1>2. \A i \in 1 .. Len(q) - 1 : Tail(q)[i] = q[i + 1] OBVIOUS
<1>3. Head(q) = q[1] /\ 1 \in 1 .. Len(q) OBVIOUS
<1>4. \A i \in 1 .. Len(q) : q[i] \in BOOLEAN OBVIOUS
<1> QED BY <1>1, <1>2, <1>3, <1>4

\* What a reader does to its channel.
LEMMA ReaderChannel ==
    ASSUME IInv, NEW t \in Turns, Reader(t)
    PROVE  \E c \in Channel : /\ chan' = [chan EXCEPT ![t] = c]
                              /\ Len(c.q) <= Cap
                              /\ Settled(chan[t]) => Settled(c)
<1>0. /\ chan[t] \in Channel /\ Len(chan[t].q) <= Cap /\ Cap \in Nat
      /\ chan[t].q \in Seq(BOOLEAN)
  BY ControllerAssumption DEF ControllerAssumption, IInv, TypeOK, Channel
<1>1. CASE Read(t)
  <2>1. PICK c : c = [chan[t] EXCEPT !.q = Tail(chan[t].q), !.done = Head(chan[t].q)]
    OBVIOUS
  <2>2. chan' = [chan EXCEPT ![t] = c] /\ chan[t].q # <<>> BY <1>1, <2>1 DEF Read
  <2>3. /\ c.q = Tail(chan[t].q) /\ c.done = Head(chan[t].q)
        /\ c.st = chan[t].st /\ c.lost = chan[t].lost
    BY <1>0, <2>1 DEF Channel
  <2>4. /\ Tail(chan[t].q) \in Seq(BOOLEAN) /\ Head(chan[t].q) \in BOOLEAN
        /\ Len(Tail(chan[t].q)) = Len(chan[t].q) - 1
        /\ \A i \in 1 .. Len(chan[t].q) - 1 : Tail(chan[t].q)[i] = chan[t].q[i + 1]
        /\ Head(chan[t].q) = chan[t].q[1]
        /\ Len(chan[t].q) \in Nat
    BY <1>0, <2>2, TailOf
  <2>5. c \in Channel BY <1>0, <2>1, <2>4 DEF Channel
  <2>6. Len(c.q) <= Cap BY <1>0, <2>3, <2>4
  <2>7. ASSUME NEW i \in 1 .. Len(chan[t].q), chan[t].q[i] = TRUE
        PROVE  c.done \/ \E j \in 1 .. Len(c.q) : c.q[j] = TRUE
    <3>1. CASE i = 1 BY <2>3, <2>4, <2>7, <3>1
    <3>2. CASE i # 1
      <4>1. i - 1 \in 1 .. Len(c.q) /\ c.q[i - 1] = chan[t].q[i]
        BY <2>3, <2>4, <2>7, <3>2
      <4> QED BY <2>7, <4>1
    <3> QED BY <3>1, <3>2
  <2>8. ~chan[t].done BY <1>1 DEF Read
  <2>9. Settled(chan[t]) => Settled(c) BY <2>3, <2>7, <2>8 DEF Settled
  <2> QED BY <2>2, <2>5, <2>6, <2>9
<1>2. CASE SeeDisconnect(t)
  <2>1. PICK c : c = [chan[t] EXCEPT !.done = TRUE] OBVIOUS
  <2>2. /\ chan' = [chan EXCEPT ![t] = c]
        /\ c \in Channel /\ c.q = chan[t].q /\ c.done = TRUE
    BY <1>0, <1>2, <2>1 DEF SeeDisconnect, Channel
  <2> QED BY <1>0, <2>2 DEF Settled
<1>3. CASE DropReceiver(t)
  <2>1. PICK c : c = Fresh("closed") OBVIOUS
  <2>2. c \in Channel /\ c.q = <<>> /\ c.st = "closed" BY <2>1 DEF Fresh, Channel
  <2>3. Len(c.q) <= Cap /\ Settled(c) BY <1>0, <2>2 DEF Settled
  <2> QED BY <1>3, <2>1, <2>2, <2>3 DEF DropReceiver
<1> QED BY <1>1, <1>2, <1>3 DEF Reader

LEMMA ReaderStep ==
    ASSUME IInv, NEW t \in Turns, Reader(t)
    PROVE  IInv'
<1>e. SameEngine BY DEF SameEngine, Reader, Read, SeeDisconnect, DropReceiver
<1>1. PICK c \in Channel : /\ chan' = [chan EXCEPT ![t] = c]
                           /\ Len(c.q) <= Cap
                           /\ Settled(chan[t]) => Settled(c)
  BY ReaderChannel
<1>2. UNCHANGED <<chats, older, sessions, hooks, turns, loop, todo, to_remove>>
  BY DEF Reader, Read, SeeDisconnect, DropReceiver
<1>3. turns' \in Nat /\ turns <= turns' /\ turns' \in 0 .. MaxTurns
  BY <1>2 DEF IInv, TypeOK
<1>4. BooksOK' /\ Resident' = Resident BY <1>e, <1>2, <1>3, Untouched
<1>5. \A s \in Turns : chan'[s] = IF s = t THEN c ELSE chan[s]
  BY <1>1 DEF IInv, TypeOK
<1>6. Channels(chan')
  <2>1. chan' \in [Turns -> Channel] BY <1>1 DEF IInv, TypeOK
  <2> QED BY <1>1, <1>5, <2>1 DEF Channels, IInv, TypeOK
<1>7. Following(chan')
  <2>1. \A s \in 1 .. turns : s \in Turns
    BY ControllerAssumption DEF ControllerAssumption, IInv, TypeOK, Turns
  <2> QED BY <1>1, <1>5, <2>1 DEF Following
<1>8. Ends' BY <1>2, <1>4, <1>7, EndsStep
<1>9. PassOK' BY <1>2, <1>4 DEF IInv, PassOK, IsTerminal, Generating
<1>10. /\ OlderOK' /\ todo' \in SUBSET Keys /\ to_remove' \in SUBSET Keys
       /\ loop' \in {"recv", "tick", "pass", "stopped"}
  BY <1>2 DEF OlderOK, IInv, TypeOK
<1> QED BY <1>3, <1>4, <1>6, <1>8, <1>9, <1>10, Assembled

-----------------------------------------------------------------------------
(* The invariant.                                                          *)

LEMMA ControllerInit ==
    ASSUME Init
    PROVE  IInv
<1>1. Resident = {} BY DEF Init, Resident
<1>2. /\ Fresh("unused") \in Channel /\ Len(Fresh("unused").q) = 0 /\ Cap \in Nat
      /\ MaxTurns \in Nat
  BY ControllerAssumption DEF ControllerAssumption, Fresh, Channel
<1>3. TypeOK
  <2>1. chats \in [Keys -> Runtime] BY Slots DEF Init
  <2>2. chan \in [Turns -> Channel] /\ \A t \in Turns : Len(chan[t].q) <= Cap
    BY <1>2 DEF Init
  <2>3. NoHooks \in [Turns -> Turns \cup {NoTurn}] BY DEF NoHooks
  <2>4. /\ hooks \in [Turns -> Turns \cup {NoTurn}] /\ stale \in [Turns -> Turns \cup {NoTurn}]
        /\ bare \in BOOLEAN
    BY <2>3 DEF Init
  <2>5. /\ older \in SUBSET (Keys \X Keys) /\ sessions \in SUBSET Turns /\ turns \in 0 .. MaxTurns
        /\ loop \in {"recv", "tick", "pass", "stopped"}
        /\ todo \in SUBSET Keys /\ to_remove \in SUBSET Keys
    BY <1>2 DEF Init
  <2> QED BY <2>1, <2>2, <2>4, <2>5 DEF TypeOK
<1>4. NothingOutlivesItsRuntime BY <1>1 DEF Init, NothingOutlivesItsRuntime, SidsOf, NoHooks
<1> QED BY <1>1, <1>3, <1>4 DEF Init, IInv, Owned, PassOK, Ends

LEMMA ChatCommandStep ==
    ASSUME IInv, NEW k \in ChatIds, ChatCommand(k)
    PROVE  IInv'
<1>1. ASSUME NEW r \in Requests, StartChat(k, r.kind, r.mic)
      PROVE  IInv'
  <2>1. r.kind \in Kinds /\ r.mic \in BOOLEAN
    BY ControllerAssumption DEF ControllerAssumption
  <2> QED BY <1>1, <2>1, RefuseStep, BuildStep DEF StartChat
<1>2. ASSUME NEW r \in Requests, ContinueChat(k, r.kind, r.mic)
      PROVE  IInv'
  <2>1. r.kind \in Kinds /\ r.mic \in BOOLEAN
    BY ControllerAssumption DEF ControllerAssumption
  <2> QED BY <1>2, <2>1, RefuseStep, BuildStep, ExtendStep DEF ContinueChat
<1>3. CASE StopChat(k)
  <2>1. {k} \in SUBSET Resident BY <1>3 DEF StopChat
  <2> QED BY <1>3, <2>1, TerminateCommand DEF StopChat
<1> QED
  BY <1>1, <1>2, <1>3, PushStep, CommitStep, PauseStep, ResumeStep DEF ChatCommand

LEMMA ControllerStep ==
    ASSUME ~StampsCollide, IInv, [Next]_vars
    PROVE  IInv'
<1>1. CASE UNCHANGED vars
  BY <1>1 DEF vars, IInv, TypeOK, Owned, NothingOutlivesItsRuntime, PassOK, Ends, Settled,
     Resident, Generating, SidsOf, IsTerminal, NoHooks
<1>2. CASE UnloadModel
  <2>1. Resident \in SUBSET Resident OBVIOUS
  <2> QED BY <1>2, <2>1, TerminateCommand DEF UnloadModel
<1>3. CASE ReloadModel
  <2>1. OlderOK' BY <1>3 DEF ReloadModel, OlderOK, IInv, TypeOK
  <2> QED BY <1>3, <2>1, TouchStep DEF ReloadModel
<1> QED
  BY <1>1, <1>2, <1>3, ChatCommandStep, SystemInferStep, LoadStep, ShutdownStep, PollStep, TickBeginStep,
     PassEndStep, TickKeeps, ReaderStep DEF Next

\* Every variable keeps its type, and no channel holds more than
\* event_channel_capacity events.
THEOREM ControllerTypes == ASSUME ~StampsCollide PROVE Spec => []TypeOK
<1>1. Init => IInv BY ControllerInit
<1>2. IInv /\ [Next]_vars => IInv' BY ControllerStep
<1>3. IInv => TypeOK BY DEF IInv
<1> QED BY <1>1, <1>2, <1>3, PTL DEF Spec

\* terminate_runtime_owned is called wherever a runtime goes: sessions, hooks
\* and runtimes stay in step, for any number of chats and turns.
THEOREM NothingOutlives == ASSUME ~StampsCollide PROVE Spec => []NothingOutlivesItsRuntime
<1>1. Init => IInv BY ControllerInit
<1>2. IInv /\ [Next]_vars => IInv' BY ControllerStep
<1>3. IInv => NothingOutlivesItsRuntime BY DEF IInv
<1> QED BY <1>1, <1>2, <1>3, PTL DEF Spec

\* The pass retires every system task that finished in it.
THEOREM TasksRetired == ASSUME ~StampsCollide PROVE Spec => []NoFinishedTaskLingers
<1>1. Init => IInv BY ControllerInit
<1>2. IInv /\ [Next]_vars => IInv' BY ControllerStep
<1>3. IInv => NoFinishedTaskLingers BY DEF IInv, PassOK, NoFinishedTaskLingers
<1> QED BY <1>1, <1>2, <1>3, PTL DEF Spec

\* Whoever still holds a sender of a turn's channel is its runtime, or a bus out
\* of reach.
LEMMA SenderIsResident ==
    ASSUME IInv, NEW t \in Turns, HasSender(t), ~Abandoned(t)
    PROVE  \E k \in Resident : chats[k].tx = t
<1>1. ASSUME NEW s \in Turns, hooks[s] = t
      PROVE  \E k \in Resident : chats[k].tx = t
  <2>1. t # NoTurn BY ControllerAssumption DEF ControllerAssumption, Turns, NoTurn
  <2>2. s \in SidsOf(Resident) BY <1>1, <2>1 DEF IInv, NothingOutlivesItsRuntime
  <2>3. PICK k \in Resident : chats[k].sid = s BY <2>2 DEF SidsOf
  <2>4. hooks[chats[k].sid] # chats[k].tx => hooks[chats[k].sid] = NoTurn
    BY DEF IInv, NothingOutlivesItsRuntime
  <2> QED BY <1>1, <2>1, <2>3, <2>4
<1> QED BY <1>1 DEF HasSender, Abandoned

\* A reader that waits has a runtime at work behind it, whatever its turn met.
THEOREM ReaderHasWriter == ASSUME ~StampsCollide PROVE Spec => []WaitingReaderHasWriter
<1>1. Init => IInv BY ControllerInit
<1>2. IInv /\ [Next]_vars => IInv' BY ControllerStep
<1>3. IInv => WaitingReaderHasWriter
  <2> SUFFICES ASSUME IInv, NEW t \in Turns,
                      Reading(t), chan[t].q = <<>>, ~chan[t].lost, HasSender(t),
                      ~Abandoned(t)
               PROVE  \E k \in Resident : Serving(k, t)
    BY DEF WaitingReaderHasWriter
  <2>1. PICK k \in Resident : chats[k].tx = t BY SenderIsResident
  <2>2. ~Settled(chan[t]) BY DEF Settled, Reading
  <2>3. chats[k].run \in AtWork BY <2>1, <2>2 DEF IInv, Ends
  <2> QED BY <2>1, <2>3 DEF Serving, AtWork
<1> QED BY <1>1, <1>2, <1>3, PTL DEF Spec

-----------------------------------------------------------------------------
(* No turn is given up in silence.                                         *)

\* Runtime k goes on with its turn, or the reader of turn t is told.
GoesOn(k) == chats'[k].tx = chats[k].tx /\ chats'[k].run \in AtWork
Told(t) == chan[t].st = "open" => chan'[t].ended \/ chan'[t].lost
EndTold == \A k \in InFlight : GoesOn(k) \/ Told(chats[k].tx)

LEMMA InFlightFacts ==
    ASSUME IInv, NEW k \in InFlight
    PROVE  /\ k \in Resident /\ k \in Keys /\ chats[k].run \in {"Generating", "Capturing"}
           /\ chats[k].tx \in 1 .. turns /\ chats[k].tx \in Turns
           /\ chats'[k] = chats[k] => GoesOn(k)
<1>1. k \in Resident /\ k \in Keys /\ chats[k].run \in {"Generating", "Capturing"}
  BY DEF InFlight, Generating, Capturing, Resident
<1>2. chats[k].tx \in 1 .. turns /\ chats[k].tx \in Turns
  BY <1>1, ControllerAssumption DEF ControllerAssumption, IInv, TypeOK, Owned, Turns
<1> QED BY <1>1, <1>2 DEF GoesOn, AtWork

\* Whoever is notified of an end is told, if what follows on the channel is
\* more events.
LEMMA NotifyTells ==
    ASSUME IInv, NEW ch, Channels(ch), NEW S, NEW e \in Terminal, NEW k \in S, k \in InFlight,
           ch[chats[k].tx].st = chan[chats[k].tx].st,
           Heard(Notify(ch, S, e)[chats[k].tx], chan'[chats[k].tx])
    PROVE  Told(chats[k].tx)
<1>1. chats[k].tx \in Turns BY InFlightFacts
<1>2. chan[chats[k].tx].st = "open"
        => Notify(ch, S, e)[chats[k].tx].ended \/ Notify(ch, S, e)[chats[k].tx].lost
  BY <1>1, NotifyKeeps
<1> QED BY <1>2 DEF Told, Heard

LEMMA TerminateTells ==
    ASSUME IInv, NEW S \in SUBSET Resident, NEW e \in Terminal, Terminate(S, e)
    PROVE  EndTold
<1> SUFFICES ASSUME NEW k \in InFlight PROVE GoesOn(k) \/ Told(chats[k].tx)
  BY DEF EndTold
<1>1. CASE k \in S
  <2>1. Heard(Notify(chan, S, e)[chats[k].tx], chan'[chats[k].tx]) BY DEF Terminate, Heard
  <2> QED BY <1>1, <2>1, Same, NotifyTells
<1>2. CASE k \notin S
  <2>1. chats'[k] = chats[k] BY <1>2, InFlightFacts DEF Terminate, Without
  <2> QED BY <2>1, InFlightFacts
<1> QED BY <1>1, <1>2

LEMMA BuildTells ==
    ASSUME IInv, turns < MaxTurns, NEW k \in ChatIds, k \notin InFlight,
           NEW kind \in Kinds, NEW mic \in BOOLEAN,
           NEW st \in {"open", "closed"}, BuildRuntime(k, kind, mic, Opened(st))
    PROVE  EndTold
<1> DEFINE told(S) == Notify(Opened(st), S, "Stopped")
<1>1. PICK S \in Evictions(k) :
        /\ chan' \in {told(S), Reply(told(S), "Error"), Reply(told(S), "Accepted")}
        /\ \/ chats' = Without(S)
           \/ \E rt : chats' = [Without(S) EXCEPT ![k] = rt]
  BY DEF BuildRuntime
<1>2. Channels(Opened(st)) /\ Channels(told(S)) BY OpenedFollows, NotifyKeeps
<1>3. \A t \in Turns : Heard(told(S)[t], chan'[t])
  <2>1. \A t \in Turns : Heard(told(S)[t], told(S)[t]) BY DEF Heard
  <2>2. NextTurn \in Turns BY OpenedFollows
  <2> HIDE DEF told
  <2> QED BY <1>1, <1>2, <2>1, <2>2, ReplyKeeps
<1> SUFFICES ASSUME NEW j \in InFlight PROVE GoesOn(j) \/ Told(chats[j].tx)
  BY DEF EndTold
<1>4. CASE j \in S
  <2>1. Opened(st)[chats[j].tx].st = chan[chats[j].tx].st BY OpenedFollows, InFlightFacts
  <2>2. Heard(Notify(Opened(st), S, "Stopped")[chats[j].tx], chan'[chats[j].tx])
    BY <1>3, InFlightFacts
  <2> QED BY <1>2, <1>4, <2>1, <2>2, NotifyTells DEF Terminal
<1>5. CASE j \notin S
  <2>1. chats'[j] = chats[j] BY <1>1, <1>5, InFlightFacts DEF Without
  <2> QED BY <2>1, InFlightFacts
<1> QED BY <1>4, <1>5

LEMMA TickTells ==
    ASSUME IInv, NEW k \in Keys, Tick(k)
    PROVE  EndTold
<1> DEFINE t == chats[k].tx
<1>0. Ticks(k)
  BY DEF Tick, TickTimeout, TickSpeechFull, TickSpeechDead, TickNothing, TickToken, TickSpeech,
     TickEnd, Pulls
<1>1. /\ chats[k] \in Runtime /\ chats[k].run = "Generating" /\ t \in Turns
      /\ chan[t] \in Channel /\ Len(chan[t].q) <= Cap
      /\ Flushed(k) \in Channel /\ Len(Flushed(k).q) <= Cap
      /\ Heard(chan[t], Flushed(k))
  BY <1>0, TickFinds
<1> DEFINE Ending(rt, c) ==
              \/ rt.run = "Generating"
              \/ Dead(chan[t])
              \/ \E e \in Terminal : c \in {Push(chan[t], e), Push(Flushed(k), e)}
<1>2. PICK rt, c : /\ \E used : Stepped(k, rt, c, used)
                   /\ rt.tx = t
                   /\ Ending(rt, c)
  <2>1. "Error" \in Terminal BY DEF Terminal
  <2>2. Dead(Flushed(k)) => Dead(chan[t]) BY <1>1 DEF Heard, Dead
  <2>3. CASE TickTimeout(k)
    <3> DEFINE rt == [chats[k] EXCEPT !.run = "Failed", !.speech = FALSE]
    <3>1. Stepped(k, rt, Push(chan[t], "Error"), FALSE) BY <2>3 DEF TickTimeout
    <3>2. rt.tx = t BY <1>1 DEF Runtime
    <3> HIDE DEF rt, t
    <3> QED BY <2>1, <3>1, <3>2
  <2>4. CASE TickSpeechFull(k) BY <1>1, <2>4 DEF TickSpeechFull
  <2>5. CASE TickSpeechDead(k) BY <1>1, <2>5 DEF TickSpeechDead, Runtime
  <2>6. CASE TickNothing(k) BY <1>1, <2>6 DEF TickNothing, Runtime
  <2>7. CASE TickSpeech(k) BY <1>1, <2>7 DEF TickSpeech, Runtime
  <2>8. CASE TickToken(k)
    <3> DEFINE rt == [chats[k] EXCEPT !.speech = FALSE,
                                      !.run = IF Dead(Flushed(k)) THEN "Completed" ELSE @]
    <3>1. Stepped(k, rt, Push(Flushed(k), "Token"), TRUE) BY <2>8 DEF TickToken
    <3>2. rt.tx = t /\ (rt.run = "Generating" \/ Dead(chan[t])) BY <1>1, <2>2 DEF Runtime
    <3> HIDE DEF rt, t
    <3> QED BY <3>1, <3>2
  <2>9. CASE TickEnd(k)
    <3>1. PICK e \in Terminal :
          Stepped(k, [chats[k] EXCEPT !.speech = FALSE,
                                      !.run = IF e = "Error" /\ ~Dead(Flushed(k))
                                              THEN "Failed" ELSE "Completed"],
                  Push(Flushed(k), e), chats[k].speech)
      BY <2>9 DEF TickEnd
    <3> DEFINE rt == [chats[k] EXCEPT !.speech = FALSE,
                                      !.run = IF e = "Error" /\ ~Dead(Flushed(k))
                                              THEN "Failed" ELSE "Completed"]
    <3>2. Stepped(k, rt, Push(Flushed(k), e), chats[k].speech) BY <3>1
    <3>3. rt.tx = t BY <1>1 DEF Runtime
    <3> HIDE DEF rt, t
    <3> QED BY <3>2, <3>3
  <2> QED BY <2>3, <2>4, <2>5, <2>6, <2>7, <2>8, <2>9 DEF Tick
<1>5. /\ chats' = [chats EXCEPT ![k] = rt]
      /\ chan' = [chan EXCEPT ![t] = c]
  BY <1>2 DEF Stepped
<1> SUFFICES ASSUME NEW j \in InFlight PROVE GoesOn(j) \/ Told(chats[j].tx)
  BY DEF EndTold
<1>3. CASE j # k
  <2>1. chats'[j] = chats[j] BY <1>5, <1>3, InFlightFacts DEF IInv, TypeOK
  <2> QED BY <2>1, InFlightFacts
<1>4. CASE j = k
  <2>1. chats'[k] = rt /\ chan'[t] = c BY <1>1, <1>5 DEF IInv, TypeOK
  <2>2. CASE rt.run = "Generating" BY <1>2, <1>4, <2>1, <2>2 DEF GoesOn, AtWork
  <2>3. CASE Dead(chan[t]) BY <1>4, <2>3 DEF Told, Dead
  <2>4. ASSUME NEW e \in Terminal, c \in {Push(chan[t], e), Push(Flushed(k), e)}
        PROVE  Told(t)
    <3>1. Flushed(k).st = chan[t].st BY <1>1 DEF Heard
    <3>2. chan[t].st = "open" => c.ended \/ c.lost BY <1>1, <2>4, <3>1, PushKeeps
    <3> QED BY <2>1, <3>2 DEF Told
  <2> QED BY <1>2, <1>4, <2>2, <2>3, <2>4
<1> QED BY <1>3, <1>4

\* Steps that leave runtimes in flight alone.
LEMMA AloneTells ==
    ASSUME IInv, \A j \in InFlight : chats'[j] = chats[j]
    PROVE  EndTold
<1> SUFFICES ASSUME NEW j \in InFlight PROVE GoesOn(j) BY DEF EndTold
<1> QED BY InFlightFacts

LEMMA ChatCommandTells ==
    ASSUME IInv, NEW k \in ChatIds, ChatCommand(k)
    PROVE  EndTold
<1>0. \A j \in InFlight : j \in Keys /\ j \in Resident BY InFlightFacts
<1>1. ASSUME UNCHANGED chats PROVE EndTold BY <1>1, AloneTells
<1>2. ASSUME NEW r \in Requests, StartChat(k, r.kind, r.mic)
      PROVE  EndTold
  <2>1. r.kind \in Kinds /\ r.mic \in BOOLEAN
    BY ControllerAssumption DEF ControllerAssumption
  <2> QED BY <1>1, <1>2, <2>1, BuildTells DEF StartChat, Refuse
<1>3. ASSUME NEW r \in Requests, ContinueChat(k, r.kind, r.mic)
      PROVE  EndTold
  <2>1. r.kind \in Kinds /\ r.mic \in BOOLEAN
    BY ControllerAssumption DEF ControllerAssumption
  <2>2. ASSUME NEW st \in {"open", "closed"}, k \notin InFlight,
               ExtendRuntime(k, r.kind, r.mic, Opened(st))
        PROVE  EndTold
    <3>1. \A j \in Keys \ {k} : chats'[j] = chats[j]
      BY <2>2 DEF ExtendRuntime, Without, IInv, TypeOK
    <3> QED BY <1>0, <2>2, <3>1, AloneTells
  <2>3. InFlight \subseteq Resident BY <1>0
  <2> QED BY <1>1, <1>3, <2>1, <2>2, <2>3, BuildTells DEF ContinueChat, Refuse
<1>4. ASSUME NEW e \in Terminal, k \in Resident, Terminate({k}, e)
      PROVE  EndTold
  <2>1. {k} \in SUBSET Resident BY <1>4
  <2> QED BY <1>4, <2>1, TerminateTells
<1>5. "Error" \in Terminal /\ "Stopped" \in Terminal BY DEF Terminal
<1>6. CASE PushMicrophone(k) BY <1>1, <1>4, <1>5, <1>6 DEF PushMicrophone, Capturing
<1>7. ASSUME NEW rt, chats' = [chats EXCEPT ![k] = rt], k \in Resident, rt.tx = chats[k].tx,
             rt.run \in AtWork \/ rt.run = chats[k].run
      PROVE  EndTold
  <2> SUFFICES ASSUME NEW j \in InFlight PROVE GoesOn(j) BY DEF EndTold
  <2>1. CASE j # k
    <3>1. chats'[j] = chats[j] BY <1>0, <1>7, <2>1 DEF IInv, TypeOK
    <3> QED BY <3>1, InFlightFacts
  <2>2. CASE j = k
    <3>1. chats'[k] = rt BY <1>0, <1>7, <2>2 DEF IInv, TypeOK
    <3>2. chats[k].run \in AtWork BY <2>2, InFlightFacts DEF AtWork
    <3> QED BY <1>7, <2>2, <3>1, <3>2 DEF GoesOn
  <2> QED BY <2>1, <2>2
<1>8. k \in Resident => chats[k] \in Runtime BY DEF IInv, Owned
<1>9. CASE CommitMicrophone(k)
  <2>1. k \in Resident BY <1>9 DEF CommitMicrophone, Capturing
  <2>2. CASE chats' = [chats EXCEPT ![k].run = "Generating"]
    <3> DEFINE rt == [chats[k] EXCEPT !.run = "Generating"]
    <3>1. rt.tx = chats[k].tx /\ rt.run \in AtWork BY <1>8, <2>1 DEF Runtime, AtWork
    <3>2. chats' = [chats EXCEPT ![k] = rt] BY <2>2
    <3> HIDE DEF rt
    <3> QED BY <1>7, <2>1, <3>1, <3>2
  <2> QED BY <1>1, <1>4, <1>5, <1>9, <2>1, <2>2 DEF CommitMicrophone
<1>10. CASE StopChat(k) BY <1>4, <1>5, <1>10 DEF StopChat
<1>11. CASE PauseChat(k)
  <2> DEFINE rt == [chats[k] EXCEPT !.paused = TRUE,
                                    !.run = IF @ = "Generating" THEN "Paused" ELSE @]
  <2>1. k \in Resident BY <1>11 DEF PauseChat, Pausable
  <2>2. rt.tx = chats[k].tx /\ (rt.run \in AtWork \/ rt.run = chats[k].run)
    BY <1>8, <2>1 DEF Runtime, AtWork
  <2>3. chats' = [chats EXCEPT ![k] = rt] BY <1>11 DEF PauseChat, IInv, TypeOK
  <2> HIDE DEF rt
  <2> QED BY <1>7, <2>1, <2>2, <2>3
<1>12. CASE ResumeChat(k)
  <2>1. k \in Resident BY <1>12 DEF ResumeChat, Pausable
  <2>2. PICK rt : /\ chats' = [chats EXCEPT ![k] = rt]
                  /\ rt \in {[chats[k] EXCEPT !.paused = FALSE, !.run = "Generating"],
                             [chats[k] EXCEPT !.paused = FALSE]}
    BY <1>12, Resumed
  <2>3. rt.tx = chats[k].tx /\ (rt.run \in AtWork \/ rt.run = chats[k].run)
    BY <1>8, <2>1, <2>2 DEF Runtime, AtWork
  <2> QED BY <1>7, <2>1, <2>2, <2>3
<1> QED
  BY <1>2, <1>3, <1>6, <1>9, <1>10, <1>11, <1>12 DEF ChatCommand

LEMMA TickBeginTells ==
    ASSUME IInv, TickBegin
    PROVE  EndTold
<1>1. PICK X \in SUBSET Capturing, idle \in BOOLEAN :
        LET gone == IF idle THEN Resident ELSE X
        IN /\ chats' = Without(gone)
           /\ chan' = Notify(Notify(chan, X, "Error"), gone \ X, "Stopped")
  BY DEF TickBegin
<1> DEFINE gone == IF idle THEN Resident ELSE X
           first == Notify(chan, X, "Error")
<1>2. /\ chats' = Without(gone)
      /\ chan' = Notify(first, gone \ X, "Stopped")
  BY <1>1
<1> HIDE DEF gone
<1>3. Channels(first) /\ \A t \in Turns : Heard(chan[t], first[t])
  BY Same, NotifyKeeps
<1>4. \A t \in Turns : Heard(first[t], chan'[t]) BY <1>2, <1>3, NotifyKeeps
<1>5. "Error" \in Terminal /\ "Stopped" \in Terminal BY DEF Terminal
<1> SUFFICES ASSUME NEW j \in InFlight PROVE GoesOn(j) \/ Told(chats[j].tx)
  BY DEF EndTold
<1>6. chats[j].tx \in Turns /\ j \in Keys /\ (chats'[j] = chats[j] => GoesOn(j)) BY InFlightFacts
<1>7. CASE j \in X
  <2>1. Heard(Notify(chan, X, "Error")[chats[j].tx], chan'[chats[j].tx]) BY <1>4, <1>6
  <2> QED BY <1>5, <1>7, <2>1, Same, NotifyTells
<1>8. CASE j \in gone \ X
  <2>1. Heard(Notify(first, gone \ X, "Stopped")[chats[j].tx], chan'[chats[j].tx])
    BY <1>2 DEF Heard
  <2>2. first[chats[j].tx].st = chan[chats[j].tx].st BY <1>3, <1>6 DEF Heard
  <2> HIDE DEF first
  <2> QED BY <1>3, <1>5, <1>8, <2>1, <2>2, NotifyTells
<1>9. CASE j \notin gone
  <2>1. chats'[j] = chats[j] BY <1>2, <1>6, <1>9 DEF Without
  <2> QED BY <1>6, <2>1
<1> QED BY <1>7, <1>8, <1>9

\* A turn is never given up in silence: whatever step stops work on a turn
\* whose reader is there puts the end on its channel, or finds it full.
THEOREM EndsAreTold == ASSUME ~StampsCollide PROVE Spec => EndIsTold
<1>1. Init => IInv BY ControllerInit
<1>2. IInv /\ [Next]_vars => IInv' BY ControllerStep
<1>3. IInv /\ [Next]_vars => EndTold
  <2> SUFFICES ASSUME IInv, [Next]_vars PROVE EndTold OBVIOUS
  <2>1. ASSUME UNCHANGED chats PROVE EndTold
    BY <2>1, AloneTells
  <2>2. CASE LoadModel \/ UnloadModel \/ Shutdown
    <3>1. Resident \in SUBSET Resident OBVIOUS
    <3>2. UNCHANGED chats \/ Terminate(Resident, "Stopped")
      BY <2>2 DEF LoadModel, Replaced, UnloadModel, Shutdown
    <3> QED BY <2>1, <3>1, <3>2, TerminateTells DEF Terminal
  <2>3. CASE PassEnd
    <3>1. to_remove \in SUBSET Resident BY DEF IInv, PassOK
    <3> QED BY <2>3, <3>1, TerminateTells DEF PassEnd, Terminal
  <2>4. CASE SystemInfer
    <3>1. \A j \in Resident : chats'[j] = chats[j]
      BY <2>4, TaskKeysFree DEF SystemInfer, Refuse, IInv, TypeOK, Resident
    <3> QED BY <3>1, InFlightFacts, AloneTells
  <2>5. UNCHANGED vars \/ ReloadModel \/ Poll => UNCHANGED chats
    BY DEF vars, ReloadModel, Poll
  <2>6. ASSUME NEW t \in Turns, Reader(t) PROVE UNCHANGED chats
    BY <2>6 DEF Reader, Read, SeeDisconnect, DropReceiver
  <2> QED
    BY <2>1, <2>2, <2>3, <2>4, <2>5, <2>6, ChatCommandTells, TickBeginTells, TickTells DEF Next
<1>4. EndTold => \A k \in InFlight, t \in Turns :
        (chats[k].tx = t /\ chan[t].st = "open" /\ ~Serving(k, t)')
            => (chan'[t].ended \/ chan'[t].lost)
  BY DEF EndTold, GoesOn, Told, Serving, AtWork
<1> QED BY <1>1, <1>2, <1>3, <1>4, PTL DEF Spec, EndIsTold

-----------------------------------------------------------------------------
(* Room is made.                                                           *)

\* Each runtime has a session of its own, and no more were ever started than
\* there were turns.
LEMMA ResidentFinite ==
    ASSUME IInv
    PROVE  IsFiniteSet(Resident) /\ Cardinality(Resident) \in Nat
<1> DEFINE f == [k \in Resident |-> chats[k].sid]
<1>1. f \in Injection(Resident, 1 .. turns)
  BY DEF IInv, Owned, NothingOutlivesItsRuntime, Injection, IsInjective
<1>2. IsFiniteSet(1 .. turns)
  BY FS_Interval DEF IInv, TypeOK
<1>3. IsFiniteSet(Resident) BY <1>1, <1>2, FS_Injection
<1> QED BY <1>3, FS_CardinalityType

\* The map is no larger than it was, or within the limit.
RoomLeft == /\ Cardinality(Resident') \in Nat
            /\ \/ Cardinality(Resident') <= Cardinality(Resident)
               \/ Cardinality(Resident') <= MaxActive

LEMMA EvictionsMakeRoom ==
    ASSUME IInv, MaxActive # 0, NEW k, k \notin Resident, NEW S \in Evictions(k),
           Resident' = (Resident \ S) \cup {k}
    PROVE  RoomLeft
<1>1. IsFiniteSet(Resident) /\ Cardinality(Resident) \in Nat /\ MaxActive \in Nat \ {0}
  BY ResidentFinite, ControllerAssumption DEF ControllerAssumption
<1>2. Resident \ {k} = Resident /\ Resident \cap {k} = {} OBVIOUS
<1>3. CASE Cardinality(Resident) >= MaxActive /\ Resident # {}
  <2>1. PICK v \in Resident : S = {v} BY <1>2, <1>3 DEF Evictions, LeastRecent
  <2>2. IsFiniteSet(Resident \ {v}) /\ Cardinality(Resident \ {v}) = Cardinality(Resident) - 1
    BY <1>1, <2>1, FS_RemoveElement
  <2>3. k \notin Resident \ {v} OBVIOUS
  <2>4. Cardinality((Resident \ {v}) \cup {k}) = Cardinality(Resident \ {v}) + 1
    BY <2>2, <2>3, FS_AddElement
  <2> QED BY <1>1, <2>1, <2>2, <2>4 DEF RoomLeft
<1>4. CASE ~ (Cardinality(Resident) >= MaxActive /\ Resident # {})
  <2>1. S = {} BY <1>2, <1>4 DEF Evictions
  <2>2. Resident' = Resident \cup {k} BY <2>1
  <2>3. Cardinality(Resident') = Cardinality(Resident) + 1 BY <1>1, <2>2, FS_AddElement
  <2>4. Resident = {} => Cardinality(Resident) = 0 BY FS_EmptySet
  <2> QED BY <1>1, <1>4, <2>3, <2>4 DEF RoomLeft
<1> QED BY <1>3, <1>4

\* Only StartChat and ContinueChat bring a chat into the map, and they build it.
LEMMA ChatArrives ==
    ASSUME ~StampsCollide, IInv, Next, NEW k \in ChatIds, k \notin Resident, k \in Resident'
    PROVE  \E S \in Evictions(k) : Resident' = (Resident \ S) \cup {k}
<1>0. k \in Keys /\ k \notin TaskIds /\ chats[k] = NoRt /\ chats'[k] # NoRt
  BY ControllerAssumption DEF ControllerAssumption, Keys, Resident
<1>1. \A S : chats' # Without(S) BY <1>0 DEF Without
<1>2. \A j \in Keys \ {k} : \A rt : chats' # [chats EXCEPT ![j] = rt]
  BY <1>0 DEF IInv, TypeOK
<1>4. chats' # chats BY <1>0
<1>5. \A S, e : ~Terminate(S, e) BY <1>1 DEF Terminate
<1>6. ASSUME NEW j \in ChatIds, NEW kind \in Kinds, NEW mic \in BOOLEAN,
             NEW st \in {"open", "closed"}, BuildRuntime(j, kind, mic, Opened(st))
      PROVE  \E S \in Evictions(k) : Resident' = (Resident \ S) \cup {k}
  <2>1. PICK S \in Evictions(j) :
          chats' = Without(S) \/ \E rt : chats' = [Without(S) EXCEPT ![j] = rt]
    BY <1>6 DEF BuildRuntime
  <2>2. PICK rt : chats' = [Without(S) EXCEPT ![j] = rt] BY <1>1, <2>1
  <2>3. \A i \in Keys : chats'[i] = IF i = j THEN rt ELSE IF i \in S THEN NoRt ELSE chats[i]
    BY <2>2 DEF Without
  <2>4. j = k BY <1>0, <2>3
  <2>5. Resident' = (Resident \ S) \cup {k} BY <1>0, <2>3, <2>4 DEF Resident
  <2> QED BY <2>1, <2>4, <2>5
<1>7. ASSUME NEW j \in ChatIds, ChatCommand(j)
      PROVE  \E S \in Evictions(k) : Resident' = (Resident \ S) \cup {k}
  <2>0. j \in Keys /\ (j \in Resident => j # k) BY DEF Keys
  <2>1. \A r \in Requests : r.kind \in Kinds /\ r.mic \in BOOLEAN
    BY ControllerAssumption DEF ControllerAssumption
  <2>2. ASSUME NEW r \in Requests, StartChat(j, r.kind, r.mic)
        PROVE  \E S \in Evictions(k) : Resident' = (Resident \ S) \cup {k}
    BY <1>4, <1>6, <2>1, <2>2 DEF StartChat, Refuse
  <2>3. ASSUME NEW r \in Requests, ContinueChat(j, r.kind, r.mic)
        PROVE  \E S \in Evictions(k) : Resident' = (Resident \ S) \cup {k}
    <3>1. ASSUME NEW st \in {"open", "closed"}, j \in Resident,
                 ExtendRuntime(j, r.kind, r.mic, Opened(st))
          PROVE  FALSE
      BY <1>1, <1>2, <2>0, <3>1 DEF ExtendRuntime
    <3> QED BY <1>4, <1>6, <2>1, <2>3, <3>1 DEF ContinueChat, Refuse
  <2>4. ASSUME NEW rt, chats' = [chats EXCEPT ![j] = rt], j \in Resident PROVE FALSE
    BY <1>2, <2>0, <2>4
  <2>5. ~PushMicrophone(j) BY <1>4, <1>5 DEF PushMicrophone
  <2>6. ~CommitMicrophone(j) BY <1>4, <1>5, <2>4 DEF CommitMicrophone, Capturing
  <2>7. ~StopChat(j) BY <1>5 DEF StopChat
  <2>8. ~PauseChat(j) BY <2>4 DEF PauseChat, Pausable, IInv, TypeOK
  <2>9. ~ResumeChat(j) BY <2>4 DEF ResumeChat, Pausable, IInv, TypeOK
  <2> QED BY <1>7, <2>2, <2>3, <2>5, <2>6, <2>7, <2>8, <2>9 DEF ChatCommand
<1>8. ~SystemInfer
  <2>1. \A j \in TaskKeys : j \in Keys /\ j # k BY <1>0, TaskKeysFree
  <2> QED BY <1>2, <1>4, <2>1 DEF SystemInfer, Refuse
<1>9. ~ (LoadModel \/ UnloadModel \/ ReloadModel \/ Shutdown \/ Poll \/ PassEnd)
  BY <1>4, <1>5 DEF LoadModel, Replaced, UnloadModel, ReloadModel, Shutdown, Poll, PassEnd
<1>10. ~TickBegin BY <1>1 DEF TickBegin
<1>11. ASSUME NEW j \in Keys, Tick(j) PROVE FALSE
  <2>1. Ticks(j) /\ \E rt, c, used : Stepped(j, rt, c, used)
    BY <1>11 DEF Tick, TickTimeout, TickSpeechFull, TickSpeechDead, TickNothing, TickToken,
       TickSpeech, TickEnd, Pulls
  <2>2. j # k BY <2>1 DEF Ticks, IInv, PassOK, Generating
  <2> QED BY <1>2, <2>1, <2>2 DEF Stepped
<1>12. ASSUME NEW t \in Turns, Reader(t) PROVE FALSE
  BY <1>4, <1>12 DEF Reader, Read, SeeDisconnect, DropReceiver
<1> QED BY <1>7, <1>8, <1>9, <1>10, <1>11, <1>12 DEF Next

\* A chat that becomes resident makes room, for every limit but zero, which
\* the public setter rules out (max_active_chats is raised to one).
THEOREM RoomMade ==
    ASSUME ~StampsCollide, MaxActive # 0
    PROVE  Spec => RoomIsMade
<1>1. Init => IInv BY ControllerInit
<1>2. IInv /\ [Next]_vars => IInv' BY ControllerStep
<1> DEFINE Made == \A k \in ChatIds :
              (chats[k] = NoRt /\ chats'[k] # NoRt)
                  => \/ Cardinality(Resident') <= Cardinality(Resident)
                     \/ Cardinality(Resident') <= MaxActive
<1>3. IInv /\ [Next]_vars => [Made]_vars
  <2> SUFFICES ASSUME IInv, Next, NEW k \in ChatIds, chats[k] = NoRt, chats'[k] # NoRt
               PROVE  RoomLeft
    BY DEF RoomLeft
  <2>1. k \notin Resident /\ k \in Resident' BY DEF Resident, Keys
  <2> QED BY <2>1, ChatArrives, EvictionsMakeRoom
<1> QED BY <1>1, <1>2, <1>3, PTL DEF Spec, RoomIsMade
=============================================================================
