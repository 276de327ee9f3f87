----------------------------- MODULE LlamaProofs ----------------------------
(***************************************************************************)
(* Theorems about LlamaSession, for any window, sizes, store and bounds:   *)
(* the cache of a session holds its transcript, a reply answers what was   *)
(* asked, rounds are dropped whole and the store keeps its budget.         *)
(***************************************************************************)
EXTENDS LlamaSession, SequenceTheorems, WellFoundedInduction, TLAPS

Roles == {"system", "user", "tool", "assistant", "tools"}
Msgs == [role : Roles, id : Nat, size : Nat, calls : SUBSET Nat, answers : Nat]

\* Turns are the messages of a transcript, Asks those that no model wrote.
Turns == {m \in Msgs : m.role # "tools"}
Asks == {m \in Turns : m.role # "assistant"}

Blocks == [of : Msgs, by : {"prompt", "sampled"}, size : Nat]
Owners == Models \cup {0}
Snaps == [messages : Seq(Turns), kv : Seq(Blocks), cur_pos : Nat, model : Owners]
Chats == {"mine"} \cup {Others[i].chat : i \in DOMAIN Others}
Files == [chat : Chats, size : Nat, snap : Snaps]

Ofs(kv) == [i \in 1 .. Len(kv) |-> kv[i].of]
Said(kv) == Among(Ofs(kv), Turns)
Asked(kv) == Among(Ofs(kv), Asks)

Types ==
    /\ model \in Models
    /\ history \in Seq(Turns) /\ held \in 0 .. Len(history)
    /\ live \in {"none", "starting", "pulling", "idle", "broken"}
    /\ sess \in [model : Owners, messages : Seq(Turns), kv : Seq(Blocks), cur_pos : Nat,
                 restored : BOOLEAN]
    /\ "removed" \in DOMAIN cut /\ cut.removed \in Nat
    /\ disk \in Seq(Files)
    /\ count \in [ids : Nat, edits : Nat, saves : Nat]

-----------------------------------------------------------------------------
(* The invariant.                                                          *)

\* A call is answered by the message right behind it, and an answer stands right behind
\* its call. The last message may have a call that nobody has answered yet.
Linked(ms) ==
    /\ \A i, j \in 1 .. Len(ms) : ms[i].id = ms[j].id => i = j
    /\ \A i \in 1 .. Len(ms) :
          /\ ms[i].calls \in {{}, {ms[i].id}}
          /\ ms[i].calls # {} => ms[i].role = "assistant" /\ ms[i].id # 0
          /\ ms[i].answers # NoCall => ms[i].role = "tool"
          /\ ms[i].calls # {} /\ i < Len(ms) => ms[i + 1].answers = ms[i].id
          /\ ms[i].answers # NoCall => i > 1 /\ ms[i - 1].calls = {ms[i].answers}

Conversation ==
    /\ Linked(history)
    /\ \A i \in 1 .. Len(history) :
          /\ history[i].id \in 1 .. count.ids
          /\ history[i].role \in {"user", "tool", "assistant"}
    /\ \/ Len(history) <= MaxMessages
       \/ Len(history) = MaxMessages + 1 /\ LastOf(history).role = "assistant"
    /\ live \in {"starting", "pulling"} =>
          history # <<>> /\ LastOf(history).role \in {"user", "tool"}

\* What is not the transcript in a cache at rest: the reply that follows it.
NoReplyBehind(k) == \A i \in k + 1 .. Len(history) : history[i].role # "assistant"
Transcribed(s) ==
    \/ Said(s.kv) = s.messages /\ (held > 0 => NoReplyBehind(held))
    \/ LET r == LastOf(s.kv).of
       IN /\ r.role = "assistant" /\ r \notin ToSet(s.messages)
          /\ Said(s.kv) = Append(s.messages, r)
          /\ held > 0 => held < Len(history) /\ history[held + 1] = r /\ NoReplyBehind(held + 1)

Starting ==
    live = "starting" =>
        /\ Len(sess.messages) >= 2 /\ sess.messages[1] = System
        /\ Linked(sess.messages) /\ LastOf(sess.messages) = LastOf(history)

Pulling ==
    live = "pulling" =>
        /\ sess.kv # <<>> /\ LastOf(sess.kv).of = LastOf(history) /\ held = Len(history)
        /\ IF sess.restored THEN Asked(sess.kv) = NotReplies(sess.messages)
           ELSE Said(sess.kv) = sess.messages

Idle ==
    live = "idle" =>
        IF sess.kv = <<>> THEN Tokens(sess.messages) > Limit(Ctx, MaxTokens)
        ELSE IF sess.restored THEN Asked(sess.kv) = NotReplies(sess.messages)
        ELSE Transcribed(sess)

Sessions ==
    /\ live # "none" =>
          /\ sess.messages # <<>> /\ Head(sess.messages).role = "system"
          /\ \A i \in 1 .. Len(sess.messages) :
                /\ sess.messages[i].id <= count.ids
                /\ sess.messages[i].role = "assistant" => sess.messages[i].id # 0
    /\ live \in {"pulling", "idle"} => sess.cur_pos = Tokens(sess.kv) /\ sess.cur_pos <= Ctx
    /\ Starting /\ Pulling /\ Idle

SnapOK(snap) ==
    /\ snap.cur_pos = Tokens(snap.kv)
    /\ snap.kv # <<>> => Asked(snap.kv) = NotReplies(snap.messages)

Store ==
    /\ \A i, j \in 1 .. Len(disk) : disk[i].chat = disk[j].chat => i = j
    /\ \A i \in 1 .. Len(disk) : disk[i].chat = "mine" => SnapOK(disk[i].snap)

Inv == Types /\ Conversation /\ Sessions /\ Store
-----------------------------------------------------------------------------
(* Sequences and values that are built element by element.                 *)

LEMMA LeastNat ==
    ASSUME NEW T \in SUBSET Nat, T # {}
    PROVE  \E n \in T : \A m \in T : n <= m
<1> DEFINE R == OpToRel(<, Nat)
<1>1. IsWellFoundedOn(R, Nat)
  BY NatLessThanWellFounded
<1>2. \E x \in T : \A y \in T : ~ (<<y, x>> \in R)
  <2> HIDE DEF R
  <2> QED BY <1>1, WFMin
<1>3. \A x, y \in Nat : y < x => <<y, x>> \in R
  BY DEF OpToRel
<1> HIDE DEF R
<1>4. PICK x \in T : \A y \in T : ~ (<<y, x>> \in R)
  BY <1>2
<1>5. \A y \in T : ~ (y < x)
  BY <1>3, <1>4
<1> QED BY <1>4, <1>5

\* What holds of 0 and is handed on by each number below n holds up to n.
LEMMA UpTo ==
    ASSUME NEW n \in Nat, NEW T, 0 \in T, \A k \in 1 .. n : k - 1 \in T => k \in T
    PROVE  \A k \in 0 .. n : k \in T
<1> DEFINE U == {k \in 0 .. n : k \notin T}
<1> SUFFICES ASSUME U # {} PROVE FALSE
  OBVIOUS
<1>1. PICK k \in U : \A m \in U : k <= m
  <2>1. U \in SUBSET Nat
    OBVIOUS
  <2> HIDE DEF U
  <2> QED BY <2>1, LeastNat
<1>2. k \in 1 .. n /\ k - 1 \in 0 .. n /\ ~(k <= k - 1)
  OBVIOUS
<1>3. k - 1 \notin U
  <2> HIDE DEF U
  <2> QED BY <1>1, <1>2
<1> QED BY <1>2, <1>3

\* What holds of the empty sequence and is kept by Append holds of every sequence.
LEMMA BySequence ==
    ASSUME NEW X, NEW T, <<>> \in T,
           \A s \in Seq(X), x \in X : s \in T => Append(s, x) \in T
    PROVE  Seq(X) \subseteq T
<1> SUFFICES ASSUME NEW s \in Seq(X) PROVE s \in T
  OBVIOUS
<1> DEFINE n == Len(s)
           P == {k \in 0 .. n : SubSeq(s, 1, k) \in T}
<1>1. n \in Nat
  OBVIOUS
<1>2. 0 \in P
  <2>1. SubSeq(s, 1, 0) = <<>>
    OBVIOUS
  <2>2. 0 \in 0 .. n
    BY <1>1
  <2>3. SubSeq(s, 1, 0) \in T
    BY <2>1
  <2> HIDE DEF n
  <2> QED BY <2>2, <2>3
<1>3. ASSUME NEW k \in 1 .. n, k - 1 \in P PROVE k \in P
  <2>1. /\ SubSeq(s, 1, k - 1) \in Seq(X) /\ s[k] \in X
        /\ SubSeq(s, 1, k) = Append(SubSeq(s, 1, k - 1), s[k])
    BY <1>1
  <2>2. SubSeq(s, 1, k - 1) \in T /\ k \in 0 .. n
    BY <1>1, <1>3
  <2>3. Append(SubSeq(s, 1, k - 1), s[k]) \in T
    BY <2>1, <2>2
  <2> QED BY <2>1, <2>2, <2>3
<1>4. \A k \in 0 .. n : k \in P
  <2> HIDE DEF P, n
  <2> QED BY <1>1, <1>2, <1>3, UpTo
<1>5. n \in P
  <2>1. n \in 0 .. n
    BY <1>1
  <2> HIDE DEF P, n
  <2> QED BY <1>4, <2>1
<1>6. SubSeq(s, 1, n) = s
  OBVIOUS
<1> QED BY <1>5, <1>6

\* s starts at z and each of its first k steps is the one that `step` tells.
Follows(s, k, z, step) == s[0] = z /\ \A i \in 1 .. k : s[i] = step[i][s[i - 1]]

\* Whatever the steps, there is a course of any length that follows them.
LEMMA CourseExists ==
    ASSUME NEW A, NEW z \in A, NEW n \in Nat, NEW step \in [1 .. n -> [A -> A]]
    PROVE  \E s \in [0 .. n -> A] : Follows(s, n, z, step)
<1> DEFINE T == {k \in 0 .. n : \E s \in [0 .. k -> A] : Follows(s, k, z, step)}
<1>1. 0 \in T
  <2> DEFINE s == [i \in 0 .. 0 |-> z]
  <2>1. s \in [0 .. 0 -> A] /\ Follows(s, 0, z, step)
    BY DEF Follows
  <2> HIDE DEF s
  <2> QED BY <2>1
<1>2. ASSUME NEW k \in 1 .. n, k - 1 \in T PROVE k \in T
  <2>1. PICK s \in [0 .. k - 1 -> A] : Follows(s, k - 1, z, step)
    BY <1>2
  <2> DEFINE g == [i \in 0 .. k |-> IF i = k THEN step[k][s[k - 1]] ELSE s[i]]
  <2>2. step[k] \in [A -> A] /\ s[k - 1] \in A
    OBVIOUS
  <2>3. g \in [0 .. k -> A]
    BY <2>2
  <2>4. g[0] = z
    BY <2>1 DEF Follows
  <2>5. ASSUME NEW i \in 1 .. k PROVE g[i] = step[i][g[i - 1]]
    <3>1. CASE i = k
      BY <3>1
    <3>2. CASE i # k
      <4>1. i \in 1 .. k - 1 /\ g[i] = s[i] /\ g[i - 1] = s[i - 1]
        BY <3>2
      <4> QED BY <4>1, <2>1 DEF Follows
    <3> QED BY <3>1, <3>2
  <2>6. Follows(g, k, z, step)
    <3> HIDE DEF g
    <3> QED BY <2>4, <2>5 DEF Follows
  <2> HIDE DEF g
  <2> QED BY <2>3, <2>6
<1>3. \A k \in 0 .. n : k \in T
  <2> HIDE DEF T
  <2> QED BY <1>1, <1>2, UpTo
<1> QED BY <1>3

\* Two courses agree as far as their steps do.
LEMMA CoursesAgree ==
    ASSUME NEW n \in Nat, NEW z, NEW a, NEW b, NEW st, NEW su,
           Follows(a, n, z, st), Follows(b, n, z, su),
           \A i \in 1 .. n : st[i] = su[i]
    PROVE  \A i \in 0 .. n : a[i] = b[i]
<1> DEFINE T == {k \in 0 .. n : a[k] = b[k]}
<1>1. 0 \in T
  BY DEF Follows
<1>2. ASSUME NEW k \in 1 .. n, k - 1 \in T PROVE k \in T
  BY <1>2 DEF Follows
<1>3. \A k \in 0 .. n : k \in T
  <2> HIDE DEF T
  <2> QED BY <1>1, <1>2, UpTo
<1> QED BY <1>3

-----------------------------------------------------------------------------
(* Tokens.                                                                 *)

Sized(X) == \A x \in X : x.size \in Nat

\* What each element adds.
Additions(ms) == [i \in 1 .. Len(ms) |-> [x \in Nat |-> x + ms[i].size]]

LEMMA TokensIs ==
    ASSUME NEW X, Sized(X), NEW ms \in Seq(X)
    PROVE  \E f \in [0 .. Len(ms) -> Nat] :
              Follows(f, Len(ms), 0, Additions(ms)) /\ Tokens(ms) = f[Len(ms)]
<1> DEFINE n == Len(ms)
           step == Additions(ms)
           upTo[i \in 0 .. n] == IF i = 0 THEN 0 ELSE upTo[i - 1] + ms[i].size
<1>1. n \in Nat /\ \A i \in 1 .. n : ms[i].size \in Nat
  BY DEF Sized
<1>2. step \in [1 .. n -> [Nat -> Nat]]
  BY <1>1 DEF Additions
<1>3. PICK s \in [0 .. n -> Nat] : Follows(s, n, 0, step)
  <2> HIDE DEF n, step
  <2> QED BY <1>1, <1>2, CourseExists
<1>4. \A i \in 1 .. n : s[i] = s[i - 1] + ms[i].size
  <2> SUFFICES ASSUME NEW i \in 1 .. n PROVE s[i] = s[i - 1] + ms[i].size
    OBVIOUS
  <2>1. s[i - 1] \in Nat
    BY <1>1
  <2>2. step[i] = [x \in Nat |-> x + ms[i].size]
    BY DEF Additions
  <2> QED BY <1>3, <2>1, <2>2 DEF Follows
<1>5. s = [i \in 0 .. n |-> IF i = 0 THEN 0 ELSE s[i - 1] + ms[i].size]
  <2>1. \A i \in 0 .. n : s[i] = IF i = 0 THEN 0 ELSE s[i - 1] + ms[i].size
    BY <1>1, <1>3, <1>4 DEF Follows
  <2> HIDE DEF n
  <2> QED BY <2>1
<1>6. upTo = [i \in 0 .. n |-> IF i = 0 THEN 0 ELSE upTo[i - 1] + ms[i].size]
  BY <1>5 DEF upTo
<1>7. Tokens(ms) = upTo[n]
  BY DEF Tokens
<1> HIDE DEF upTo
<1>8. upTo[0] = 0 /\ \A i \in 1 .. n : upTo[i] = upTo[i - 1] + ms[i].size
  BY <1>1, <1>6
<1> DEFINE T == {k \in 0 .. n : upTo[k] \in Nat}
<1>9. \A k \in 0 .. n : upTo[k] \in Nat
  <2>1. 0 \in T
    BY <1>1, <1>8
  <2>2. ASSUME NEW k \in 1 .. n, k - 1 \in T PROVE k \in T
    BY SMTT(30), <1>1, <1>8, <2>2
  <2>3. \A k \in 0 .. n : k \in T
    <3> HIDE DEF T, n
    <3> QED BY <1>1, <2>1, <2>2, UpTo
  <2> QED BY <2>3
<1>10. upTo \in [0 .. n -> Nat]
  <2> HIDE DEF n
  <2> QED BY <1>6, <1>9
<1>11. Follows(upTo, n, 0, step)
  <2>1. \A i \in 1 .. n : upTo[i] = step[i][upTo[i - 1]]
    <3> SUFFICES ASSUME NEW i \in 1 .. n PROVE upTo[i] = step[i][upTo[i - 1]]
      OBVIOUS
    <3>1. upTo[i - 1] \in Nat
      BY <1>1, <1>9
    <3>2. step[i] = [x \in Nat |-> x + ms[i].size]
      BY DEF Additions
    <3> QED BY <1>8, <3>1, <3>2
  <2> QED BY <1>8, <2>1 DEF Follows
<1> QED BY <1>7, <1>10, <1>11

LEMMA TokensNone == Tokens(<<>>) = 0
<1>1. \E f \in [0 .. 0 -> Nat] : f[0] = 0 /\ Tokens(<<>>) = f[0]
  <2> DEFINE X == {}
  <2>1. Sized(X) /\ <<>> \in Seq(X) /\ Len(<<>>) = 0
    BY DEF Sized
  <2> HIDE DEF X
  <2> QED BY <2>1, TokensIs DEF Follows
<1> QED BY <1>1

LEMMA TokensMore ==
    ASSUME NEW X, Sized(X), NEW ms \in Seq(X), NEW x \in X
    PROVE  /\ Tokens(ms) \in Nat
           /\ Tokens(Append(ms, x)) = Tokens(ms) + x.size
<1> DEFINE n == Len(ms)
           more == Append(ms, x)
           st == Additions(ms)
           su == Additions(more)
<1>1. /\ n \in Nat /\ more \in Seq(X) /\ Len(more) = n + 1 /\ more[n + 1] = x
      /\ \A i \in 1 .. n : more[i] = ms[i]
  OBVIOUS
<1>2. PICK f \in [0 .. n -> Nat] : Follows(f, n, 0, st) /\ Tokens(ms) = f[n]
  BY TokensIs
<1>3. PICK g : /\ g \in [0 .. n + 1 -> Nat]
               /\ Follows(g, n + 1, 0, su) /\ Tokens(more) = g[n + 1]
  <2>1. \E g \in [0 .. Len(more) -> Nat] :
           Follows(g, Len(more), 0, su) /\ Tokens(more) = g[Len(more)]
    <3> HIDE DEF more
    <3> QED BY <1>1, TokensIs
  <2> QED BY <1>1, <2>1
<1>0. n \in Nat
  OBVIOUS
<1>4. Follows(g, n, 0, su)
  <2> HIDE DEF n, su, more
  <2> QED BY <1>0, <1>3 DEF Follows
<1>5. \A i \in 1 .. n : st[i] = su[i]
  BY <1>1 DEF Additions
<1>6. f[n] = g[n] /\ g[n] \in Nat
  <2>1. \A i \in 0 .. n : f[i] = g[i]
    <3> HIDE DEF n, st, su, more
    <3> QED BY <1>0, <1>2, <1>4, <1>5, CoursesAgree
  <2> HIDE DEF n
  <2> QED BY <1>1, <2>1
<1>7. g[n + 1] = g[n] + x.size
  <2>1. su[n + 1] = [y \in Nat |-> y + x.size]
    BY <1>1 DEF Additions
  <2>2. n + 1 \in 1 .. n + 1 /\ (n + 1) - 1 = n
    BY <1>1
  <2> HIDE DEF su, n, more
  <2> QED BY <1>3, <1>6, <2>1, <2>2 DEF Follows
<1> QED BY <1>2, <1>3, <1>6, <1>7

LEMMA TokensNat ==
    ASSUME NEW X, Sized(X), NEW ms \in Seq(X)
    PROVE  Tokens(ms) \in Nat
<1>1. PICK f \in [0 .. Len(ms) -> Nat] : Tokens(ms) = f[Len(ms)]
  BY TokensIs
<1>2. Len(ms) \in Nat
  OBVIOUS
<1> QED BY <1>1, <1>2

LEMMA TokensJoin ==
    ASSUME NEW X, Sized(X), NEW a \in Seq(X), NEW b \in Seq(X)
    PROVE  Tokens(a \o b) = Tokens(a) + Tokens(b)
<1> DEFINE T == {t \in Seq(X) : Tokens(a \o t) = Tokens(a) + Tokens(t)}
<1>1. <<>> \in T
  <2>1. a \o <<>> = a /\ Tokens(a) \in Nat /\ Tokens(<<>>) = 0
    BY TokensNat, TokensNone
  <2> QED BY <2>1
<1>2. ASSUME NEW s \in Seq(X), NEW x \in X, s \in T PROVE Append(s, x) \in T
  <2>1. a \o Append(s, x) = Append(a \o s, x) /\ a \o s \in Seq(X) /\ Append(s, x) \in Seq(X)
    OBVIOUS
  <2>2. Tokens(Append(a \o s, x)) = Tokens(a \o s) + x.size
    BY <2>1, TokensMore
  <2>3. Tokens(Append(s, x)) = Tokens(s) + x.size /\ Tokens(s) \in Nat /\ Tokens(a) \in Nat
    BY TokensMore, TokensNat
  <2>4. x.size \in Nat
    BY DEF Sized
  <2>5. Tokens(a \o s) = Tokens(a) + Tokens(s)
    BY <1>2
  <2>6. Tokens(a \o Append(s, x)) = Tokens(a) + Tokens(Append(s, x))
    <3>1. Tokens(a \o Append(s, x)) = Tokens(a) + Tokens(s) + x.size
      BY <2>1, <2>2, <2>5
    <3> QED BY <2>3, <2>4, <3>1
  <2> QED BY <2>1, <2>6
<1>3. b \in T
  <2> HIDE DEF T
  <2> QED BY <1>1, <1>2, BySequence
<1> QED BY <1>3

\* Sequences of the same sizes have the same tokens, whatever else they hold.
LEMMA TokensAlike ==
    ASSUME NEW X, Sized(X), NEW Y, Sized(Y), NEW a \in Seq(X), NEW b \in Seq(Y),
           Len(a) = Len(b), \A i \in 1 .. Len(a) : a[i].size = b[i].size
    PROVE  Tokens(a) = Tokens(b)
<1> DEFINE n == Len(a)
           st == Additions(a)
           su == Additions(b)
<1>1. n \in Nat /\ n = Len(b)
  OBVIOUS
<1>2. PICK f \in [0 .. n -> Nat] : Follows(f, n, 0, st) /\ Tokens(a) = f[n]
  BY TokensIs
<1>3. PICK g \in [0 .. n -> Nat] : Follows(g, n, 0, su) /\ Tokens(b) = g[n]
  BY TokensIs
<1>4. \A i \in 1 .. n : st[i] = su[i]
  BY <1>1 DEF Additions
<1>5. \A i \in 0 .. n : f[i] = g[i]
  <2> HIDE DEF n, st, su
  <2> QED BY <1>1, <1>2, <1>3, <1>4, CoursesAgree
<1>6. n \in 0 .. n
  BY <1>1
<1> QED BY <1>2, <1>3, <1>5, <1>6

-----------------------------------------------------------------------------
(* What of a sequence is in a set.                                         *)

\* What each element does to the selection.
Selections(X, s, S) ==
    [i \in 1 .. Len(s) |-> [q \in Seq(X) |-> IF s[i] \in S THEN Append(q, s[i]) ELSE q]]

LEMMA AmongIs ==
    ASSUME NEW X, NEW S, NEW s \in Seq(X)
    PROVE  \E f : /\ f \in [0 .. Len(s) -> Seq(X)]
                  /\ Follows(f, Len(s), <<>>, Selections(X, s, S)) /\ Among(s, S) = f[Len(s)]
<1> DEFINE n == Len(s)
           step == Selections(X, s, S)
           After(q, i) == IF s[i] \in S THEN Append(q, s[i]) ELSE q
           upTo[i \in 0 .. n] ==
              IF i = 0 THEN <<>>
              ELSE IF s[i] \in S THEN Append(upTo[i - 1], s[i]) ELSE upTo[i - 1]
<1>1. n \in Nat /\ \A i \in 1 .. n : s[i] \in X
  OBVIOUS
<1>2. step \in [1 .. n -> [Seq(X) -> Seq(X)]]
  BY <1>1 DEF Selections
<1>3. PICK f \in [0 .. n -> Seq(X)] : Follows(f, n, <<>>, step)
  <2>1. <<>> \in Seq(X)
    OBVIOUS
  <2> HIDE DEF n, step
  <2> QED BY <1>1, <1>2, <2>1, CourseExists
<1>4. \A i \in 1 .. n : f[i] = After(f[i - 1], i)
  <2> SUFFICES ASSUME NEW i \in 1 .. n PROVE f[i] = After(f[i - 1], i)
    OBVIOUS
  <2>1. f[i - 1] \in Seq(X)
    BY <1>1
  <2>2. step[i] = [q \in Seq(X) |-> After(q, i)]
    BY DEF Selections
  <2>3. f[i] = step[i][f[i - 1]]
    BY <1>3 DEF Follows
  <2> HIDE DEF step, After
  <2> QED BY <2>1, <2>2, <2>3
<1>5. f = [i \in 0 .. n |-> IF i = 0 THEN <<>>
                            ELSE IF s[i] \in S THEN Append(f[i - 1], s[i]) ELSE f[i - 1]]
  <2>1. \A i \in 0 .. n : f[i] = IF i = 0 THEN <<>>
                                 ELSE IF s[i] \in S THEN Append(f[i - 1], s[i]) ELSE f[i - 1]
    <3> SUFFICES ASSUME NEW i \in 0 .. n
                 PROVE f[i] = IF i = 0 THEN <<>> ELSE After(f[i - 1], i)
      OBVIOUS
    <3>1. f[0] = <<>> /\ (i # 0 => i \in 1 .. n)
      BY <1>1, <1>3 DEF Follows
    <3> HIDE DEF After
    <3> QED BY <1>4, <3>1
  <2> HIDE DEF n
  <2> QED BY <2>1
<1>6. upTo = [i \in 0 .. n |-> IF i = 0 THEN <<>>
                               ELSE IF s[i] \in S THEN Append(upTo[i - 1], s[i]) ELSE upTo[i - 1]]
  BY <1>5 DEF upTo
<1>7. Among(s, S) = upTo[n]
  BY DEF Among
<1> HIDE DEF upTo
<1>8. upTo[0] = <<>> /\ \A i \in 1 .. n : upTo[i] = After(upTo[i - 1], i)
  <2>1. 0 \in 0 .. n /\ \A i \in 1 .. n : i \in 0 .. n /\ i # 0
    BY <1>1
  <2> HIDE DEF n
  <2> QED BY <1>6, <2>1
<1> DEFINE T == {k \in 0 .. n : upTo[k] = f[k]}
<1>9. \A k \in 0 .. n : upTo[k] = f[k]
  <2>1. 0 \in T
    BY <1>1, <1>3, <1>8 DEF Follows
  <2>2. ASSUME NEW k \in 1 .. n, k - 1 \in T PROVE k \in T
    <3>1. upTo[k - 1] = f[k - 1] /\ k \in 0 .. n
      BY <1>1, <2>2
    <3> HIDE DEF After
    <3> QED BY <1>4, <1>8, <3>1
  <2>3. \A k \in 0 .. n : k \in T
    <3> HIDE DEF T, n
    <3> QED BY <1>1, <2>1, <2>2, UpTo
  <2> QED BY <2>3
<1>10. n \in 0 .. n
  BY <1>1
<1> QED BY <1>3, <1>7, <1>9, <1>10

LEMMA AmongNone == ASSUME NEW S PROVE Among(<<>>, S) = <<>>
<1> DEFINE X == {}
<1>1. <<>> \in Seq(X) /\ Len(<<>>) = 0
  OBVIOUS
<1>2. PICK f : Follows(f, Len(<<>>), <<>>, Selections(X, <<>>, S)) /\ Among(<<>>, S) = f[Len(<<>>)]
  <2> HIDE DEF X
  <2> QED BY <1>1, AmongIs
<1> QED BY <1>1, <1>2 DEF Follows

\* Whether an element is in S or in R makes no difference where they agree on the elements.
LEMMA AmongAlike ==
    ASSUME NEW X, NEW s \in Seq(X), NEW S, NEW R, \A i \in 1 .. Len(s) : s[i] \in S <=> s[i] \in R
    PROVE  Among(s, S) = Among(s, R)
<1> DEFINE n == Len(s)
           st == Selections(X, s, S)
           su == Selections(X, s, R)
<1>1. n \in Nat
  OBVIOUS
<1>2. PICK f : Follows(f, n, <<>>, st) /\ Among(s, S) = f[n]
  BY AmongIs
<1>3. PICK g : Follows(g, n, <<>>, su) /\ Among(s, R) = g[n]
  BY AmongIs
<1>4. \A i \in 1 .. n : st[i] = su[i]
  BY DEF Selections
<1>5. \A i \in 0 .. n : f[i] = g[i]
  <2> HIDE DEF n, st, su
  <2> QED BY <1>1, <1>2, <1>3, <1>4, CoursesAgree
<1>6. n \in 0 .. n
  BY <1>1
<1> QED BY <1>2, <1>3, <1>5, <1>6

LEMMA AmongMore ==
    ASSUME NEW X, NEW S, NEW s \in Seq(X), NEW x \in X
    PROVE  /\ Among(s, S) \in Seq(X)
           /\ Among(Append(s, x), S) = IF x \in S THEN Append(Among(s, S), x) ELSE Among(s, S)
<1> DEFINE n == Len(s)
           more == Append(s, x)
           st == Selections(X, s, S)
           su == Selections(X, more, S)
<1>1. /\ n \in Nat /\ more \in Seq(X) /\ Len(more) = n + 1 /\ more[n + 1] = x
      /\ \A i \in 1 .. n : more[i] = s[i]
  OBVIOUS
<1>0. n \in Nat
  OBVIOUS
<1>2. PICK f : f \in [0 .. n -> Seq(X)] /\ Follows(f, n, <<>>, st) /\ Among(s, S) = f[n]
  BY AmongIs
<1>3. PICK g : Follows(g, n + 1, <<>>, su) /\ Among(more, S) = g[n + 1]
  <2>1. \E g : Follows(g, Len(more), <<>>, su) /\ Among(more, S) = g[Len(more)]
    <3> HIDE DEF more
    <3> QED BY <1>1, AmongIs
  <2> QED BY <1>1, <2>1
<1>4. Follows(g, n, <<>>, su)
  <2> HIDE DEF n, su, more
  <2> QED BY <1>0, <1>3 DEF Follows
<1>5. \A i \in 1 .. n : st[i] = su[i]
  BY <1>1 DEF Selections
<1>6. f[n] = g[n] /\ f[n] \in Seq(X)
  <2>1. \A i \in 0 .. n : f[i] = g[i]
    <3> HIDE DEF n, st, su, more
    <3> QED BY <1>0, <1>2, <1>4, <1>5, CoursesAgree
  <2> HIDE DEF n
  <2> QED BY <1>0, <1>2, <2>1
<1>7. g[n + 1] = IF x \in S THEN Append(g[n], x) ELSE g[n]
  <2>1. su[n + 1] = [q \in Seq(X) |-> IF x \in S THEN Append(q, x) ELSE q]
    <3>1. n + 1 \in 1 .. Len(more)
      BY <1>0, <1>1
    <3> HIDE DEF n, more
    <3> QED BY <1>1, <3>1 DEF Selections
  <2>2. n + 1 \in 1 .. n + 1 /\ (n + 1) - 1 = n
    BY <1>0
  <2>3. g[n + 1] = su[n + 1][g[n]]
    <3> HIDE DEF su, n, more
    <3> QED BY <1>3, <2>2 DEF Follows
  <2> HIDE DEF su, n, more
  <2> QED BY <1>6, <2>1, <2>3
<1> QED BY <1>2, <1>3, <1>6, <1>7

LEMMA AmongType ==
    ASSUME NEW X, NEW S, NEW s \in Seq(X)
    PROVE  Among(s, S) \in Seq(X)
<1>1. PICK f : /\ f \in [0 .. Len(s) -> Seq(X)]
               /\ Follows(f, Len(s), <<>>, Selections(X, s, S)) /\ Among(s, S) = f[Len(s)]
  BY AmongIs
<1>2. Len(s) \in 0 .. Len(s)
  OBVIOUS
<1> QED BY <1>1, <1>2

\* Names for two operators, by which the following fact can be cited.
Joined(p, q) == p \o q
More(p, x) == Append(p, x)

LEMMA JoinMore ==
    ASSUME NEW X, NEW p \in Seq(X), NEW q \in Seq(X), NEW x \in X
    PROVE  More(Joined(p, q), x) = Joined(p, More(q, x))
BY DEF Joined, More

LEMMA AmongJoinMore ==
    ASSUME NEW X, NEW S, NEW p \in Seq(X), NEW q \in Seq(X), NEW x \in X,
           Among(p \o q, S) = Among(p, S) \o Among(q, S)
    PROVE  Among(p \o Append(q, x), S) = Among(p, S) \o Among(Append(q, x), S)
<1>1. p \o q \in Seq(X) /\ Append(p \o q, x) = p \o Append(q, x)
  <2>1. More(Joined(p, q), x) = Joined(p, More(q, x))
    BY JoinMore
  <2>2. Append(p \o q, x) = p \o Append(q, x)
    BY <2>1, Zenon DEF Joined, More
  <2>3. p \o q \in Seq(X)
    OBVIOUS
  <2> QED BY <2>2, <2>3
<1> DEFINE r == p \o q
<1>2. r \in Seq(X)
  BY <1>1
<1>3. Among(Append(r, x), S) = IF x \in S THEN Append(Among(r, S), x) ELSE Among(r, S)
  <2> HIDE DEF r
  <2> QED BY <1>2, AmongMore
<1>4. Among(Append(q, x), S) = IF x \in S THEN Append(Among(q, S), x) ELSE Among(q, S)
  BY AmongMore
<1> DEFINE u == Among(p, S)
           v == Among(q, S)
<1>5. u \in Seq(X) /\ v \in Seq(X)
  BY AmongType
<1>6. Append(u \o v, x) = u \o Append(v, x)
  <2> HIDE DEF u, v
  <2>1. More(Joined(u, v), x) = Joined(u, More(v, x))
    BY <1>5, JoinMore
  <2> QED BY <2>1, Zenon DEF Joined, More
<1>7. Among(p \o Append(q, x), S) = IF x \in S THEN Append(u \o v, x) ELSE u \o v
  BY <1>1, <1>3
<1> QED BY <1>4, <1>6, <1>7

LEMMA AmongJoin ==
    ASSUME NEW X, NEW S, NEW a \in Seq(X), NEW b \in Seq(X)
    PROVE  Among(a \o b, S) = Among(a, S) \o Among(b, S)
<1> DEFINE T == {t \in Seq(X) : Among(a \o t, S) = Among(a, S) \o Among(t, S)}
<1>1. <<>> \in T
  <2>1. a \o <<>> = a /\ Among(a, S) \in Seq(X) /\ Among(<<>>, S) = <<>>
    BY AmongType, AmongNone
  <2> QED BY <2>1
<1>2. ASSUME NEW s \in Seq(X), NEW x \in X, s \in T PROVE Append(s, x) \in T
  <2>1. Among(a \o s, S) = Among(a, S) \o Among(s, S)
    BY <1>2
  <2>2. Among(a \o Append(s, x), S) = Among(a, S) \o Among(Append(s, x), S)
    <3> HIDE DEF T
    <3> QED BY <2>1, AmongJoinMore
  <2>3. Append(s, x) \in Seq(X)
    OBVIOUS
  <2> QED BY <2>2, <2>3
<1>3. b \in T
  <2> HIDE DEF T
  <2> QED BY <1>1, <1>2, BySequence
<1> QED BY <1>3

LEMMA AmongAll ==
    ASSUME NEW S, NEW s \in Seq(S)
    PROVE  Among(s, S) = s
<1> DEFINE T == {t \in Seq(S) : Among(t, S) = t}
<1>1. <<>> \in T
  BY AmongNone
<1>2. ASSUME NEW t \in Seq(S), NEW x \in S, t \in T PROVE Append(t, x) \in T
  BY <1>2, AmongMore
<1>3. s \in T
  <2> HIDE DEF T
  <2> QED BY <1>1, <1>2, BySequence
<1> QED BY <1>3

\* A selection holds what the set holds.
LEMMA AmongIn ==
    ASSUME NEW X, NEW S, NEW s \in Seq(X)
    PROVE  Among(s, S) \in Seq(X \cap S)
<1> DEFINE T == {t \in Seq(X) : Among(t, S) \in Seq(X \cap S)}
<1>1. <<>> \in T
  <2>1. <<>> \in Seq(X) /\ <<>> \in Seq(X \cap S)
    OBVIOUS
  <2> QED BY <2>1, AmongNone
<1>2. ASSUME NEW t \in Seq(X), NEW x \in X, t \in T PROVE Append(t, x) \in T
  <2>1. Among(Append(t, x), S) = IF x \in S THEN Append(Among(t, S), x) ELSE Among(t, S)
    BY AmongMore
  <2>2. Among(t, S) \in Seq(X \cap S) /\ Append(t, x) \in Seq(X)
    BY <1>2
  <2>3. Among(Append(t, x), S) \in Seq(X \cap S)
    BY <2>1, <2>2
  <2> QED BY <2>2, <2>3
<1>3. s \in T
  <2> HIDE DEF T
  <2> QED BY <1>1, <1>2, BySequence
<1> QED BY <1>3

\* A narrower selection may be made of a wider one.
LEMMA AmongTwice ==
    ASSUME NEW X, NEW S, NEW R, R \subseteq S, NEW s \in Seq(X)
    PROVE  Among(Among(s, S), R) = Among(s, R)
<1> DEFINE T == {t \in Seq(X) : Among(Among(t, S), R) = Among(t, R)}
<1>1. <<>> \in T
  <2>1. Among(<<>>, S) = <<>> /\ Among(<<>>, R) = <<>>
    BY AmongNone
  <2>2. <<>> \in Seq(X)
    OBVIOUS
  <2> QED BY <2>1, <2>2
<1>2. ASSUME NEW t \in Seq(X), NEW x \in X, t \in T PROVE Append(t, x) \in T
  <2>1. Among(Append(t, x), S) = IF x \in S THEN Append(Among(t, S), x) ELSE Among(t, S)
    BY AmongMore
  <2>2. Among(Append(t, x), R) = IF x \in R THEN Append(Among(t, R), x) ELSE Among(t, R)
    BY AmongMore
  <2>3. Append(t, x) \in Seq(X) /\ Among(t, S) \in Seq(X)
    BY AmongType
  <2>4. Among(Append(Among(t, S), x), R)
           = IF x \in R THEN Append(Among(Among(t, S), R), x) ELSE Among(Among(t, S), R)
    BY <2>3, AmongMore
  <2>5. Among(Among(t, S), R) = Among(t, R)
    BY <1>2
  <2>6. Among(Among(Append(t, x), S), R) = Among(Append(t, x), R)
    <3>1. CASE x \in R
      BY <2>1, <2>2, <2>4, <2>5, <3>1
    <3>2. CASE x \notin R /\ x \in S
      BY <2>1, <2>2, <2>4, <2>5, <3>2
    <3>3. CASE x \notin S
      BY <2>1, <2>2, <2>5, <3>3
    <3> QED BY <3>1, <3>2, <3>3
  <2> QED BY <2>3, <2>6
<1>3. s \in T
  <2> HIDE DEF T
  <2> QED BY <1>1, <1>2, BySequence
<1> QED BY <1>3

\* A selection ends as the sequence does, when that end is selected.
LEMMA AmongLast ==
    ASSUME NEW X, NEW S, NEW s \in Seq(X), s # <<>>, LastOf(s) \in S
    PROVE  Among(s, S) # <<>> /\ LastOf(Among(s, S)) = LastOf(s)
<1> DEFINE n == Len(s)
           front == SubSeq(s, 1, n - 1)
<1>1. n \in Nat \ {0} /\ front \in Seq(X) /\ s[n] \in X /\ s = Append(front, s[n]) /\ LastOf(s) = s[n]
  BY DEF LastOf
<1>2. Among(s, S) = Append(Among(front, S), s[n]) /\ Among(front, S) \in Seq(X)
  <2>1. /\ Among(front, S) \in Seq(X)
        /\ Among(Append(front, s[n]), S)
              = IF s[n] \in S THEN Append(Among(front, S), s[n]) ELSE Among(front, S)
    <3> HIDE DEF front, n
    <3> QED BY <1>1, AmongMore
  <2> HIDE DEF front, n
  <2> QED BY <1>1, <2>1
<1>3. ASSUME NEW q \in Seq(X), NEW x PROVE Append(q, x) # <<>> /\ LastOf(Append(q, x)) = x
  BY DEF LastOf
<1> HIDE DEF front, n
<1> QED BY <1>1, <1>2, <1>3

-----------------------------------------------------------------------------
(* Messages and blocks.                                                    *)

LEMMA Sizes0 == Sized(Msgs) /\ Sized(Blocks) /\ Sized(Files) /\ Sized(Turns) /\ Sized(Asks)
BY DEF Sized, Msgs, Blocks, Files, Turns, Asks

LEMMA TurnsAre ==
    /\ \A m \in Turns : /\ m \in Msgs /\ m.role \in Roles /\ m.role # "tools" /\ m.id \in Nat
                        /\ m.size \in Nat /\ m.calls \in SUBSET Nat /\ m.answers \in Nat
    /\ \A m : m \in Asks <=> m \in Turns /\ m.role # "assistant"
BY DEF Turns, Asks, Msgs

LEMMA SystemIs ==
    /\ System \in Turns /\ System.role = "system" /\ System.id = 0
    /\ System.calls = {} /\ System.answers = NoCall
    /\ Summary \in Turns /\ Summary.role = "system" /\ Summary.id = 0
<1>1. System \in Msgs
  BY DEF System, Msgs, Roles, NoCall
<1>2. Summary \in Msgs
  BY TruncationAssumption DEF Summary, Msgs, Roles, NoCall
<1> QED BY <1>1, <1>2 DEF System, Summary, Turns

LEMMA MessageIs ==
    ASSUME NEW role \in Roles \ {"tools"}, NEW size \in Nat, NEW calls \in SUBSET Nat,
           NEW answers \in Nat, count.ids \in Nat
    PROVE  LET m == Message(role, size, calls, answers)
           IN m \in Turns /\ m.role = role /\ m.id = count.ids + 1 /\ m.size = size
              /\ m.calls = calls /\ m.answers = answers
<1>1. Message(role, size, calls, answers) \in Msgs
  BY DEF Message, Msgs
<1> QED BY <1>1 DEF Message, Turns

LEMMA BlockIs ==
    ASSUME NEW m \in Msgs, NEW by \in {"prompt", "sampled"}
    PROVE  Block(m, by) \in Blocks /\ Block(m, by).of = m /\ Block(m, by).size = m.size
<1>1. m.size \in Nat
  BY DEF Msgs
<1> QED BY <1>1 DEF Block, Blocks

LEMMA ToolBlockIs == ToolBlock \in Blocks /\ ToolBlock.of.role = "tools" /\ ToolBlock.size = ToolsSize
<1>1. [System EXCEPT !.role = "tools"] \in Msgs
  BY DEF System, Msgs, Roles, NoCall
<1>2. [System EXCEPT !.role = "tools"].role = "tools"
  BY DEF System
<1>3. ToolsSize \in Nat
  BY LlamaSessionAssumption
<1> QED BY <1>1, <1>2, <1>3 DEF ToolBlock, Blocks

LEMMA SubTurns == Seq(Turns) \subseteq Seq(Msgs) /\ Seq(Asks) \subseteq Seq(Turns)
<1>1. Turns \subseteq Msgs /\ Asks \subseteq Turns
  BY DEF Turns, Asks
<1> QED BY <1>1

LEMMA OfsAre ==
    ASSUME NEW kv \in Seq(Blocks)
    PROVE  /\ Ofs(kv) \in Seq(Msgs) /\ Len(Ofs(kv)) = Len(kv)
           /\ \A i \in 1 .. Len(kv) : Ofs(kv)[i] = kv[i].of
<1>1. \A i \in 1 .. Len(kv) : kv[i].of \in Msgs
  <2>1. \A i \in 1 .. Len(kv) : kv[i] \in Blocks
    OBVIOUS
  <2> QED BY <2>1 DEF Blocks
<1> QED BY <1>1 DEF Ofs

LEMMA OfsJoin ==
    ASSUME NEW a \in Seq(Blocks), NEW b \in Seq(Blocks)
    PROVE  Ofs(a \o b) = Ofs(a) \o Ofs(b)
<1>1. a \o b \in Seq(Blocks) /\ Len(a \o b) = Len(a) + Len(b)
  OBVIOUS
<1>2. Len(Ofs(a) \o Ofs(b)) = Len(a) + Len(b) /\ Ofs(a) \o Ofs(b) \in Seq(Msgs)
  BY OfsAre
<1>3. Ofs(a \o b) \in Seq(Msgs) /\ Len(Ofs(a \o b)) = Len(a) + Len(b)
  <2> DEFINE c == a \o b
  <2>1. c \in Seq(Blocks) /\ Len(c) = Len(a) + Len(b)
    BY <1>1
  <2> HIDE DEF c
  <2>2. Ofs(c) \in Seq(Msgs) /\ Len(Ofs(c)) = Len(a) + Len(b)
    BY <2>1, OfsAre
  <2> QED BY <2>2 DEF c
<1>4. ASSUME NEW i \in 1 .. Len(a) + Len(b) PROVE Ofs(a \o b)[i] = (Ofs(a) \o Ofs(b))[i]
  <2>0. Len(a) \in Nat /\ Len(b) \in Nat
    OBVIOUS
  <2>1. Ofs(a \o b)[i] = (a \o b)[i].of
    BY <1>1 DEF Ofs
  <2>2. CASE i <= Len(a)
    <3>1. (a \o b)[i] = a[i] /\ i \in 1 .. Len(a)
      BY <2>0, <2>2
    <3>2. (Ofs(a) \o Ofs(b))[i] = Ofs(a)[i]
      BY <2>2, <2>0, <3>1, OfsAre
    <3> QED BY <2>1, <3>1, <3>2, OfsAre
  <2>3. CASE i > Len(a)
    <3>1. (a \o b)[i] = b[i - Len(a)] /\ i - Len(a) \in 1 .. Len(b)
      BY <2>0, <2>3
    <3>2. (Ofs(a) \o Ofs(b))[i] = Ofs(b)[i - Len(a)]
      BY <2>3, <2>0, <3>1, OfsAre
    <3> QED BY <2>1, <3>1, <3>2, OfsAre
  <2>4. i <= Len(a) \/ i > Len(a)
    <3> DEFINE n == Len(a)
    <3>1. n \in Nat /\ i \in Nat
      BY <2>0
    <3> HIDE DEF n
    <3>2. i <= n \/ i > n
      BY <3>1
    <3> QED BY <3>2 DEF n
  <2> QED BY <2>2, <2>3, <2>4
<1> DEFINE u == Ofs(a \o b)
           v == Ofs(a) \o Ofs(b)
<1>5. u \in Seq(Msgs) /\ v \in Seq(Msgs) /\ Len(u) = Len(v) /\ \A i \in 1 .. Len(u) : u[i] = v[i]
  BY <1>2, <1>3, <1>4
<1>6. u = v
  <2> HIDE DEF u, v
  <2> QED BY <1>5
<1> QED BY <1>6

LEMMA RenderedAre ==
    ASSUME NEW ms \in Seq(Msgs)
    PROVE  /\ Rendered(ms) \in Seq(Blocks) /\ Len(Rendered(ms)) = Len(ms)
           /\ Ofs(Rendered(ms)) = ms /\ Tokens(Rendered(ms)) = Tokens(ms)
           /\ \A i \in 1 .. Len(ms) : Rendered(ms)[i].of = ms[i]
<1>1. \A i \in 1 .. Len(ms) : ms[i] \in Msgs
  OBVIOUS
<1>2. \A i \in 1 .. Len(ms) : /\ Block(ms[i], "prompt") \in Blocks /\ Block(ms[i], "prompt").of = ms[i]
                              /\ Block(ms[i], "prompt").size = ms[i].size
  BY <1>1, BlockIs
<1>3. DOMAIN ms = 1 .. Len(ms) /\ Len(ms) \in Nat
  OBVIOUS
<1>4. /\ Rendered(ms) \in Seq(Blocks) /\ Len(Rendered(ms)) = Len(ms)
      /\ \A i \in 1 .. Len(ms) : Rendered(ms)[i] = Block(ms[i], "prompt")
  BY <1>2, <1>3 DEF Rendered
<1>5. Ofs(Rendered(ms)) = ms
  <2>1. Ofs(Rendered(ms)) = [i \in 1 .. Len(ms) |-> ms[i]]
    BY <1>2, <1>4 DEF Ofs
  <2> QED BY <1>3, <2>1
<1>6. Tokens(Rendered(ms)) = Tokens(ms)
  <2> DEFINE r == Rendered(ms)
  <2>1. r \in Seq(Blocks) /\ Len(r) = Len(ms) /\ \A i \in 1 .. Len(r) : r[i].size = ms[i].size
    BY <1>2, <1>4
  <2> HIDE DEF r
  <2>2. Tokens(r) = Tokens(ms)
    BY <2>1, Sizes0, TokensAlike
  <2> QED BY <2>2 DEF r
<1> QED BY <1>2, <1>4, <1>5, <1>6

LEMMA OfsMore ==
    ASSUME NEW kv \in Seq(Blocks), NEW b \in Blocks
    PROVE  Ofs(Append(kv, b)) = Append(Ofs(kv), b.of) /\ b.of \in Msgs
<1>1. /\ Append(kv, b) \in Seq(Blocks) /\ Len(Append(kv, b)) = Len(kv) + 1 /\ Len(kv) \in Nat
      /\ Append(kv, b)[Len(kv) + 1] = b /\ \A i \in 1 .. Len(kv) : Append(kv, b)[i] = kv[i]
  OBVIOUS
<1>2. b.of \in Msgs
  BY DEF Blocks
<1>3. Ofs(kv) \in Seq(Msgs) /\ Len(Ofs(kv)) = Len(kv) /\ \A i \in 1 .. Len(kv) : Ofs(kv)[i] = kv[i].of
  BY OfsAre
<1> DEFINE u == Ofs(Append(kv, b))
           v == Append(Ofs(kv), b.of)
<1>4. v \in Seq(Msgs) /\ Len(v) = Len(kv) + 1 /\ v[Len(kv) + 1] = b.of
      /\ \A i \in 1 .. Len(kv) : v[i] = kv[i].of
  BY <1>2, <1>3
<1>5. u \in Seq(Msgs) /\ Len(u) = Len(kv) + 1 /\ \A i \in 1 .. Len(kv) + 1 : u[i] = Append(kv, b)[i].of
  <2> DEFINE k == Append(kv, b)
  <2>1. k \in Seq(Blocks) /\ Len(k) = Len(kv) + 1
    BY <1>1
  <2> HIDE DEF k
  <2>2. Ofs(k) \in Seq(Msgs) /\ Len(Ofs(k)) = Len(kv) + 1 /\ \A i \in 1 .. Len(kv) + 1 : Ofs(k)[i] = k[i].of
    BY <2>1, OfsAre
  <2> QED BY <2>2 DEF k
<1>6. \A i \in 1 .. Len(kv) + 1 : u[i] = v[i]
  <2> HIDE DEF u, v
  <2> QED BY <1>1, <1>4, <1>5
<1>7. u = v
  <2> HIDE DEF u, v
  <2> QED BY <1>1, <1>4, <1>5, <1>6
<1> QED BY <1>2, <1>7

-----------------------------------------------------------------------------
(* What a cache says.                                                      *)

LEMMA NotRepliesIs ==
    ASSUME NEW ms \in Seq(Turns)
    PROVE  NotReplies(ms) = Among(ms, Asks) /\ NotReplies(ms) \in Seq(Asks)
<1>1. \A i \in 1 .. Len(ms) : ms[i] \in Turns
  OBVIOUS
<1>2. \A i \in 1 .. Len(ms) : ms[i] \in ToSet(ms)
  <2>1. DOMAIN ms = 1 .. Len(ms)
    OBVIOUS
  <2> QED BY <2>1 DEF ToSet
<1>3. \A i \in 1 .. Len(ms) : ms[i] \in {m \in ToSet(ms) : m.role # "assistant"} <=> ms[i] \in Asks
  BY <1>1, <1>2 DEF Asks
<1>4. NotReplies(ms) = Among(ms, Asks)
  BY <1>3, AmongAlike DEF NotReplies
<1>5. Among(ms, Asks) \in Seq(Turns \cap Asks)
  BY AmongIn
<1>6. Turns \cap Asks = Asks
  BY DEF Asks
<1> QED BY <1>4, <1>5, <1>6

LEMMA NotRepliesJoin ==
    ASSUME NEW a \in Seq(Turns), NEW b \in Seq(Turns)
    PROVE  NotReplies(a \o b) = NotReplies(a) \o NotReplies(b)
<1> DEFINE c == a \o b
<1>1. c \in Seq(Turns)
  OBVIOUS
<1>2. NotReplies(c) = Among(c, Asks)
  <2> HIDE DEF c
  <2> QED BY <1>1, NotRepliesIs
<1>3. Among(a \o b, Asks) = Among(a, Asks) \o Among(b, Asks)
  BY AmongJoin
<1>4. NotReplies(a) = Among(a, Asks) /\ NotReplies(b) = Among(b, Asks)
  BY NotRepliesIs
<1> QED BY <1>2, <1>3, <1>4

LEMMA NotRepliesMore ==
    ASSUME NEW a \in Seq(Turns), NEW r \in Turns, r.role = "assistant"
    PROVE  NotReplies(Append(a, r)) = NotReplies(a)
<1> DEFINE c == Append(a, r)
<1>1. c \in Seq(Turns)
  OBVIOUS
<1>2. NotReplies(c) = Among(c, Asks)
  <2> HIDE DEF c
  <2> QED BY <1>1, NotRepliesIs
<1>3. r \notin Asks
  BY DEF Asks
<1> QED BY <1>2, <1>3, NotRepliesIs, AmongMore

LEMMA SaidJoin ==
    ASSUME NEW kv \in Seq(Blocks), NEW ms \in Seq(Turns)
    PROVE  /\ kv \o Rendered(ms) \in Seq(Blocks)
           /\ Said(kv \o Rendered(ms)) = Said(kv) \o ms
           /\ Asked(kv \o Rendered(ms)) = Asked(kv) \o NotReplies(ms)
           /\ Tokens(kv \o Rendered(ms)) = Tokens(kv) + Tokens(ms)
<1>1. ms \in Seq(Msgs)
  BY SubTurns
<1>2. Rendered(ms) \in Seq(Blocks) /\ Ofs(Rendered(ms)) = ms /\ Tokens(Rendered(ms)) = Tokens(ms)
  BY <1>1, RenderedAre
<1>3. Ofs(kv) \in Seq(Msgs) /\ Ofs(kv \o Rendered(ms)) = Ofs(kv) \o ms
  BY <1>2, OfsAre, OfsJoin
<1>4. Among(ms, Turns) = ms /\ Among(ms, Asks) = NotReplies(ms)
  BY AmongAll, NotRepliesIs
<1>5. Said(kv \o Rendered(ms)) = Said(kv) \o ms
  <2>1. Among(Ofs(kv) \o ms, Turns) = Among(Ofs(kv), Turns) \o Among(ms, Turns)
    BY <1>1, <1>3, AmongJoin
  <2> QED BY <1>3, <1>4, <2>1 DEF Said
<1>6. Asked(kv \o Rendered(ms)) = Asked(kv) \o NotReplies(ms)
  <2>1. Among(Ofs(kv) \o ms, Asks) = Among(Ofs(kv), Asks) \o Among(ms, Asks)
    BY <1>1, <1>3, AmongJoin
  <2> QED BY <1>3, <1>4, <2>1 DEF Asked
<1>7. Tokens(kv \o Rendered(ms)) = Tokens(kv) + Tokens(ms)
  BY <1>2, Sizes0, TokensJoin
<1> QED BY <1>2, <1>5, <1>6, <1>7

LEMMA SaidType ==
    ASSUME NEW kv \in Seq(Blocks)
    PROVE  /\ Said(kv) \in Seq(Turns) /\ Asked(kv) \in Seq(Asks)
           /\ Asked(kv) = NotReplies(Said(kv))
<1>1. Ofs(kv) \in Seq(Msgs)
  BY OfsAre
<1>2. Msgs \cap Turns = Turns /\ Msgs \cap Asks = Asks /\ Turns \cap Asks = Asks
  BY DEF Turns, Asks
<1>3. Said(kv) \in Seq(Msgs \cap Turns)
  BY <1>1, AmongIn DEF Said
<1>4. Asked(kv) \in Seq(Msgs \cap Asks)
  BY <1>1, AmongIn DEF Asked
<1>5. Said(kv) \in Seq(Turns) /\ Asked(kv) \in Seq(Asks)
  BY <1>2, <1>3, <1>4
<1>6. NotReplies(Said(kv)) = Among(Said(kv), Asks)
  BY <1>5, NotRepliesIs
<1>7. Among(Among(Ofs(kv), Turns), Asks) = Among(Ofs(kv), Asks)
  <2>1. Asks \subseteq Turns
    BY DEF Asks
  <2> QED BY <1>1, <2>1, AmongTwice
<1> QED BY <1>5, <1>6, <1>7 DEF Asked, Said

LEMMA SaidMore ==
    ASSUME NEW kv \in Seq(Blocks), NEW b \in Blocks, b.of \in Turns, b.of.role = "assistant"
    PROVE  /\ Said(Append(kv, b)) = Append(Said(kv), b.of)
           /\ Asked(Append(kv, b)) = Asked(kv)
<1>1. Ofs(kv) \in Seq(Msgs) /\ Ofs(Append(kv, b)) = Append(Ofs(kv), b.of) /\ b.of \in Msgs
  BY OfsAre, OfsMore
<1>2. b.of \notin Asks
  BY DEF Asks
<1>3. Among(Append(Ofs(kv), b.of), Turns) = Append(Among(Ofs(kv), Turns), b.of)
  BY <1>1, AmongMore
<1>4. Among(Append(Ofs(kv), b.of), Asks) = Among(Ofs(kv), Asks)
  BY <1>1, <1>2, AmongMore
<1> QED BY <1>1, <1>3, <1>4 DEF Said, Asked

LEMMA SaidNone == Said(<<>>) = <<>> /\ Asked(<<>>) = <<>>
<1>1. Ofs(<<>>) = <<>>
  BY DEF Ofs
<1> QED BY <1>1, AmongNone DEF Said, Asked

\* A prompt says the messages it was rendered from.
LEMMA PromptSays ==
    ASSUME NEW ms \in Seq(Turns)
    PROVE  Prompt(ms) \in Seq(Blocks) /\ Said(Prompt(ms)) = ms
<1>1. Said(<<>> \o Rendered(ms)) = <<>> \o ms /\ <<>> \o Rendered(ms) \in Seq(Blocks)
  <2>1. <<>> \in Seq(Blocks)
    OBVIOUS
  <2> QED BY <2>1, SaidJoin, SaidNone
<1>2. ToolBlock \in Blocks /\ ToolBlock.of \notin Turns /\ ToolBlock.of \in Msgs
  BY ToolBlockIs DEF Turns, Blocks
<1>3. <<ToolBlock>> \in Seq(Blocks) /\ Append(<<>>, ToolBlock) = <<ToolBlock>> /\ <<>> \in Seq(Blocks)
  BY <1>2
<1>4. Said(<<ToolBlock>>) = <<>>
  <2>1. Ofs(Append(<<>>, ToolBlock)) = Append(Ofs(<<>>), ToolBlock.of)
    BY <1>2, <1>3, OfsMore
  <2>2. Ofs(<<>>) \in Seq(Msgs)
    BY <1>3, OfsAre
  <2>3. Among(Append(Ofs(<<>>), ToolBlock.of), Turns) = Among(Ofs(<<>>), Turns)
    BY <1>2, <2>2, AmongMore
  <2> QED BY <1>3, <2>1, <2>3, SaidNone DEF Said
<1>5. /\ Said(<<ToolBlock>> \o Rendered(ms)) = <<>> \o ms
      /\ <<ToolBlock>> \o Rendered(ms) \in Seq(Blocks)
  BY <1>3, <1>4, SaidJoin
<1>6. <<>> \o ms = ms
  OBVIOUS
<1> QED BY <1>1, <1>5, <1>6 DEF Prompt

-----------------------------------------------------------------------------
(* Truncation.                                                             *)

LEMMA RoundLenIs ==
    ASSUME NEW ms \in Seq(Turns), NEW at \in 1 .. Len(ms)
    PROVE  RoundLen(ms, at) \in Nat \ {0}
<1> DEFINE C == Closings(ms, at)
<1>1. CASE ms[at].calls = {} \/ C = {}
  BY <1>1 DEF RoundLen
<1>2. CASE ~(ms[at].calls = {} \/ C = {})
  <2>1. C \in SUBSET (at + 1 .. Len(ms)) /\ at \in Nat
    BY DEF Closings
  <2>2. C \in SUBSET Nat
    BY <2>1
  <2>3. \E j \in C : \A k \in C : j <= k
    <3> HIDE DEF C
    <3> QED BY <1>2, <2>2, LeastNat
  <2> DEFINE c == CHOOSE j \in C : \A k \in C : j <= k
  <2>4. c \in C
    <3> HIDE DEF C
    <3> QED BY <2>3
  <2>5. c \in Nat /\ c >= at + 1
    <3> HIDE DEF C, c
    <3> QED BY <2>1, <2>4
  <2>6. RoundLen(ms, at) = c - at + 1
    BY <1>2 DEF RoundLen
  <2> HIDE DEF c
  <2> QED BY <2>1, <2>5, <2>6
<1> QED BY <1>1, <1>2

\* d is ms without k messages behind the first.
Shortened(ms, d, k) ==
    /\ d \in Seq(Turns) /\ k \in Nat /\ Len(d) = Len(ms) - k
    /\ d[1] = ms[1] /\ \A i \in 2 .. Len(d) : d[i] = ms[i + k]
    /\ k # 0 => Len(d) >= 2 /\ k = RoundLen(ms, 2)

LEMMA DropIs ==
    ASSUME NEW ms \in Seq(Turns), ms # <<>>, Head(ms).role = "system"
    PROVE  \E k : Shortened(ms, DropOldestRound(ms, Oldest(ms)), k)
<1> DEFINE n == Len(ms)
           k == RoundLen(ms, 2)
           d == DropOldestRound(ms, Oldest(ms))
<1>1. n \in Nat /\ Oldest(ms) = 2
  BY DEF Oldest, StartsWithSystem
<1>2. CASE 2 > n \/ n <= 2 \/ n - k < 2
  <2>1. d = ms
    BY <1>1, <1>2 DEF DropOldestRound
  <2>2. Shortened(ms, ms, 0)
    BY DEF Shortened
  <2> QED BY <2>1, <2>2
<1>3. CASE ~(2 > n \/ n <= 2 \/ n - k < 2)
  <2>1. k \in Nat \ {0}
    <3>1. 2 \in 1 .. Len(ms)
      BY <1>1, <1>3
    <3> QED BY <3>1, RoundLenIs
  <2>2. d = SubSeq(ms, 1, 1) \o SubSeq(ms, 2 + k, n)
    <3>1. d = DropOldestRound(ms, 2)
      BY <1>1
    <3>2. DropOldestRound(ms, 2) = SubSeq(ms, 1, 2 - 1) \o SubSeq(ms, 2 + k, n)
      <4>1. ~(2 > Len(ms) \/ Len(ms) <= 2 \/ Len(ms) - RoundLen(ms, 2) < 2)
        BY <1>3
      <4> QED BY <4>1, Zenon DEF DropOldestRound
    <3>3. 2 - 1 = 1
      OBVIOUS
    <3> QED BY <3>1, <3>2, <3>3
  <2> HIDE DEF k
  <2>3. 1 \in 1 .. n /\ 2 + k \in 1 .. n /\ n \in 1 .. n
    <3> HIDE DEF n
    <3> QED BY <1>1, <1>3, <2>1
  <2>4. /\ SubSeq(ms, 1, 1) \in Seq(Turns) /\ Len(SubSeq(ms, 1, 1)) = 1
        /\ SubSeq(ms, 1, 1)[1] = ms[1]
    BY <2>3
  <2>5. /\ SubSeq(ms, 2 + k, n) \in Seq(Turns) /\ Len(SubSeq(ms, 2 + k, n)) = n - k - 1
        /\ \A j \in 1 .. n - k - 1 : SubSeq(ms, 2 + k, n)[j] = ms[j + k + 1]
    BY <2>1, <2>3
  <2> DEFINE a == SubSeq(ms, 1, 1)
             b == SubSeq(ms, 2 + k, n)
  <2>6. /\ a \o b \in Seq(Turns) /\ Len(a \o b) = n - k /\ (a \o b)[1] = ms[1]
        /\ \A i \in 2 .. n - k : (a \o b)[i] = b[i - 1]
    <3> HIDE DEF a, b, n
    <3> QED BY <1>1, <1>3, <2>1, <2>4, <2>5 DEF a, b
  <2>7. \A i \in 2 .. n - k : b[i - 1] = ms[i + k]
    <3> SUFFICES ASSUME NEW i \in 2 .. n - k PROVE b[i - 1] = ms[i + k]
      OBVIOUS
    <3>1. i - 1 \in 1 .. n - k - 1 /\ i - 1 + k + 1 = i + k
      <4> HIDE DEF n
      <4> QED BY <1>1, <2>1
    <3>2. b[i - 1] = ms[i - 1 + k + 1]
      <4> HIDE DEF n
      <4> QED BY <2>5, <3>1
    <3> QED BY <3>1, <3>2
  <2>8. n - k >= 2 /\ k \in Nat
    <3> HIDE DEF n
    <3> QED BY <1>1, <1>3, <2>1
  <2>9. Shortened(ms, d, k)
    <3>1. d = a \o b
      BY <2>2
    <3> HIDE DEF a, b, d
    <3>2. d \in Seq(Turns) /\ Len(d) = n - k /\ d[1] = ms[1]
      BY <2>6, <3>1
    <3>3. \A i \in 2 .. n - k : d[i] = ms[i + k]
      BY <2>6, <2>7, <3>1
    <3> QED BY <2>8, <3>2, <3>3 DEF Shortened, k
  <2> QED BY <2>9
<1> QED BY <1>2, <1>3

\* What a shortening leaves of the ends.
LEMMA ShortenedEnds ==
    ASSUME NEW ms \in Seq(Turns), ms # <<>>, NEW d, NEW k, Shortened(ms, d, k)
    PROVE  /\ d \in Seq(Turns) /\ d # <<>> /\ d[1] = ms[1] /\ LastOf(d) = LastOf(ms)
           /\ Len(d) <= Len(ms) /\ (Len(ms) >= 2 => Len(d) >= 2)
           /\ \A i \in 1 .. Len(d) : \E j \in 1 .. Len(ms) : d[i] = ms[j]
<1> DEFINE n == Len(ms)
           m == Len(d)
<1>1. n \in Nat \ {0} /\ k \in Nat /\ m = n - k /\ m \in Nat /\ d \in Seq(Turns)
  BY DEF Shortened
<1>2. k # 0 => m >= 2
  BY DEF Shortened
<1>3. d[1] = ms[1] /\ \A i \in 2 .. m : d[i] = ms[i + k]
  BY DEF Shortened
<1>4. m >= 1 /\ m <= n /\ (n >= 2 => m >= 2)
  <2> HIDE DEF n, m
  <2> QED BY <1>1, <1>2
<1>5. d # <<>>
  BY <1>4
<1>6. d[m] = ms[n]
  <2>1. CASE m = 1
    <3>1. n = 1
      <4> HIDE DEF n, m
      <4> QED BY <1>1, <1>2, <2>1
    <3> QED BY <1>3, <2>1, <3>1
  <2>2. CASE m # 1
    <3>1. m \in 2 .. m /\ m + k = n
      <4> HIDE DEF n, m
      <4> QED BY <1>1, <1>4, <2>2
    <3> QED BY <1>3, <3>1
  <2> QED BY <2>1, <2>2
<1>7. \A i \in 1 .. m : \E j \in 1 .. n : d[i] = ms[j]
  <2> SUFFICES ASSUME NEW i \in 1 .. m PROVE \E j \in 1 .. n : d[i] = ms[j]
    OBVIOUS
  <2>1. CASE i = 1
    <3>1. 1 \in 1 .. n
      <4> HIDE DEF n
      <4> QED BY <1>1
    <3> QED BY <1>3, <2>1, <3>1
  <2>2. CASE i # 1
    <3>1. i \in 2 .. m /\ i + k \in 1 .. n
      <4> HIDE DEF n, m
      <4> QED BY <1>1, <2>2
    <3> QED BY <1>3, <3>1
  <2> QED BY <2>1, <2>2
<1> QED BY <1>1, <1>3, <1>4, <1>5, <1>6, <1>7 DEF LastOf

LEMMA JoinLen ==
    ASSUME NEW X, NEW a \in Seq(X), NEW b \in Seq(X)
    PROVE  Joined(a, b) \in Seq(X) /\ Len(Joined(a, b)) = Len(a) + Len(b)
BY DEF Joined

LEMMA JoinLeft ==
    ASSUME NEW X, NEW a \in Seq(X), NEW b \in Seq(X)
    PROVE  \A i \in 1 .. Len(a) : Joined(a, b)[i] = a[i]
BY DEF Joined

LEMMA JoinRight ==
    ASSUME NEW X, NEW a \in Seq(X), NEW b \in Seq(X)
    PROVE  \A i \in 1 .. Len(b) : Joined(a, b)[Len(a) + i] = b[i]
BY DEF Joined

LEMMA CompactedIs ==
    ASSUME NEW ms \in Seq(Turns), ms # <<>>, Head(ms).role = "system"
    PROVE  LET c == Compacted(ms)
           IN /\ c \in Seq(Turns) /\ c # <<>> /\ c[1] = ms[1] /\ LastOf(c) = LastOf(ms)
              /\ \A i \in 1 .. Len(c) : c[i] = Summary \/ \E j \in 1 .. Len(ms) : c[i] = ms[j]
<1> DEFINE n == Len(ms)
           c == Compacted(ms)
           split == n - Lesser(KeepRecent, n)
<1>1. n \in Nat \ {0} /\ KeepRecent \in Nat \ {0} /\ Oldest(ms) - 1 = 1
  BY TruncationAssumption DEF Oldest, StartsWithSystem
<1>2. CASE n <= KeepRecent + 3 \/ split <= 1
  <2>1. c = ms
    BY <1>1, <1>2 DEF Compacted
  <2> QED BY <2>1
<1>3. CASE ~(n <= KeepRecent + 3 \/ split <= 1)
  <2>1. split = n - KeepRecent /\ split \in 2 .. n - 1
    <3> HIDE DEF n
    <3> QED BY <1>1, <1>3 DEF Lesser
  <2> DEFINE a == SubSeq(ms, 1, 1)
             b == SubSeq(ms, split + 1, n)
             s == a \o <<Summary>>
  <2>2. c = s \o b
    <3>1. ~(Len(ms) <= KeepRecent + 3 \/ Len(ms) - Lesser(KeepRecent, Len(ms)) <= Oldest(ms) - 1)
      BY <1>1, <1>3
    <3>2. c = SubSeq(ms, 1, Oldest(ms) - 1) \o <<Summary>> \o SubSeq(ms, split + 1, n)
      BY <3>1, Zenon DEF Compacted
    <3> QED BY <1>1, <3>2
  <2>3. /\ a \in Seq(Turns) /\ Len(a) = 1 /\ a[1] = ms[1]
    BY <1>1
  <2>4. /\ b \in Seq(Turns) /\ Len(b) = n - split
        /\ \A i \in 1 .. n - split : b[i] = ms[split + i]
    <3> HIDE DEF split
    <3> QED BY <1>1, <2>1
  <2>5. <<Summary>> \in Seq(Turns) /\ Len(<<Summary>>) = 1 /\ <<Summary>>[1] = Summary
    BY SystemIs
  <2>6. s \in Seq(Turns) /\ Len(s) = 2 /\ s[1] = ms[1] /\ s[2] = Summary
    <3> HIDE DEF a
    <3> DEFINE z == <<Summary>>
               j == Joined(a, z)
    <3>0. z \in Seq(Turns) /\ Len(z) = 1
      BY <2>5
    <3> HIDE DEF z
    <3>3. /\ j \in Seq(Turns) /\ Len(j) = Len(a) + Len(z)
          /\ \A i \in 1 .. Len(a) : j[i] = a[i]
          /\ \A i \in 1 .. Len(z) : j[Len(a) + i] = z[i]
      <4>0. a \in Seq(Turns) /\ z \in Seq(Turns)
        BY <2>3, <3>0
      <4>1. j \in Seq(Turns) /\ Len(j) = Len(a) + Len(z)
        BY ONLY <4>0, JoinLen
      <4>2. \A i \in 1 .. Len(a) : j[i] = a[i]
        BY ONLY <4>0, JoinLeft
      <4>3. \A i \in 1 .. Len(z) : j[Len(a) + i] = z[i]
        BY ONLY <4>0, JoinRight
      <4> QED BY <4>1, <4>2, <4>3
    <3>4. j = s
      BY DEF Joined, z
    <3> HIDE DEF j, s
    <3>1. /\ s \in Seq(Turns) /\ Len(s) = Len(a) + Len(<<Summary>>)
          /\ \A i \in 1 .. Len(a) : s[i] = a[i]
          /\ \A i \in 1 .. Len(<<Summary>>) : s[Len(a) + i] = <<Summary>>[i]
      BY <3>3, <3>4, Zenon DEF z
    <3>2. s[1] = a[1] /\ s[1 + 1] = <<Summary>>[1]
      BY <2>3, <2>5, <3>1
    <3> QED BY <2>3, <2>5, <3>1, <3>2
  <2>7. /\ c \in Seq(Turns) /\ Len(c) = 2 + (n - split) /\ c[1] = s[1] /\ c[2] = s[2]
        /\ \A i \in 1 .. n - split : c[2 + i] = b[i]
    <3>1. n - split \in Nat
      <4> HIDE DEF n, split
      <4> QED BY <1>1, <2>1
    <3> HIDE DEF s, b, c, n, split
    <3> DEFINE j == Joined(s, b)
    <3>4. /\ j \in Seq(Turns) /\ Len(j) = Len(s) + Len(b)
          /\ \A i \in 1 .. Len(s) : j[i] = s[i]
          /\ \A i \in 1 .. Len(b) : j[Len(s) + i] = b[i]
      <4>0. s \in Seq(Turns) /\ b \in Seq(Turns)
        BY <2>4, <2>6
      <4>1. j \in Seq(Turns) /\ Len(j) = Len(s) + Len(b)
        BY ONLY <4>0, JoinLen
      <4>2. \A i \in 1 .. Len(s) : j[i] = s[i]
        BY ONLY <4>0, JoinLeft
      <4>3. \A i \in 1 .. Len(b) : j[Len(s) + i] = b[i]
        BY ONLY <4>0, JoinRight
      <4> QED BY <4>1, <4>2, <4>3
    <3>5. j = c
      BY <2>2 DEF Joined
    <3> HIDE DEF j
    <3>3. /\ c \in Seq(Turns) /\ Len(c) = 2 + (n - split)
          /\ \A i \in 1 .. 2 : c[i] = s[i]
          /\ \A i \in 1 .. n - split : c[2 + i] = b[i]
      BY <2>4, <2>6, <3>4, <3>5
    <3> QED BY <3>3
  <2>8. ASSUME NEW i \in 1 .. Len(c) PROVE c[i] = Summary \/ \E j \in 1 .. n : c[i] = ms[j]
    <3>1. CASE i = 1
      BY <1>1, <2>6, <2>7, <3>1
    <3>2. CASE i = 2
      BY <2>6, <2>7, <3>2
    <3>3. CASE i \notin {1, 2}
      <4>1. i - 2 \in 1 .. n - split /\ 2 + (i - 2) = i /\ split + (i - 2) \in 1 .. n
        <5> HIDE DEF n, split, c
        <5> QED BY <1>1, <2>1, <2>7, <3>3
      <4> QED BY <2>4, <2>7, <4>1
    <3> QED BY <3>1, <3>2, <3>3
  <2>9. LastOf(c) = LastOf(ms)
    <3>1. n - split \in 1 .. n - split /\ split + (n - split) = n
      <4> HIDE DEF n, split
      <4> QED BY <1>1, <2>1
    <3>2. c[2 + (n - split)] = ms[n]
      <4> HIDE DEF c, b, n, split
      <4> QED BY <2>4, <2>7, <3>1
    <3> HIDE DEF c
    <3> QED BY <2>7, <3>2 DEF LastOf
  <2>10. c # <<>> /\ c[1] = ms[1]
    <3>1. Len(c) # 0
      <4> HIDE DEF c, n, split
      <4> QED BY <1>1, <2>1, <2>7
    <3> HIDE DEF c
    <3> QED BY <2>6, <2>7, <3>1
  <2> QED BY <2>7, <2>8, <2>9, <2>10
<1> QED BY <1>2, <1>3

\* What may be left of ms when it is fitted: it begins and ends as ms does.
Fitted(ms) ==
    {w \in Seq(Turns) :
        /\ w # <<>> /\ w[1] = ms[1] /\ LastOf(w) = LastOf(ms)
        /\ \A i \in 1 .. Len(w) : w[i] = Summary \/ \E j \in 1 .. Len(ms) : w[i] = ms[j]}

LEMMA FittedMore ==
    ASSUME NEW ms \in Seq(Turns), ms # <<>>, Head(ms).role = "system", NEW w \in Fitted(ms)
    PROVE  Compacted(w) \in Fitted(ms) /\ DropOldestRound(w, Oldest(w)) \in Fitted(ms)
<1>1. /\ w \in Seq(Turns) /\ w # <<>> /\ w[1] = ms[1] /\ LastOf(w) = LastOf(ms)
      /\ \A i \in 1 .. Len(w) : w[i] = Summary \/ \E j \in 1 .. Len(ms) : w[i] = ms[j]
  BY DEF Fitted
<1>2. Head(w).role = "system"
  <2>1. Head(w) = w[1] /\ Head(ms) = ms[1]
    BY <1>1
  <2> QED BY <1>1, <2>1
<1>3. Compacted(w) \in Fitted(ms)
  <2> DEFINE c == Compacted(w)
  <2>1. /\ c \in Seq(Turns) /\ c # <<>> /\ c[1] = w[1] /\ LastOf(c) = LastOf(w)
        /\ \A i \in 1 .. Len(c) : c[i] = Summary \/ \E j \in 1 .. Len(w) : c[i] = w[j]
    BY <1>1, <1>2, CompactedIs
  <2> HIDE DEF c
  <2>2. \A i \in 1 .. Len(c) : c[i] = Summary \/ \E j \in 1 .. Len(ms) : c[i] = ms[j]
    BY <1>1, <2>1
  <2>3. c \in Fitted(ms)
    BY <1>1, <2>1, <2>2 DEF Fitted
  <2> QED BY <2>3 DEF c
<1>4. DropOldestRound(w, Oldest(w)) \in Fitted(ms)
  <2> DEFINE d == DropOldestRound(w, Oldest(w))
  <2>1. PICK k : Shortened(w, d, k)
    BY <1>1, <1>2, DropIs
  <2> HIDE DEF d
  <2>2. /\ d \in Seq(Turns) /\ d # <<>> /\ d[1] = w[1] /\ LastOf(d) = LastOf(w)
        /\ \A i \in 1 .. Len(d) : \E j \in 1 .. Len(w) : d[i] = w[j]
    BY <1>1, <2>1, ShortenedEnds
  <2>3. \A i \in 1 .. Len(d) : d[i] = Summary \/ \E j \in 1 .. Len(ms) : d[i] = ms[j]
    BY <1>1, <2>2
  <2>4. d \in Fitted(ms)
    BY <1>1, <2>2, <2>3 DEF Fitted
  <2> QED BY <2>4 DEF d
<1> QED BY <1>3, <1>4

\* What holds of what is fitted and is kept by a step holds after any number of steps.
LEMMA Stays ==
    ASSUME NEW n \in Nat, NEW F, NEW f, f[0] \in F, \A i \in 1 .. n : f[i - 1] \in F => f[i] \in F
    PROVE  f[n] \in F
<1> DEFINE T == {k \in 0 .. n : f[k] \in F}
<1>1. 0 \in T
  OBVIOUS
<1>2. ASSUME NEW k \in 1 .. n, k - 1 \in T PROVE k \in T
  BY <1>2
<1>3. \A k \in 0 .. n : k \in T
  <2> HIDE DEF T
  <2> QED BY <1>1, <1>2, UpTo
<1> QED BY <1>3

\* Both loops of a warm start end in something fitted.
Short(ms, limit) == Until(LAMBDA now : Tokens(now) <= limit, Compacted, ms)
Dropped(ms, limit) ==
    Until(LAMBDA now : Len(now) <= 2 \/ Tokens(now) <= limit,
          LAMBDA now : DropOldestRound(now, Oldest(now)), ms)

LEMMA CompactionFits ==
    ASSUME NEW ms \in Seq(Turns), ms # <<>>, Head(ms).role = "system", NEW limit
    PROVE  Short(ms, limit) \in Fitted(ms)
<1> DEFINE n == Len(ms)
           F == Fitted(ms)
           Step(now) == IF Tokens(now) <= limit THEN now ELSE Compacted(now)
           after[i \in 0 .. n] ==
              IF i = 0 THEN ms
              ELSE IF Tokens(after[i - 1]) <= limit THEN after[i - 1] ELSE Compacted(after[i - 1])
           step == [i \in 1 .. n |-> [w \in F |-> Step(w)]]
<1>1. n \in Nat /\ ms \in F
  BY DEF Fitted
<1>2. \A w \in F : Step(w) \in F
  BY FittedMore
<1>3. step \in [1 .. n -> [F -> F]]
  <2> HIDE DEF F, Step, n
  <2> QED BY <1>2
<1>4. PICK f \in [0 .. n -> F] : Follows(f, n, ms, step)
  <2> HIDE DEF n, F, step
  <2> QED BY <1>1, <1>3, CourseExists
<1>5. f = [i \in 0 .. n |-> IF i = 0 THEN ms
                            ELSE IF Tokens(f[i - 1]) <= limit THEN f[i - 1] ELSE Compacted(f[i - 1])]
  <2>1. ASSUME NEW i \in 1 .. n PROVE f[i] = Step(f[i - 1])
    <3>1. f[i - 1] \in F /\ f[i] = step[i][f[i - 1]]
      BY <1>1, <1>4 DEF Follows
    <3> HIDE DEF F, n, Step
    <3> QED BY <3>1
  <2>2. \A i \in 0 .. n : f[i] = IF i = 0 THEN ms ELSE Step(f[i - 1])
    <3>1. f[0] = ms /\ \A i \in 0 .. n : i # 0 => i \in 1 .. n
      BY <1>1, <1>4 DEF Follows
    <3> HIDE DEF Step, n
    <3> QED BY <2>1, <3>1
  <2> HIDE DEF n, F
  <2> QED BY <2>2
<1>6. after = [i \in 0 .. n |-> IF i = 0 THEN ms
                                ELSE IF Tokens(after[i - 1]) <= limit THEN after[i - 1]
                                ELSE Compacted(after[i - 1])]
  BY <1>5 DEF after
<1>7. Short(ms, limit) = after[n]
  BY DEF Short, Until
<1> HIDE DEF after
<1>8. after[0] = ms /\ \A i \in 1 .. n : after[i] = Step(after[i - 1])
  <2>1. 0 \in 0 .. n /\ \A i \in 1 .. n : i \in 0 .. n /\ i # 0
    BY <1>1
  <2> HIDE DEF n
  <2> QED BY <1>6, <2>1
<1>9. \A i \in 1 .. n : after[i - 1] \in F => after[i] \in F
  <2> HIDE DEF F, Step, n
  <2> QED BY <1>2, <1>8
<1>10. after[n] \in F
  <2> HIDE DEF F, n
  <2> QED BY <1>1, <1>8, <1>9, Stays
<1> QED BY <1>7, <1>10

LEMMA DroppingFits ==
    ASSUME NEW ms \in Seq(Turns), ms # <<>>, Head(ms).role = "system", NEW limit,
           NEW short \in Fitted(ms)
    PROVE  Dropped(short, limit) \in Fitted(ms)
<1> DEFINE n == Len(short)
           F == Fitted(ms)
           Step(now) == IF Len(now) <= 2 \/ Tokens(now) <= limit THEN now
                        ELSE DropOldestRound(now, Oldest(now))
           after[i \in 0 .. n] ==
              IF i = 0 THEN short
              ELSE IF Len(after[i - 1]) <= 2 \/ Tokens(after[i - 1]) <= limit THEN after[i - 1]
               ELSE DropOldestRound(after[i - 1], Oldest(after[i - 1]))
           step == [i \in 1 .. n |-> [w \in F |-> Step(w)]]
<1>1. n \in Nat /\ short \in F
  BY DEF Fitted
<1>2. \A w \in F : Step(w) \in F
  BY FittedMore
<1>3. step \in [1 .. n -> [F -> F]]
  <2> HIDE DEF F, Step, n
  <2> QED BY <1>2
<1>4. PICK f \in [0 .. n -> F] : Follows(f, n, short, step)
  <2> HIDE DEF n, F, step
  <2> QED BY <1>1, <1>3, CourseExists
<1>5. f = [i \in 0 .. n |-> IF i = 0 THEN short
                            ELSE IF Len(f[i - 1]) <= 2 \/ Tokens(f[i - 1]) <= limit THEN f[i - 1]
               ELSE DropOldestRound(f[i - 1], Oldest(f[i - 1]))]
  <2>1. ASSUME NEW i \in 1 .. n PROVE f[i] = Step(f[i - 1])
    <3>1. f[i - 1] \in F /\ f[i] = step[i][f[i - 1]]
      BY <1>1, <1>4 DEF Follows
    <3> HIDE DEF F, n, Step
    <3> QED BY <3>1
  <2>2. \A i \in 0 .. n : f[i] = IF i = 0 THEN short ELSE Step(f[i - 1])
    <3>1. f[0] = short /\ \A i \in 0 .. n : i # 0 => i \in 1 .. n
      BY <1>1, <1>4 DEF Follows
    <3> HIDE DEF Step, n
    <3> QED BY <2>1, <3>1
  <2> HIDE DEF n, F
  <2> QED BY <2>2
<1>6. after = [i \in 0 .. n |-> IF i = 0 THEN short
                                ELSE IF Len(after[i - 1]) <= 2 \/ Tokens(after[i - 1]) <= limit THEN after[i - 1]
              
                                ELSE DropOldestRound(after[i - 1], Oldest(after[i - 1]))]
  BY <1>5 DEF after
<1>7. Dropped(short, limit) = after[n]
  BY DEF Dropped, Until
<1> HIDE DEF after
<1>8. after[0] = short /\ \A i \in 1 .. n : after[i] = Step(after[i - 1])
  <2>1. 0 \in 0 .. n /\ \A i \in 1 .. n : i \in 0 .. n /\ i # 0
    BY <1>1
  <2> HIDE DEF n
  <2> QED BY <1>6, <2>1
<1>9. \A i \in 1 .. n : after[i - 1] \in F => after[i] \in F
  <2> HIDE DEF F, Step, n
  <2> QED BY <1>2, <1>8
<1>10. after[n] \in F
  <2> HIDE DEF F, n
  <2> QED BY <1>1, <1>8, <1>9, Stays
<1> QED BY <1>7, <1>10

LEMMA WarmStartFits ==
    ASSUME NEW ms \in Seq(Turns), ms # <<>>, Head(ms).role = "system", NEW limit
    PROVE  WarmStart(ms, limit) \in Fitted(ms)
<1>1. WarmStart(ms, limit) = Dropped(Short(ms, limit), limit)
  BY DEF WarmStart, Dropped, Short, Until
<1> QED BY <1>1, CompactionFits, DroppingFits

\* The oldest round is a message, or a call with its answer.
LEMMA OldestRound ==
    ASSUME NEW ms \in Seq(Turns), Linked(ms), Len(ms) > 2, LastOf(ms).calls = {}
    PROVE  \/ ms[2].calls = {} /\ RoundLen(ms, 2) = 1
           \/ ms[2].calls # {} /\ RoundLen(ms, 2) = 2 /\ ms[3].calls = {}
<1> DEFINE n == Len(ms)
<1>1. n \in Nat /\ 2 \in 1 .. n /\ 3 \in 1 .. n /\ 2 < n
  OBVIOUS
<1>2. CASE ms[2].calls = {}
  BY <1>2 DEF RoundLen
<1>3. CASE ms[2].calls # {}
  <2>1. ms[2].calls = {ms[2].id} /\ ms[2].id # 0
    BY <1>1, <1>3 DEF Linked
  <2>2. ms[2 + 1].answers = ms[2].id
    BY <1>1, <1>3 DEF Linked
  <2>3. ms[3].answers = ms[2].id /\ ms[3].answers # NoCall
    BY <2>1, <2>2 DEF NoCall
  <2>4. ms[3].calls = {}
    BY <1>1, <2>3 DEF Linked
  <2> DEFINE open[j \in 2 .. Len(ms)] ==
                IF j = 2 THEN ms[2].calls
                ELSE IF ms[j].calls # {} THEN open[j - 1] \cup ms[j].calls
                ELSE open[j - 1] \ {ms[j].answers}
             m == n - 2
             step == [i \in 1 .. m |-> [w \in SUBSET Nat |->
                        IF ms[i + 2].calls # {} THEN w \cup ms[i + 2].calls
                        ELSE w \ {ms[i + 2].answers}]]
  <2>5. m \in Nat /\ \A i \in 1 .. m : i + 2 \in 1 .. n
    BY <1>1
  <2>6. ms[2].calls \in SUBSET Nat /\ \A i \in 1 .. m : ms[i + 2].calls \in SUBSET Nat
    <3>1. \A i \in 1 .. n : ms[i].calls \in SUBSET Nat
      BY TurnsAre
    <3> HIDE DEF n, m
    <3> QED BY <1>1, <2>5, <3>1
  <2>7. step \in [1 .. m -> [SUBSET Nat -> SUBSET Nat]]
    <3> HIDE DEF m
    <3> QED BY <2>6
  <2>8. PICK s \in [0 .. m -> SUBSET Nat] : Follows(s, m, ms[2].calls, step)
    <3> HIDE DEF m, step
    <3> QED BY <2>5, <2>6, <2>7, CourseExists
  <2> DEFINE g == [j \in 2 .. Len(ms) |-> s[j - 2]]
  <2>9. g = [j \in 2 .. Len(ms) |->
                IF j = 2 THEN ms[2].calls
                ELSE IF ms[j].calls # {} THEN g[j - 1] \cup ms[j].calls
                ELSE g[j - 1] \ {ms[j].answers}]
    <3> SUFFICES \A j \in 2 .. Len(ms) :
                   g[j] = IF j = 2 THEN ms[2].calls
                          ELSE IF ms[j].calls # {} THEN g[j - 1] \cup ms[j].calls
                          ELSE g[j - 1] \ {ms[j].answers}
      <4>1. g \in [2 .. Len(ms) -> SUBSET Nat]
        <5>1. \A j \in 2 .. Len(ms) : j - 2 \in 0 .. m
          BY <1>1
        <5> HIDE DEF m
        <5> QED BY <2>8, <5>1
      <4> HIDE DEF g
      <4> QED BY SMTT(30), <4>1
    <3> SUFFICES ASSUME NEW j \in 2 .. Len(ms)
                 PROVE  g[j] = IF j = 2 THEN ms[2].calls
                               ELSE IF ms[j].calls # {} THEN g[j - 1] \cup ms[j].calls
                               ELSE g[j - 1] \ {ms[j].answers}
      <4> HIDE DEF g
      <4> QED OBVIOUS
    <3>1. CASE j = 2
      BY <1>1, <2>8, <3>1 DEF Follows
    <3>2. CASE j # 2
      <4>1. j - 2 \in 1 .. m /\ j - 1 \in 2 .. Len(ms) /\ (j - 2) - 1 = (j - 1) - 2 /\ (j - 2) + 2 = j
        BY <1>1, <3>2
      <4>2. s[j - 2] = step[j - 2][s[(j - 2) - 1]]
        <5> HIDE DEF m, step
        <5> QED BY <2>8, <4>1 DEF Follows
      <4>3. g[j] = s[j - 2] /\ g[j - 1] = s[(j - 2) - 1]
        BY <4>1
      <4>4. s[(j - 2) - 1] \in SUBSET Nat
        <5>1. (j - 2) - 1 \in 0 .. m
          <6> HIDE DEF m
          <6> QED BY <2>5, <4>1
        <5> HIDE DEF m, step
        <5> QED BY <2>8, <5>1
      <4>5. step[j - 2] = [w \in SUBSET Nat |->
                IF ms[j].calls # {} THEN w \cup ms[j].calls ELSE w \ {ms[j].answers}]
        <5> HIDE DEF m
        <5> QED BY <4>1
      <4> HIDE DEF g, step, m
      <4> QED BY <3>2, <4>2, <4>3, <4>4, <4>5
    <3> QED BY <3>1, <3>2
  <2>10. open = [j \in 2 .. Len(ms) |->
                IF j = 2 THEN ms[2].calls
                ELSE IF ms[j].calls # {} THEN open[j - 1] \cup ms[j].calls
                ELSE open[j - 1] \ {ms[j].answers}]
    <3> HIDE DEF g
    <3> QED BY <2>9 DEF open
  <2>11. Awaiting(ms, 2) = open
    BY DEF Awaiting
  <2> HIDE DEF open
  <2>12. open[2] = ms[2].calls /\ open[3] = open[2] \ {ms[3].answers}
    <3>1. 2 \in 2 .. Len(ms) /\ 3 \in 2 .. Len(ms) /\ 3 - 1 = 2
      BY <1>1
    <3> QED BY <2>4, <2>10, <3>1
  <2>13. open[3] = {}
    BY <2>1, <2>3, <2>12
  <2> DEFINE C == Closings(ms, 2)
  <2>14. 3 \in C /\ \A j \in C : 3 <= j /\ j \in Nat
    <3>1. 3 \in 2 + 1 .. Len(ms)
      BY <1>1
    <3> QED BY <2>3, <2>4, <2>11, <2>13, <3>1 DEF Closings
  <2>15. (CHOOSE j \in C : \A k \in C : j <= k) = 3
    <3> DEFINE c == CHOOSE j \in C : \A k \in C : j <= k
    <3>1. c \in C /\ \A k \in C : c <= k
      <4> HIDE DEF C
      <4> QED BY <2>14
    <3> HIDE DEF C, c
    <3>2. c = 3
      BY <2>14, <3>1
    <3> QED BY <3>2 DEF c
  <2>16. RoundLen(ms, 2) = 3 - 2 + 1
    <3>1. C # {}
      BY <2>14
    <3> QED BY <1>3, <2>15, <3>1 DEF RoundLen
  <2> QED BY <1>3, <2>4, <2>16
<1> QED BY <1>2, <1>3

\* A call is answered right behind it.
LEMMA PairsAdjoin ==
    ASSUME NEW ms \in Seq(Turns), Linked(ms), NEW i \in 1 .. Len(ms), NEW j \in 1 .. Len(ms),
           Paired(ms, i, j)
    PROVE  j = i + 1 /\ ms[i].calls # {} /\ ms[j].answers # NoCall
<1>1. i < j /\ ms[j].answers # NoCall /\ ms[j].answers \in ms[i].calls
  BY DEF Paired
<1>2. ms[i].calls = {ms[i].id} /\ ms[j].answers = ms[i].id
  BY <1>1 DEF Linked
<1>3. j > 1 /\ ms[j - 1].calls = {ms[j].answers}
  BY <1>1 DEF Linked
<1>4. j - 1 \in 1 .. Len(ms)
  BY <1>1
<1>5. ms[j - 1].calls = {ms[j - 1].id}
  BY <1>3, <1>4 DEF Linked
<1>6. ms[j - 1].id = ms[i].id
  BY <1>2, <1>3, <1>5
<1>7. j - 1 = i
  BY <1>4, <1>6 DEF Linked
<1> QED BY <1>1, <1>2, <1>7

\* Dropping the oldest round leaves every other call with its answer.
LEMMA DropLinked ==
    ASSUME NEW ms \in Seq(Turns), Len(ms) >= 2, Linked(ms), ms[1].role = "system",
           LastOf(ms).calls = {}, NEW d, NEW k, Shortened(ms, d, k)
    PROVE  /\ Linked(d)
           /\ \A i, j \in 1 .. Len(ms) :
                 Paired(ms, i, j) => (ms[i] \in ToSet(d) <=> ms[j] \in ToSet(d))
<1> DEFINE n == Len(ms)
           m == Len(d)
           From(i) == IF i = 1 THEN 1 ELSE i + k
<1>1. /\ n \in Nat /\ k \in Nat /\ m = n - k /\ m \in Nat /\ m >= 2
      /\ d \in Seq(Turns) /\ DOMAIN d = 1 .. m
  <2>1. d \in Seq(Turns) /\ k \in Nat /\ Len(d) = n - k /\ (k # 0 => Len(d) >= 2)
    BY DEF Shortened
  <2>2. DOMAIN d = 1 .. m /\ m \in Nat
    BY <2>1
  <2> QED BY <2>1, <2>2
<1>2. \A i \in 1 .. m : From(i) \in 1 .. n /\ d[i] = ms[From(i)]
  <2> SUFFICES ASSUME NEW i \in 1 .. m PROVE From(i) \in 1 .. n /\ d[i] = ms[From(i)]
    OBVIOUS
  <2>1. CASE i = 1
    <3>1. 1 \in 1 .. n
      OBVIOUS
    <3> QED BY <2>1, <3>1 DEF Shortened
  <2>2. CASE i # 1
    <3>1. i \in 2 .. m /\ i + k \in 1 .. n
      <4> HIDE DEF n, m
      <4> QED BY <1>1, <2>2
    <3> QED BY <2>2, <3>1 DEF Shortened
  <2> QED BY <2>1, <2>2
<1>3. \/ k = 0
      \/ k = 1 /\ ms[2].calls = {}
      \/ k = 2 /\ ms[3].calls = {}
  <2>1. CASE k = 0
    BY <2>1
  <2>2. CASE k # 0
    <3>1. k = RoundLen(ms, 2)
      BY <2>2 DEF Shortened
    <3>2. n > 2
      <4> HIDE DEF n, m
      <4> QED BY <1>1, <2>2
    <3> QED BY <3>1, <3>2, OldestRound
  <2> QED BY <2>1, <2>2
<1>4. k = 0 \/ ms[1 + k].calls = {}
  BY <1>3
<1>5. ms[1].calls = {}
  <2>1. 1 \in 1 .. n
    OBVIOUS
  <2> QED BY <2>1 DEF Linked
<1>6. ASSUME NEW i \in 1 .. n PROVE ms[i] \in ToSet(d) <=> i = 1 \/ i >= 2 + k
  <2>1. ASSUME ms[i] \in ToSet(d) PROVE i = 1 \/ i >= 2 + k
    <3>1. PICK p \in 1 .. m : d[p] = ms[i]
      BY <1>1, <2>1 DEF ToSet
    <3>2. From(p) \in 1 .. n /\ ms[From(p)].id = ms[i].id
      BY <1>2, <3>1
    <3>3. From(p) = i
      <4> HIDE DEF From
      <4> QED BY <3>2 DEF Linked
    <3>4. p \in Nat /\ p >= 1
      OBVIOUS
    <3> QED BY <1>1, <3>3, <3>4
  <2>2. ASSUME i = 1 \/ i >= 2 + k PROVE ms[i] \in ToSet(d)
    <3>1. \E p \in 1 .. m : From(p) = i
      <4>1. CASE i = 1
        <5>1. 1 \in 1 .. m /\ From(1) = i
          BY <1>1, <4>1
        <5> QED BY <5>1
      <4>2. CASE i # 1
        <5>1. i - k \in 1 .. m /\ i - k # 1 /\ (i - k) + k = i
          <6> HIDE DEF n, m
          <6> QED BY <1>1, <2>2, <4>2
        <5>2. From(i - k) = i
          BY <5>1
        <5> QED BY <5>1, <5>2
      <4> QED BY <4>1, <4>2
    <3> HIDE DEF From
    <3> QED BY <1>1, <1>2, <3>1 DEF ToSet
  <2> QED BY <2>1, <2>2
<1>7. \A i, j \in 1 .. n : Paired(ms, i, j) => (ms[i] \in ToSet(d) <=> ms[j] \in ToSet(d))
  <2> SUFFICES ASSUME NEW i \in 1 .. n, NEW j \in 1 .. n, Paired(ms, i, j)
               PROVE  ms[i] \in ToSet(d) <=> ms[j] \in ToSet(d)
    OBVIOUS
  <2>1. j = i + 1 /\ ms[i].calls # {}
    BY PairsAdjoin
  <2>2. i # 1 /\ (k # 0 => i # 1 + k)
    BY <1>4, <1>5, <2>1
  <2>3. (i = 1 \/ i >= 2 + k) <=> (j = 1 \/ j >= 2 + k)
    <3>1. i \in Nat /\ i >= 1
      OBVIOUS
    <3> QED BY <1>1, <2>1, <2>2, <3>1
  <2> QED BY <1>6, <2>3
<1>8. \A i, j \in 1 .. m : d[i].id = d[j].id => i = j
  <2> SUFFICES ASSUME NEW i \in 1 .. m, NEW j \in 1 .. m, d[i].id = d[j].id PROVE i = j
    OBVIOUS
  <2>1. From(i) \in 1 .. n /\ From(j) \in 1 .. n /\ ms[From(i)].id = ms[From(j)].id
    BY <1>2
  <2>2. From(i) = From(j)
    <3> HIDE DEF From
    <3> QED BY <2>1 DEF Linked
  <2>3. i \in Nat /\ j \in Nat /\ i >= 1 /\ j >= 1
    OBVIOUS
  <2> QED BY <1>1, <2>2, <2>3
<1>9. ASSUME NEW i \in 1 .. m
      PROVE  /\ d[i].calls \in {{}, {d[i].id}}
             /\ d[i].calls # {} => d[i].role = "assistant" /\ d[i].id # 0
             /\ d[i].answers # NoCall => d[i].role = "tool"
  <2>1. From(i) \in 1 .. n /\ d[i] = ms[From(i)]
    BY <1>2
  <2> HIDE DEF From
  <2> QED BY <2>1 DEF Linked
<1>10. ASSUME NEW i \in 1 .. m, d[i].calls # {}, i < m PROVE d[i + 1].answers = d[i].id
  <2>1. i # 1
    BY <1>2, <1>5, <1>10
  <2>2. d[i] = ms[i + k] /\ i + k \in 1 .. n
    BY <1>2, <2>1
  <2>3. i + 1 \in 1 .. m /\ i + 1 # 1 /\ (i + 1) + k = (i + k) + 1 /\ i + k < n
    <3> HIDE DEF n, m
    <3> QED BY <1>1, <1>10
  <2>4. d[i + 1] = ms[(i + k) + 1]
    BY <1>2, <2>3
  <2>5. ms[(i + k) + 1].answers = ms[i + k].id
    <3> DEFINE q == i + k
    <3>1. q \in 1 .. n /\ q < n /\ ms[q].calls # {}
      BY <1>10, <2>2, <2>3
    <3> HIDE DEF q
    <3>2. ms[q + 1].answers = ms[q].id
      BY <3>1 DEF Linked
    <3> QED BY <3>2 DEF q
  <2> QED BY <2>2, <2>4, <2>5
<1>11. ASSUME NEW i \in 1 .. m, d[i].answers # NoCall
       PROVE  i > 1 /\ d[i - 1].calls = {d[i].answers}
  <2>1. i # 1
    <3> SUFFICES ASSUME i = 1 PROVE FALSE
      OBVIOUS
    <3>1. 1 \in 1 .. n /\ ms[1].answers # NoCall
      BY <1>2, <1>11
    <3>2. 1 > 1
      BY <3>1 DEF Linked
    <3> QED BY <3>2
  <2>2. d[i] = ms[i + k] /\ i + k \in 1 .. n
    BY <1>2, <2>1
  <2>3. ms[(i + k) - 1].calls = {ms[i + k].answers}
    <3> DEFINE q == i + k
    <3>1. q \in 1 .. n /\ ms[q].answers # NoCall
      BY <1>11, <2>2
    <3> HIDE DEF q
    <3>2. ms[q - 1].calls = {ms[q].answers}
      BY <3>1 DEF Linked
    <3> QED BY <3>2 DEF q
  <2>4. CASE i = 2
    <3>1. (i + k) - 1 = 1 + k
      BY <1>1, <2>4
    <3>2. k = 0
      BY <1>4, <2>3, <3>1
    <3>3. d[1] = ms[1] /\ (i + k) - 1 = 1 /\ i - 1 = 1
      BY <2>4, <3>2 DEF Shortened
    <3> QED BY <2>2, <2>3, <2>4, <3>3
  <2>5. CASE i # 2
    <3>1. i - 1 \in 1 .. m /\ i - 1 # 1 /\ (i - 1) + k = (i + k) - 1 /\ i > 1
      <4> HIDE DEF m
      <4> QED BY <1>1, <2>1, <2>5
    <3>2. d[i - 1] = ms[(i + k) - 1]
      BY <1>2, <3>1
    <3> QED BY <2>2, <2>3, <3>1, <3>2
  <2> QED BY <2>4, <2>5
<1>12. Linked(d)
  <2> HIDE DEF m
  <2> QED BY <1>8, <1>9, <1>10, <1>11 DEF Linked, m
<1> QED BY <1>7, <1>12

-----------------------------------------------------------------------------
(* What the invariant says of the properties.                              *)

\* What of a cache counts as spoken when these are the messages.
Counted(ms) == {m \in Turns : m.role = "assistant" => m \in ToSet(ms)}

LEMMA SpokenIs ==
    ASSUME Types
    PROVE  /\ Spoken = Among(Said(sess.kv), Counted(sess.messages))
           /\ NotReplies(Spoken) = Asked(sess.kv)
<1> DEFINE kv == sess.kv
           o == Ofs(kv)
           S == Counted(sess.messages)
           W == {m \in ToSet(o) : m.role # "tools" /\ (m.role = "assistant" => m \in ToSet(sess.messages))}
<1>1. kv \in Seq(Blocks) /\ sess.messages \in Seq(Turns)
  BY DEF Types
<1>2. o \in Seq(Msgs)
  <2> HIDE DEF kv
  <2> QED BY <1>1, OfsAre
<1>3. Spoken = Among(o, W)
  <2>1. DOMAIN kv = 1 .. Len(kv)
    BY <1>1
  <2>2. [i \in DOMAIN kv |-> kv[i].of] = o
    BY <2>1 DEF Ofs
  <2> QED BY <2>2, Zenon DEF Spoken
<1>4. \A i \in 1 .. Len(o) : o[i] \in W <=> o[i] \in S
  <2> SUFFICES ASSUME NEW i \in 1 .. Len(o) PROVE o[i] \in W <=> o[i] \in S
    OBVIOUS
  <2> HIDE DEF o
  <2>1. o[i] \in ToSet(o) /\ o[i] \in Msgs
    BY <1>2 DEF ToSet
  <2> QED BY <2>1 DEF Counted, Turns
<1>5. S \subseteq Turns /\ Asks \subseteq S
  BY DEF Counted, Asks
<1> HIDE DEF o, S, W
<1>6. Among(o, W) = Among(o, S)
  BY <1>2, <1>4, AmongAlike
<1>7. Among(Among(o, Turns), S) = Among(o, S)
  BY <1>2, <1>5, AmongTwice
<1>8. Spoken = Among(Said(kv), S)
  BY <1>3, <1>6, <1>7 DEF Said, o
<1>9. Among(Among(o, S), Asks) = Among(o, Asks)
  BY <1>2, <1>5, AmongTwice
<1>10. Spoken = Among(o, S)
  BY <1>3, <1>6
<1>11. Spoken \in Seq(Turns)
  <2>1. Among(o, S) \in Seq(Msgs \cap S)
    BY <1>2, AmongIn
  <2>2. Seq(Msgs \cap S) \subseteq Seq(Turns)
    BY <1>5
  <2> QED BY <1>10, <2>1, <2>2
<1>12. NotReplies(Spoken) = Among(Spoken, Asks)
  BY <1>11, NotRepliesIs
<1>13. NotReplies(Spoken) = Asked(kv)
  BY <1>9, <1>10, <1>12 DEF Asked, o
<1> QED BY <1>8, <1>13 DEF S

\* Every message of a transcript counts, another reply does not.
LEMMA CountedAll ==
    ASSUME NEW ms \in Seq(Turns)
    PROVE  /\ Among(ms, Counted(ms)) = ms
           /\ \A r \in Turns : r.role = "assistant" /\ r \notin ToSet(ms) =>
                 Among(Append(ms, r), Counted(ms)) = ms
<1> DEFINE S == Counted(ms)
<1>1. \A i \in 1 .. Len(ms) : ms[i] \in S <=> ms[i] \in Turns
  <2> SUFFICES ASSUME NEW i \in 1 .. Len(ms) PROVE ms[i] \in S /\ ms[i] \in Turns
    OBVIOUS
  <2>1. ms[i] \in ToSet(ms) /\ ms[i] \in Turns
    BY DEF ToSet
  <2> QED BY <2>1 DEF Counted
<1>2. Among(ms, S) = Among(ms, Turns) /\ Among(ms, Turns) = ms
  <2> HIDE DEF S
  <2>1. Among(ms, S) = Among(ms, Turns)
    BY <1>1, AmongAlike
  <2>2. Among(ms, Turns) = ms
    BY AmongAll
  <2> QED BY <2>1, <2>2
<1>3. ASSUME NEW r \in Turns, r.role = "assistant", r \notin ToSet(ms)
      PROVE  Among(Append(ms, r), S) = ms
  <2>1. r \notin S
    BY <1>3 DEF Counted
  <2>2. Among(Append(ms, r), S) = IF r \in S THEN Append(Among(ms, S), r) ELSE Among(ms, S)
    <3> HIDE DEF S
    <3> QED BY AmongMore
  <2> HIDE DEF S
  <2> QED BY <1>2, <2>1, <2>2, Zenon
<1> QED BY <1>2, <1>3, Zenon

LEMMA InvKv == ASSUME Inv PROVE KvIsTranscript
<1>1. Types /\ Conversation /\ Sessions /\ Store
  BY DEF Inv
<1>2. TypeOK
  <2>1. model \in Models /\ held \in 0 .. Len(history)
        /\ live \in {"none", "starting", "pulling", "idle", "broken"}
    BY <1>1 DEF Types
  <2>2. Len(history) <= MaxMessages + 1
    BY SMTT(30), <1>1, LlamaSessionAssumption DEF Conversation, Types
  <2>3. cut.removed \in 0 .. Len(sess.messages) + cut.removed
    <3>1. sess.messages \in Seq(Turns) /\ cut.removed \in Nat
      BY <1>1 DEF Types
    <3> QED BY <3>1
  <2>4. \A i, j \in DOMAIN disk : disk[i].chat = disk[j].chat => i = j
    <3>1. DOMAIN disk = 1 .. Len(disk)
      BY <1>1 DEF Types
    <3> QED BY <1>1, <3>1 DEF Store
  <2> QED BY <2>1, <2>2, <2>3, <2>4 DEF TypeOK
<1>3. ASSUME live \in {"pulling", "idle"}
      PROVE  /\ sess.cur_pos = Size(sess.kv) /\ sess.cur_pos <= Ctx
             /\ sess.kv = <<>> => live = "idle"
  BY <1>1, <1>3 DEF Sessions, Pulling, Size
<1>4. ASSUME live \in {"pulling", "idle"}, sess.kv # <<>>
      PROVE  IF sess.restored THEN NotReplies(Spoken) = NotReplies(sess.messages)
             ELSE Spoken = sess.messages
  <2>1. /\ Spoken = Among(Said(sess.kv), Counted(sess.messages))
        /\ NotReplies(Spoken) = Asked(sess.kv)
    BY <1>1, SpokenIs
  <2>2. sess.messages \in Seq(Turns)
    BY <1>1 DEF Types
  <2>3. CASE sess.restored
    <3>1. Asked(sess.kv) = NotReplies(sess.messages)
      BY <1>1, <1>4, <2>3 DEF Sessions, Pulling, Idle
    <3> QED BY <2>1, <2>3, <3>1
  <2>4. CASE ~sess.restored
    <3>1. CASE Said(sess.kv) = sess.messages
      BY <2>1, <2>2, <2>4, <3>1, CountedAll
    <3>2. CASE Said(sess.kv) # sess.messages
      <4>1. Transcribed(sess)
        BY <1>1, <1>4, <2>4, <3>2 DEF Sessions, Pulling, Idle
      <4> DEFINE r == LastOf(sess.kv).of
      <4>2. r.role = "assistant" /\ r \notin ToSet(sess.messages) /\ Said(sess.kv) = Append(sess.messages, r)
        BY <3>2, <4>1 DEF Transcribed
      <4>3. r \in Turns
        <5>1. sess.kv \in Seq(Blocks)
          BY <1>1 DEF Types
        <5>2. LastOf(sess.kv) \in Blocks
          BY <1>4, <5>1 DEF LastOf
        <5>3. r \in Msgs
          BY <5>2 DEF Blocks
        <5> QED BY <4>2, <5>3 DEF Turns
      <4> HIDE DEF r
      <4>4. Among(Append(sess.messages, r), Counted(sess.messages)) = sess.messages
        BY <2>2, <4>2, <4>3, CountedAll
      <4>5. Spoken = sess.messages
        BY <2>1, <4>2, <4>4
      <4> QED BY <2>4, <4>5
    <3> QED BY <3>1, <3>2
  <2> QED BY <2>3, <2>4
<1> QED BY <1>2, <1>3, <1>4, Zenon DEF KvIsTranscript

LEMMA InvAsked == ASSUME Inv PROVE AskedIsAnswered
BY DEF Inv, Sessions, Pulling, AskedIsAnswered

-----------------------------------------------------------------------------
(* The conversation.                                                       *)

LEMMA InitInv == ASSUME Init PROVE Inv
<1>1. DOMAIN Others = 1 .. Len(Others) /\ Len(Others) \in Nat
  BY LlamaSessionAssumption
<1>2. /\ Len(disk) = Len(Others) /\ disk \in Seq(Files)
      /\ \A i \in 1 .. Len(disk) : disk[i].chat = Others[i].chat
  <2>1. disk = [i \in 1 .. Len(Others) |-> Entry(Others[i].chat, Others[i].size, NoSnap)]
    BY <1>1 DEF Init
  <2>2. ASSUME NEW i \in 1 .. Len(Others)
        PROVE  /\ Entry(Others[i].chat, Others[i].size, NoSnap) \in Files
               /\ Entry(Others[i].chat, Others[i].size, NoSnap).chat = Others[i].chat
    <3>1. Others[i].chat \in Chats /\ Others[i].size \in Nat
      BY <1>1, LlamaSessionAssumption DEF Chats
    <3>2. NoSnap \in Snaps
      BY DEF NoSnap, Snaps, Owners
    <3> QED BY <3>1, <3>2 DEF Entry, Files
  <2>3. disk \in [1 .. Len(Others) -> Files]
    BY <2>1, <2>2
  <2>4. Len(disk) = Len(Others) /\ disk \in Seq(Files)
    BY <1>1, <2>3
  <2> QED BY <2>1, <2>2, <2>4
<1>3. Types
  <2>1. sess \in [model : Owners, messages : Seq(Turns), kv : Seq(Blocks), cur_pos : Nat,
                  restored : BOOLEAN]
    BY DEF Init, NoSession, Owners
  <2> QED BY <1>2, <2>1 DEF Init, Types, NoCut
<1>4. Conversation
  BY LlamaSessionAssumption DEF Init, Conversation, Linked
<1>5. Sessions
  BY DEF Init, Sessions, Starting, Pulling, Idle
<1>6. Store
  BY <1>1, <1>2, LlamaSessionAssumption DEF Store
<1> QED BY <1>3, <1>4, <1>5, <1>6 DEF Inv

LEMMA LinkedMore ==
    ASSUME NEW ms \in Seq(Turns), Linked(ms), NEW m \in Turns,
           \A i \in 1 .. Len(ms) : ms[i].id # m.id,
           m.calls \in {{}, {m.id}}, m.calls # {} => m.role = "assistant" /\ m.id # 0,
           m.answers # NoCall => m.role = "tool" /\ ms # <<>> /\ LastOf(ms).calls = {m.answers},
           ms # <<>> /\ LastOf(ms).calls # {} => m.answers = LastOf(ms).id
    PROVE  Linked(Append(ms, m))
<1> DEFINE n == Len(ms)
           w == Append(ms, m)
<1>1. /\ n \in Nat /\ Len(w) = n + 1 /\ w[n + 1] = m
      /\ \A i \in 1 .. n : w[i] = ms[i]
  OBVIOUS
<1>2. ms # <<>> => n \in 1 .. n /\ LastOf(ms) = ms[n]
  BY DEF LastOf
<1>3. ms = <<>> <=> n = 0
  OBVIOUS
<1> HIDE DEF w
<1>4. \A i, j \in 1 .. n + 1 : w[i].id = w[j].id => i = j
  <2> SUFFICES ASSUME NEW i \in 1 .. n + 1, NEW j \in 1 .. n + 1, w[i].id = w[j].id PROVE i = j
    OBVIOUS
  <2> HIDE DEF n
  <2>1. CASE i \in 1 .. n /\ j \in 1 .. n
    BY <1>1, <2>1 DEF Linked, n
  <2>2. CASE i = n + 1 /\ j \in 1 .. n
    BY <1>1, <2>2 DEF n
  <2>3. CASE j = n + 1 /\ i \in 1 .. n
    BY <1>1, <2>3 DEF n
  <2>4. CASE i = n + 1 /\ j = n + 1
    BY <2>4
  <2> QED BY <1>1, <2>1, <2>2, <2>3, <2>4
<1>5. ASSUME NEW i \in 1 .. n + 1
      PROVE  /\ w[i].calls \in {{}, {w[i].id}}
             /\ w[i].calls # {} => w[i].role = "assistant" /\ w[i].id # 0
             /\ w[i].answers # NoCall => w[i].role = "tool"
             /\ w[i].calls # {} /\ i < n + 1 => w[i + 1].answers = w[i].id
             /\ w[i].answers # NoCall => i > 1 /\ w[i - 1].calls = {w[i].answers}
  <2>1. CASE i \in 1 .. n
    <3>1. w[i] = ms[i]
      BY <1>1, <2>1
    <3>2. /\ w[i].calls \in {{}, {w[i].id}}
          /\ w[i].calls # {} => w[i].role = "assistant" /\ w[i].id # 0
          /\ w[i].answers # NoCall => w[i].role = "tool"
      BY <2>1, <3>1 DEF Linked
    <3>3. ASSUME w[i].calls # {} PROVE w[i + 1].answers = w[i].id
      <4>1. CASE i = n
        BY <1>1, <1>2, <1>3, <2>1, <3>1, <3>3, <4>1
      <4>2. CASE i # n
        <5>1. i + 1 \in 1 .. n /\ i < n
          <6> HIDE DEF n
          <6> QED BY <1>1, <2>1, <4>2
        <5>2. w[i + 1] = ms[i + 1]
          BY <1>1, <5>1
        <5>3. ms[i + 1].answers = ms[i].id
          BY <2>1, <3>1, <3>3, <5>1 DEF Linked
        <5> QED BY <3>1, <5>2, <5>3
      <4> QED BY <4>1, <4>2
    <3>4. ASSUME w[i].answers # NoCall PROVE i > 1 /\ w[i - 1].calls = {w[i].answers}
      <4>1. i > 1 /\ ms[i - 1].calls = {ms[i].answers}
        BY <2>1, <3>1, <3>4 DEF Linked
      <4>2. i - 1 \in 1 .. n
        <5> HIDE DEF n
        <5> QED BY <1>1, <2>1, <4>1
      <4> QED BY <1>1, <3>1, <4>1, <4>2
    <3> QED BY <3>2, <3>3, <3>4
  <2>2. CASE i = n + 1
    <3>1. w[i] = m
      BY <1>1, <2>2
    <3>2. ASSUME m.answers # NoCall PROVE i > 1 /\ w[i - 1].calls = {m.answers}
      <4>1. ms # <<>> /\ LastOf(ms).calls = {m.answers}
        BY <3>2
      <4>2. n \in 1 .. n /\ ms[n].calls = {m.answers} /\ w[n] = ms[n]
        BY <1>1, <1>2, <4>1
      <4>3. i - 1 = n /\ i > 1
        <5> HIDE DEF n
        <5> QED BY <1>1, <2>2, <4>2
      <4> QED BY <4>2, <4>3
    <3>3. ~(i < n + 1)
      <4> HIDE DEF n
      <4> QED BY <1>1, <2>2
    <3> QED BY <3>1, <3>2, <3>3
  <2> QED BY <1>1, <2>1, <2>2
<1>6. Linked(w)
  <2>1. Len(w) = n + 1
    BY <1>1
  <2> HIDE DEF n
  <2> QED BY <1>4, <1>5, <2>1 DEF Linked
<1> QED BY <1>6 DEF w

\* What a conversation begins with is a conversation, when no call is left open.
LEMMA LinkedBegins ==
    ASSUME NEW ms \in Seq(Turns), Linked(ms), NEW n \in 0 .. Len(ms)
    PROVE  Linked(SubSeq(ms, 1, n))
<1> DEFINE w == SubSeq(ms, 1, n)
<1>1. Len(w) = n /\ \A i \in 1 .. n : w[i] = ms[i] /\ i \in 1 .. Len(ms)
  OBVIOUS
<1> HIDE DEF w
<1>2. \A i \in 1 .. n : i < n => i + 1 \in 1 .. n /\ i < Len(ms)
  OBVIOUS
<1>3. \A i \in 1 .. n : i > 1 => i - 1 \in 1 .. n
  OBVIOUS
<1>4. \A i, j \in 1 .. n : w[i].id = w[j].id => i = j
  BY <1>1 DEF Linked
<1>5. ASSUME NEW i \in 1 .. n
      PROVE  /\ w[i].calls \in {{}, {w[i].id}}
             /\ w[i].calls # {} => w[i].role = "assistant" /\ w[i].id # 0
             /\ w[i].answers # NoCall => w[i].role = "tool"
             /\ w[i].calls # {} /\ i < n => w[i + 1].answers = w[i].id
             /\ w[i].answers # NoCall => i > 1 /\ w[i - 1].calls = {w[i].answers}
  BY <1>1, <1>2, <1>3 DEF Linked
<1> QED BY <1>1, <1>4, <1>5 DEF Linked, w

\* An open call is that of the last message.
LEMMA OpenIs ==
    ASSUME NEW ms \in Seq(Turns), Linked(ms)
    PROVE  /\ Open(ms) = {} => (ms # <<>> => LastOf(ms).calls = {})
           /\ \A c \in Open(ms) : ms # <<>> /\ LastOf(ms).calls = {c} /\ LastOf(ms).id = c
<1> DEFINE n == Len(ms)
           made == UNION {ms[i].calls : i \in DOMAIN ms}
           met == {ms[i].answers : i \in DOMAIN ms}
<1>1. n \in Nat /\ DOMAIN ms = 1 .. n
  OBVIOUS
<1>2. Open(ms) = made \ met
  BY Zenon DEF Open
<1>3. ASSUME Open(ms) = {}, ms # <<>>, LastOf(ms).calls # {} PROVE FALSE
  <2>1. n \in 1 .. n /\ LastOf(ms) = ms[n]
    BY <1>3 DEF LastOf
  <2>2. ms[n].calls = {ms[n].id}
    BY <1>3, <2>1 DEF Linked
  <2>3. ms[n].id \in made
    BY <1>1, <2>1, <2>2
  <2>4. PICK j \in 1 .. n : ms[j].answers = ms[n].id
    <3>1. ms[n].id \in met
      <4> HIDE DEF made, met
      <4> QED BY <1>2, <1>3, <2>3
    <3> HIDE DEF n
    <3> QED BY <1>1, <3>1
  <2>5. ms[n].id # 0
    BY <1>3, <2>1 DEF Linked
  <2>6. j > 1 /\ ms[j - 1].calls = {ms[j].answers}
    BY <2>4, <2>5 DEF Linked, NoCall
  <2>7. j - 1 \in 1 .. n /\ j - 1 # n
    <3> HIDE DEF n
    <3> QED BY <1>1, <2>6
  <2>8. ms[j - 1].calls = {ms[j - 1].id}
    BY <2>6, <2>7 DEF Linked
  <2>9. ms[j - 1].id = ms[n].id
    BY <2>4, <2>6, <2>8
  <2> QED BY <2>1, <2>7, <2>9 DEF Linked
<1>4. ASSUME NEW c \in Open(ms) PROVE ms # <<>> /\ LastOf(ms).calls = {c} /\ LastOf(ms).id = c
  <2>1. PICK i \in 1 .. n : c \in ms[i].calls
    <3>1. c \in made
      <4> HIDE DEF made, met
      <4> QED BY <1>2
    <3> QED BY <1>1, <3>1
  <2>2. \A j \in 1 .. n : ms[j].answers # c
    <3>1. c \notin met
      <4> HIDE DEF made, met
      <4> QED BY <1>2
    <3> HIDE DEF n
    <3> QED BY <1>1, <3>1
  <2>3. ms[i].calls = {c} /\ ms[i].id = c
    BY <2>1 DEF Linked
  <2>4. ~(i < n)
    <3> SUFFICES ASSUME i < n PROVE FALSE
      OBVIOUS
    <3>1. ms[i + 1].answers = c
      BY <2>3 DEF Linked
    <3>2. i + 1 \in 1 .. n
      <4> HIDE DEF n
      <4> QED BY <1>1
    <3> QED BY <2>2, <3>1, <3>2
  <2>5. i = n
    <3> HIDE DEF n
    <3> QED BY <1>1, <2>4
  <2> QED BY <2>3, <2>5 DEF LastOf
<1> QED BY <1>3, <1>4

\* A question, or an answer to the open call, is added to the conversation.
LEMMA AskedInv ==
    ASSUME Inv, Resting, Len(history) < MaxMessages, NEW m \in Turns,
           m.id = count.ids + 1, m.role \in {"user", "tool"}, m.calls = {},
           m.answers # NoCall => m.role = "tool",
           IF Unanswered = {} THEN m.answers = NoCall ELSE m.answers \in Unanswered,
           history' = Append(history, m), NextId,
           UNCHANGED <<model, held, live, sess, cut, disk>>
    PROVE  Inv'
<1> DEFINE n == Len(history)
<1>1. Types /\ Conversation /\ Sessions /\ Store
  BY DEF Inv
<1>2. /\ history \in Seq(Turns) /\ n \in Nat /\ count \in [ids : Nat, edits : Nat, saves : Nat]
      /\ held \in 0 .. n /\ Linked(history)
  BY <1>1 DEF Types, Conversation
<1>3. /\ history' \in Seq(Turns) /\ Len(history') = n + 1 /\ history'[n + 1] = m
      /\ \A i \in 1 .. n : history'[i] = history[i]
  BY <1>2
<1>4. count' \in [ids : Nat, edits : Nat, saves : Nat] /\ count'.ids = count.ids + 1
  BY <1>2 DEF NextId
<1>5. Types'
  <2>1. held' \in 0 .. Len(history')
    <3>1. held' = held
      OBVIOUS
    <3> HIDE DEF n
    <3> QED BY <1>2, <1>3, <3>1
  <2> QED BY <1>1, <1>3, <1>4, <2>1 DEF Types
<1>6. \A i \in 1 .. n : history[i].id \in 1 .. count.ids /\ history[i].role \in {"user", "tool", "assistant"}
  BY <1>1 DEF Conversation
<1>7. Linked(history')
  <2>1. \A i \in 1 .. n : history[i].id # m.id
    <3> SUFFICES ASSUME NEW i \in 1 .. n PROVE history[i].id # m.id
      OBVIOUS
    <3>1. history[i].id \in 1 .. count.ids /\ count.ids \in Nat
      BY <1>2, <1>6
    <3> QED BY <3>1
  <2>2. CASE Unanswered = {}
    <3>1. history # <<>> => LastOf(history).calls = {}
      BY <1>2, <2>2, OpenIs DEF Unanswered
    <3> QED BY <1>2, <2>1, <2>2, <3>1, LinkedMore
  <2>3. CASE Unanswered # {}
    <3>1. m.answers \in Unanswered
      BY <2>3
    <3>2. history # <<>> /\ LastOf(history).calls = {m.answers} /\ LastOf(history).id = m.answers
      BY <1>2, <3>1, OpenIs DEF Unanswered
    <3> QED BY <1>2, <2>1, <3>2, LinkedMore
  <2> QED BY <2>2, <2>3
<1>8. Conversation'
  <2>1. \A i \in 1 .. n + 1 : /\ history'[i].id \in 1 .. count'.ids
                              /\ history'[i].role \in {"user", "tool", "assistant"}
    <3> SUFFICES ASSUME NEW i \in 1 .. n + 1
                 PROVE  history'[i].id \in 1 .. count'.ids /\ history'[i].role \in {"user", "tool", "assistant"}
      OBVIOUS
    <3> HIDE DEF n
    <3>1. CASE i \in 1 .. n
      <4>1. history'[i] = history[i] /\ history[i].id \in 1 .. count.ids /\ count.ids \in Nat
        BY <1>2, <1>3, <1>6, <3>1
      <4> QED BY <1>4, <1>6, <3>1, <4>1
    <3>2. CASE i = n + 1
      <4>1. history'[i] = m /\ count.ids \in Nat
        BY <1>2, <1>3, <3>2
      <4> QED BY <1>4, <4>1
    <3>3. i \in 1 .. n \/ i = n + 1
      BY <1>2
    <3> QED BY <3>1, <3>2, <3>3
  <2>2. Len(history') <= MaxMessages
    <3>1. MaxMessages \in Nat /\ n < MaxMessages
      BY LlamaSessionAssumption
    <3> HIDE DEF n
    <3> QED BY <1>2, <1>3, <3>1
  <2>3. live' \notin {"starting", "pulling"}
    BY DEF Resting
  <2> HIDE DEF n
  <2> QED BY <1>3, <1>7, <2>1, <2>2, <2>3 DEF Conversation
<1>9. Idle'
  <2> SUFFICES ASSUME live = "idle", sess.kv # <<>>, ~sess.restored PROVE Transcribed(sess)'
    BY <1>1 DEF Sessions, Idle
  <2>1. Transcribed(sess)
    BY <1>1 DEF Sessions, Idle
  <2>2. \A k \in Nat : NoReplyBehind(k) => NoReplyBehind(k)'
    <3> SUFFICES ASSUME NEW k \in Nat, NoReplyBehind(k), NEW i \in k + 1 .. n + 1
                 PROVE  history'[i].role # "assistant"
      BY <1>3 DEF NoReplyBehind
    <3>1. CASE i = n + 1
      BY <1>3, <3>1
    <3>2. CASE i # n + 1
      <4>1. i \in k + 1 .. n /\ i \in 1 .. n
        <5> HIDE DEF n
        <5> QED BY <1>2, <3>2
      <4> QED BY <1>3, <4>1 DEF NoReplyBehind
    <3> QED BY <3>1, <3>2
  <2>3. sess' = sess /\ held' = held /\ held \in Nat /\ held + 1 \in Nat
    BY <1>2
  <2>4. CASE Said(sess.kv) = sess.messages /\ (held > 0 => NoReplyBehind(held))
    BY <2>2, <2>3, <2>4 DEF Transcribed
  <2>5. CASE LET r == LastOf(sess.kv).of
             IN /\ r.role = "assistant" /\ r \notin ToSet(sess.messages)
                /\ Said(sess.kv) = Append(sess.messages, r)
                /\ held > 0 => held < Len(history) /\ history[held + 1] = r /\ NoReplyBehind(held + 1)
    <3>1. held > 0 => held < Len(history') /\ history'[held + 1] = LastOf(sess.kv).of /\ NoReplyBehind(held + 1)'
      <4> SUFFICES ASSUME held > 0
                   PROVE  held < Len(history') /\ history'[held + 1] = LastOf(sess.kv).of /\ NoReplyBehind(held + 1)'
        OBVIOUS
      <4>1. held < n /\ history[held + 1] = LastOf(sess.kv).of /\ NoReplyBehind(held + 1)
        BY <2>5
      <4>2. held + 1 \in 1 .. n /\ held < n + 1
        <5> HIDE DEF n
        <5> QED BY <1>2, <2>3, <4>1
      <4> QED BY <1>3, <2>2, <2>3, <4>1, <4>2
    <3> QED BY <2>3, <2>5, <3>1 DEF Transcribed
  <2> QED BY <2>1, <2>4, <2>5 DEF Transcribed
<1>10. Sessions'
  <2>1. live' # "none" =>
           /\ sess'.messages # <<>> /\ Head(sess'.messages).role = "system"
           /\ \A i \in 1 .. Len(sess'.messages) :
                 /\ sess'.messages[i].id <= count'.ids
                 /\ sess'.messages[i].role = "assistant" => sess'.messages[i].id # 0
    <3> SUFFICES ASSUME live # "none", NEW i \in 1 .. Len(sess.messages)
                 PROVE  sess.messages[i].id <= count'.ids
      BY <1>1 DEF Sessions
    <3>1. sess.messages[i].id <= count.ids /\ sess.messages[i] \in Turns
      BY SMTT(30), <1>1 DEF Sessions, Types
    <3>2. sess.messages[i].id \in Nat /\ count.ids \in Nat
      BY <1>2, <3>1, TurnsAre
    <3> QED BY <1>4, <3>1, <3>2
  <2>2. Starting' /\ Pulling'
    BY DEF Resting, Starting, Pulling
  <2> QED BY <1>1, <1>9, <2>1, <2>2 DEF Sessions
<1>11. Store'
  BY <1>1 DEF Store
<1> QED BY <1>5, <1>8, <1>10, <1>11 DEF Inv

LEMMA SayInv == ASSUME Inv, NEW size \in Sizes, Say(size) PROVE Inv'
<1> DEFINE m == Message("user", size, {}, NoCall)
<1>1. count.ids \in Nat /\ size \in Nat
  BY LlamaSessionAssumption DEF Inv, Types
<1>2. m \in Turns /\ m.role = "user" /\ m.id = count.ids + 1 /\ m.calls = {} /\ m.answers = NoCall
  BY <1>1, MessageIs DEF NoCall, Roles
<1> HIDE DEF m
<1>3. /\ Resting /\ Len(history) < MaxMessages /\ Unanswered = {}
      /\ history' = Append(history, m) /\ NextId
      /\ UNCHANGED <<model, held, live, sess, cut, disk>>
  BY DEF Say, m
<1> QED BY <1>2, <1>3, AskedInv

LEMMA AnswerInv == ASSUME Inv, NEW size \in Sizes, Answer(size) PROVE Inv'
<1>1. PICK c \in Unanswered : history' = Append(history, Message("tool", size, {}, c))
  BY DEF Answer
<1> DEFINE m == Message("tool", size, {}, c)
<1>2. count.ids \in Nat /\ size \in Nat
  BY LlamaSessionAssumption DEF Inv, Types
<1>3. c \in Nat
  <2>1. history \in Seq(Turns) /\ Linked(history)
    BY DEF Inv, Types, Conversation
  <2>2. history # <<>> /\ LastOf(history).id = c
    BY <2>1, OpenIs DEF Unanswered
  <2>3. LastOf(history) \in Turns
    BY <2>1, <2>2 DEF LastOf
  <2> QED BY <2>2, <2>3, TurnsAre
<1>4. m \in Turns /\ m.role = "tool" /\ m.id = count.ids + 1 /\ m.calls = {} /\ m.answers = c
  BY <1>2, <1>3, MessageIs DEF Roles
<1> HIDE DEF m
<1>5. /\ Resting /\ Len(history) < MaxMessages
      /\ history' = Append(history, m) /\ NextId
      /\ UNCHANGED <<model, held, live, sess, cut, disk>>
  BY <1>1 DEF Answer, m
<1> QED BY <1>1, <1>4, <1>5, AskedInv

\* The caller rewrote its conversation and begins anew.
LEMMA EditedInv ==
    ASSUME Inv, Resting, held' = 0, history' \in Seq(Turns), Linked(history'),
           \/ Len(history') <= MaxMessages
           \/ Len(history') = MaxMessages + 1 /\ LastOf(history').role = "assistant",
           \A i \in 1 .. Len(history') :
              /\ history'[i].id \in 1 .. count.ids + 1
              /\ history'[i].role \in {"user", "tool", "assistant"},
           count' \in [ids : Nat, edits : Nat, saves : Nat], count'.ids = count.ids + 1,
           UNCHANGED <<model, live, sess, cut, disk>>
    PROVE  Inv'
<1>1. Types /\ Conversation /\ Sessions /\ Store
  BY DEF Inv
<1>2. Types'
  <2>1. held' \in 0 .. Len(history')
    OBVIOUS
  <2> QED BY <1>1, <2>1 DEF Types
<1>3. Conversation'
  BY DEF Conversation, Resting
<1>4. Idle'
  <2> SUFFICES ASSUME live = "idle", sess.kv # <<>>, ~sess.restored PROVE Transcribed(sess)'
    BY <1>1 DEF Sessions, Idle
  <2>1. Transcribed(sess)
    BY <1>1 DEF Sessions, Idle
  <2>2. sess' = sess /\ ~(held' > 0)
    OBVIOUS
  <2> QED BY <2>1, <2>2 DEF Transcribed
<1>5. Sessions'
  <2>1. live' # "none" =>
           /\ sess'.messages # <<>> /\ Head(sess'.messages).role = "system"
           /\ \A i \in 1 .. Len(sess'.messages) :
                 /\ sess'.messages[i].id <= count'.ids
                 /\ sess'.messages[i].role = "assistant" => sess'.messages[i].id # 0
    <3> SUFFICES ASSUME live # "none", NEW i \in 1 .. Len(sess.messages)
                 PROVE  sess.messages[i].id <= count'.ids
      BY <1>1 DEF Sessions
    <3>1. sess.messages[i].id <= count.ids /\ sess.messages[i] \in Turns
      BY SMTT(30), <1>1 DEF Sessions, Types
    <3>2. sess.messages[i].id \in Nat /\ count.ids \in Nat
      BY <1>1, <3>1, TurnsAre DEF Types
    <3> QED BY <3>1, <3>2
  <2>2. Starting' /\ Pulling'
    BY DEF Resting, Starting, Pulling
  <2> QED BY <1>1, <1>4, <2>1, <2>2 DEF Sessions
<1>6. Store'
  BY <1>1 DEF Store
<1> QED BY <1>2, <1>3, <1>5, <1>6 DEF Inv

LEMMA EditInv == ASSUME Inv, Edit PROVE Inv'
<1> DEFINE n == Len(history)
           m == Message("assistant", 1, {}, NoCall)
<1>1. /\ history \in Seq(Turns) /\ Linked(history) /\ n \in Nat
      /\ count \in [ids : Nat, edits : Nat, saves : Nat]
  BY DEF Inv, Types, Conversation
<1>2. /\ Resting /\ held' = 0 /\ UNCHANGED <<model, live, sess, cut, disk>>
      /\ count' \in [ids : Nat, edits : Nat, saves : Nat] /\ count'.ids = count.ids + 1
      /\ history # <<>> /\ n \in 1 .. n
  <2>1. history # <<>> /\ count' = [count EXCEPT !.ids = @ + 1, !.edits = @ + 1]
    BY DEF Edit
  <2>2. n \in 1 .. n
    BY <1>1, <2>1
  <2>3. count' \in [ids : Nat, edits : Nat, saves : Nat] /\ count'.ids = count.ids + 1
    <3> HIDE DEF n, m
    <3>1. count.ids + 1 \in Nat /\ count.edits + 1 \in Nat
      BY <1>1
    <3> DEFINE i == count.ids + 1
               e == count.edits + 1
    <3>2. count' = [count EXCEPT !.ids = i, !.edits = e]
      BY <2>1
    <3> HIDE DEF i, e
    <3> QED BY <1>1, <3>1, <3>2 DEF i, e
  <2> QED BY <2>1, <2>2, <2>3 DEF Edit
<1>3. /\ n <= MaxMessages + 1 /\ MaxMessages \in Nat
      /\ n <= MaxMessages \/ LastOf(history).role = "assistant"
  BY LlamaSessionAssumption, <1>1 DEF Inv, Conversation
<1>4. \A i \in 1 .. n : history[i].id \in 1 .. count.ids /\ history[i].role \in {"user", "tool", "assistant"}
  BY DEF Inv, Conversation
<1>5. ASSUME NEW k \in 0 .. n - 1
      PROVE  LET w == SubSeq(history, 1, k)
             IN /\ w \in Seq(Turns) /\ Linked(w) /\ Len(w) = k
                /\ \A i \in 1 .. k : /\ w[i] = history[i] /\ w[i].id \in 1 .. count.ids
                                     /\ w[i].role \in {"user", "tool", "assistant"}
  <2> DEFINE w == SubSeq(history, 1, k)
  <2>1. k \in 0 .. n /\ \A i \in 1 .. k : i \in 1 .. n
    <3> HIDE DEF n
    <3> QED BY <1>1
  <2>2. w \in Seq(Turns) /\ Len(w) = k /\ \A i \in 1 .. k : w[i] = history[i]
    BY <1>1, <2>1
  <2>3. Linked(w)
    BY <1>1, <2>1, LinkedBegins
  <2> HIDE DEF w, n
  <2>4. \A i \in 1 .. k : w[i].id \in 1 .. count.ids /\ w[i].role \in {"user", "tool", "assistant"}
    BY <1>4, <2>1, <2>2
  <2> QED BY <2>2, <2>3, <2>4 DEF w
<1>6. CASE \E k \in 0 .. n - 1 : history' = SubSeq(history, 1, k)
  <2>1. PICK k \in 0 .. n - 1 : history' = SubSeq(history, 1, k)
    BY <1>6
  <2> DEFINE w == SubSeq(history, 1, k)
  <2>2. /\ w \in Seq(Turns) /\ Linked(w) /\ Len(w) = k
        /\ \A i \in 1 .. k : w[i].id \in 1 .. count.ids /\ w[i].role \in {"user", "tool", "assistant"}
    BY <1>5
  <2>3. history' = w
    BY <2>1
  <2> HIDE DEF w
  <2>4. Len(w) <= MaxMessages
    <3> HIDE DEF n
    <3> QED BY <1>1, <1>3, <2>2
  <2>5. \A i \in 1 .. Len(w) : w[i].id \in 1 .. count.ids + 1 /\ w[i].role \in {"user", "tool", "assistant"}
    <3> SUFFICES ASSUME NEW i \in 1 .. k PROVE w[i].id \in 1 .. count.ids + 1
      BY <2>2
    <3>1. w[i].id \in 1 .. count.ids /\ count.ids \in Nat
      BY <1>1, <2>2
    <3> QED BY <3>1
  <2> QED BY <1>2, <2>2, <2>3, <2>4, <2>5, EditedInv
<1>7. CASE /\ LastOf(history).role = "assistant" /\ LastOf(history).calls = {}
           /\ history' = [history EXCEPT ![Len(history)] = m]
  <2> DEFINE k == n - 1
             w == SubSeq(history, 1, k)
             v == Append(w, m)
  <2>1. k \in 0 .. n - 1 /\ k \in Nat /\ k + 1 = n /\ k <= MaxMessages
    <3> HIDE DEF n
    <3> QED BY <1>1, <1>2, <1>3
  <2>2. /\ w \in Seq(Turns) /\ Linked(w) /\ Len(w) = k
        /\ \A i \in 1 .. k : /\ w[i] = history[i] /\ w[i].id \in 1 .. count.ids
                             /\ w[i].role \in {"user", "tool", "assistant"}
    <3> HIDE DEF k
    <3> QED BY <1>5, <2>1
  <2>3. /\ m \in Turns /\ m.role = "assistant" /\ m.id = count.ids + 1 /\ m.calls = {}
        /\ m.answers = NoCall
    BY <1>1, MessageIs DEF NoCall, Roles
  <2>4. LastOf(history) = history[n]
    BY DEF LastOf
  <2> HIDE DEF m
  <2>5. w # <<>> => LastOf(w).calls = {}
    <3> SUFFICES ASSUME w # <<>>, LastOf(w).calls # {} PROVE FALSE
      OBVIOUS
    <3> HIDE DEF w, k, n
    <3>1. k \in 1 .. k /\ k \in 1 .. n /\ k < n /\ LastOf(w) = history[k]
      BY <1>1, <2>1, <2>2 DEF LastOf
    <3>2. history[k].calls # {}
      BY <3>1
    <3>3. history[k].id # 0 /\ history[k + 1].answers = history[k].id
      BY <1>1, <3>1, <3>2 DEF Linked, n
    <3>4. history[n].answers # NoCall
      BY <2>1, <3>3 DEF NoCall
    <3>5. history[n].role = "tool"
      BY <1>1, <1>2, <3>4 DEF Linked, n
    <3> QED BY <1>7, <2>4, <3>5
  <2>6. \A i \in 1 .. Len(w) : w[i].id # m.id
    <3> SUFFICES ASSUME NEW i \in 1 .. k PROVE w[i].id # m.id
      BY <2>2
    <3>1. w[i].id \in 1 .. count.ids /\ count.ids \in Nat
      BY <1>1, <2>2
    <3> QED BY <2>3, <3>1
  <2>7. Linked(v)
    <3> HIDE DEF w
    <3> QED BY <2>2, <2>3, <2>5, <2>6, LinkedMore
  <2>8. /\ v \in Seq(Turns) /\ Len(v) = n /\ v[n] = m /\ \A i \in 1 .. k : v[i] = history[i]
    <3> HIDE DEF w, k, n
    <3>1. v \in Seq(Turns) /\ Len(v) = k + 1 /\ v[k + 1] = m /\ \A i \in 1 .. k : v[i] = w[i]
      BY <2>1, <2>2, <2>3
    <3> QED BY <2>1, <2>2, <3>1
  <2>9. history' = v
    <3>1. /\ history' \in Seq(Turns) /\ Len(history') = n /\ history'[n] = m
          /\ \A i \in 1 .. n : i # n => history'[i] = history[i]
      BY <1>1, <1>2, <1>7, <2>3
    <3> HIDE DEF v, n
    <3>2. \A i \in 1 .. n : history'[i] = v[i]
      <4> SUFFICES ASSUME NEW i \in 1 .. n PROVE history'[i] = v[i]
        OBVIOUS
      <4>1. CASE i = n
        BY <2>8, <3>1, <4>1
      <4>2. CASE i # n
        <5>1. i \in 1 .. k
          BY <1>1, <4>2
        <5> QED BY <2>8, <3>1, <4>2, <5>1
      <4> QED BY <4>1, <4>2
    <3> QED BY <2>8, <3>1, <3>2
  <2> HIDE DEF v, w
  <2>10. \A i \in 1 .. n : v[i].id \in 1 .. count.ids + 1 /\ v[i].role \in {"user", "tool", "assistant"}
    <3> SUFFICES ASSUME NEW i \in 1 .. n
                 PROVE  v[i].id \in 1 .. count.ids + 1 /\ v[i].role \in {"user", "tool", "assistant"}
      OBVIOUS
    <3>0. count.ids \in Nat
      BY <1>1
    <3>1. CASE i = n
      BY <2>3, <2>8, <3>0, <3>1
    <3>2. CASE i # n
      <4>1. i \in 1 .. k
        <5> HIDE DEF n
        <5> QED BY <1>1, <3>2
      <4>2. v[i] = history[i] /\ history[i].id \in 1 .. count.ids
        BY <2>8, <4>1, <1>4
      <4> QED BY <1>4, <3>0, <4>2
    <3> QED BY <3>1, <3>2
  <2>11. n <= MaxMessages \/ (n = MaxMessages + 1 /\ LastOf(v).role = "assistant")
    <3>1. LastOf(v).role = "assistant"
      BY <2>3, <2>8 DEF LastOf
    <3> HIDE DEF n
    <3> QED BY <1>1, <1>3, <3>1
  <2> HIDE DEF n
  <2> QED BY <1>2, <2>7, <2>8, <2>9, <2>10, <2>11, EditedInv
<1> QED BY <1>6, <1>7 DEF Edit

-----------------------------------------------------------------------------
(* The store.                                                              *)

\* Files of different chats, all of them of d.
Chosen(d) ==
    {q \in Seq(Files) :
        /\ \A i, j \in 1 .. Len(q) : q[i].chat = q[j].chat => i = j
        /\ \A i \in 1 .. Len(q) : \E j \in 1 .. Len(d) : q[i] = d[j]}

LEMMA ChosenMore ==
    ASSUME NEW d \in Seq(Files), \A i, j \in 1 .. Len(d) : d[i].chat = d[j].chat => i = j,
           NEW k \in 0 .. Len(d), NEW q \in Chosen(SubSeq(d, 1, k))
    PROVE  /\ k < Len(d) => /\ q \in Chosen(SubSeq(d, 1, k + 1))
                            /\ Append(q, d[k + 1]) \in Chosen(SubSeq(d, 1, k + 1))
           /\ q \in Chosen(d)
<1> DEFINE a == SubSeq(d, 1, k)
           b == SubSeq(d, 1, k + 1)
<1>1. Len(d) \in Nat /\ k \in Nat /\ Len(a) = k /\ \A i \in 1 .. k : a[i] = d[i] /\ i \in 1 .. Len(d)
  OBVIOUS
<1>2. k < Len(d) => /\ Len(b) = k + 1 /\ \A i \in 1 .. k + 1 : b[i] = d[i] /\ i \in 1 .. Len(d)
  OBVIOUS
<1> HIDE DEF a, b
<1>3. /\ q \in Seq(Files) /\ \A i, j \in 1 .. Len(q) : q[i].chat = q[j].chat => i = j
      /\ \A i \in 1 .. Len(q) : \E j \in 1 .. k : q[i] = d[j]
  BY <1>1 DEF Chosen, a
<1>4. q \in Chosen(d)
  BY <1>1, <1>3 DEF Chosen
<1>5. ASSUME k < Len(d) PROVE q \in Chosen(b)
  <2>1. \A i \in 1 .. Len(q) : \E j \in 1 .. k + 1 : q[i] = b[j]
    <3> SUFFICES ASSUME NEW i \in 1 .. Len(q) PROVE \E j \in 1 .. k + 1 : q[i] = b[j]
      OBVIOUS
    <3>1. PICK j \in 1 .. k : q[i] = d[j]
      BY <1>3
    <3>2. j \in 1 .. k + 1
      BY <1>1
    <3> QED BY <1>2, <1>5, <3>1, <3>2
  <2> QED BY <1>2, <1>3, <1>5, <2>1 DEF Chosen
<1>6. ASSUME k < Len(d) PROVE Append(q, d[k + 1]) \in Chosen(b)
  <2> DEFINE n == Len(q)
             x == d[k + 1]
             w == Append(q, x)
  <2>1. k + 1 \in 1 .. Len(d) /\ k + 1 \in 1 .. k + 1
    BY <1>1, <1>6
  <2>2. x \in Files
    BY <2>1
  <2> HIDE DEF x
  <2>3. /\ n \in Nat /\ w \in Seq(Files) /\ Len(w) = n + 1 /\ w[n + 1] = x
        /\ \A i \in 1 .. n : w[i] = q[i]
    BY <1>3, <2>2
  <2> HIDE DEF w
  <2>4. \A i \in 1 .. n : q[i].chat # x.chat
    <3> SUFFICES ASSUME NEW i \in 1 .. n PROVE q[i].chat # x.chat
      OBVIOUS
    <3>1. PICK j \in 1 .. k : q[i] = d[j]
      BY <1>3
    <3>2. j \in 1 .. Len(d) /\ j # k + 1
      BY <1>1
    <3> QED BY <2>1, <3>1, <3>2 DEF x
  <2>5. \A i, j \in 1 .. n + 1 : w[i].chat = w[j].chat => i = j
    <3> SUFFICES ASSUME NEW i \in 1 .. n + 1, NEW j \in 1 .. n + 1, w[i].chat = w[j].chat PROVE i = j
      OBVIOUS
    <3> HIDE DEF n
    <3>1. (i \in 1 .. n \/ i = n + 1) /\ (j \in 1 .. n \/ j = n + 1)
      BY <2>3
    <3>2. CASE i \in 1 .. n /\ j \in 1 .. n
      BY <1>3, <2>3, <3>2 DEF n
    <3> QED BY <2>3, <2>4, <3>1, <3>2
  <2>6. \A i \in 1 .. n + 1 : \E j \in 1 .. k + 1 : w[i] = b[j]
    <3> SUFFICES ASSUME NEW i \in 1 .. n + 1 PROVE \E j \in 1 .. k + 1 : w[i] = b[j]
      OBVIOUS
    <3>1. CASE i = n + 1
      BY <1>2, <1>6, <2>1, <2>3, <3>1 DEF x
    <3>2. CASE i # n + 1
      <4>1. i \in 1 .. n
        <5> HIDE DEF n
        <5> QED BY <2>3, <3>2
      <4>2. PICK j \in 1 .. k : q[i] = d[j]
        BY <1>3, <4>1
      <4>3. j \in 1 .. k + 1
        BY <1>1
      <4> QED BY <1>2, <1>6, <2>3, <4>1, <4>2, <4>3
    <3> QED BY <3>1, <3>2
  <2> HIDE DEF n
  <2>7. w \in Chosen(b)
    BY <1>2, <1>6, <2>3, <2>5, <2>6 DEF Chosen
  <2> QED BY <2>7 DEF w, x
<1> QED BY <1>4, <1>5, <1>6 DEF a, b

\* A selection of files is a choice of them.
LEMMA AmongChosen ==
    ASSUME NEW S, NEW d \in Seq(Files), \A i, j \in 1 .. Len(d) : d[i].chat = d[j].chat => i = j
    PROVE  Among(d, S) \in Chosen(d)
<1> DEFINE n == Len(d)
<1>1. n \in Nat /\ \A k \in 0 .. n : k \in Nat
  OBVIOUS
<1>2. PICK f : /\ f \in [0 .. n -> Seq(Files)]
               /\ Follows(f, n, <<>>, Selections(Files, d, S)) /\ Among(d, S) = f[n]
  <2>1. d \in Seq(Files)
    OBVIOUS
  <2>2. \E f : /\ f \in [0 .. n -> Seq(Files)]
               /\ Follows(f, n, <<>>, Selections(Files, d, S)) /\ Among(d, S) = f[n]
    BY ONLY <2>1, AmongIs
  <2> QED BY <2>2
<1>3. f[0] = <<>>
  BY <1>2, Zenon DEF Follows
<1>4. ASSUME NEW k \in 1 .. n
      PROVE  f[k] = IF d[k] \in S THEN Append(f[k - 1], d[k]) ELSE f[k - 1]
  <2>1. f[k] = Selections(Files, d, S)[k][f[k - 1]]
    BY <1>2, Zenon DEF Follows
  <2>2. f[k - 1] \in Seq(Files)
    BY <1>1, <1>2
  <2>3. Selections(Files, d, S)[k] = [q \in Seq(Files) |-> IF d[k] \in S THEN Append(q, d[k]) ELSE q]
    BY DEF Selections
  <2> QED BY <2>1, <2>2, <2>3
<1> DEFINE T == {k \in 0 .. n : f[k] \in Chosen(SubSeq(d, 1, k))}
<1>5. 0 \in T
  <2>1. <<>> \in Chosen(SubSeq(d, 1, 0))
    BY DEF Chosen
  <2> QED BY <1>1, <1>3, <2>1
<1>6. ASSUME NEW k \in 1 .. n, k - 1 \in T PROVE k \in T
  <2> DEFINE p == k - 1
  <2>1. p \in 0 .. n /\ p < n /\ p + 1 = k /\ f[p] \in Chosen(SubSeq(d, 1, p)) /\ k \in 0 .. n
    BY <1>1, <1>6
  <2> HIDE DEF p, n
  <2>2. f[p] \in Chosen(SubSeq(d, 1, p + 1)) /\ Append(f[p], d[p + 1]) \in Chosen(SubSeq(d, 1, p + 1))
    BY <2>1, ChosenMore DEF n
  <2>3. f[k] = f[p] \/ f[k] = Append(f[p], d[k])
    BY <1>4 DEF p
  <2> QED BY <2>1, <2>2, <2>3
<1>7. n \in T
  <2>1. \A k \in 0 .. n : k \in T
    <3> HIDE DEF T, n
    <3> QED BY <1>1, <1>5, <1>6, UpTo
  <2>2. n \in 0 .. n
    BY <1>1
  <2> HIDE DEF T, n
  <2> QED BY <2>1, <2>2
<1>8. f[n] \in Chosen(SubSeq(d, 1, n)) /\ SubSeq(d, 1, n) = d
  BY <1>7
<1> QED BY <1>2, <1>8

LEMMA SavedIs ==
    ASSUME NEW d \in Seq(Files), \A i, j \in 1 .. Len(d) : d[i].chat = d[j].chat => i = j,
           NEW e \in Files
    PROVE  LET s == Saved(d, e)
           IN /\ s \in Seq(Files) /\ \A i, j \in 1 .. Len(s) : s[i].chat = s[j].chat => i = j
              /\ \A i \in 1 .. Len(s) : s[i] = e \/ \E j \in 1 .. Len(d) : s[i] = d[j]
<1> DEFINE S == {x \in ToSet(d) : x.chat # e.chat}
           w == Without(d, e.chat)
           n == Len(w)
           s == Saved(d, e)
<1>1. w = Among(d, S)
  BY Zenon DEF Without
<1>2. w \in Chosen(d)
  <2> HIDE DEF S, w
  <2> QED BY <1>1, AmongChosen
<1>3. w \in Seq(Files \cap S)
  <2>1. d \in Seq(Files)
    OBVIOUS
  <2> HIDE DEF S, w
  <2> QED BY ONLY <1>1, <2>1, AmongIn
<1>4. n \in Nat /\ \A i \in 1 .. n : w[i].chat # e.chat
  <2>1. \A i \in 1 .. n : w[i] \in S
    <3> HIDE DEF S, w
    <3> QED BY <1>3
  <2>2. n \in Nat
    <3> HIDE DEF S, w
    <3> QED BY <1>3
  <2> QED BY <2>1, <2>2
<1> HIDE DEF w, S
<1>5. /\ w \in Seq(Files) /\ \A i, j \in 1 .. n : w[i].chat = w[j].chat => i = j
      /\ \A i \in 1 .. n : \E j \in 1 .. Len(d) : w[i] = d[j]
  BY <1>2 DEF Chosen
<1>6. s = <<e>> \o w
  BY DEF Saved, w
<1>7. /\ s \in Seq(Files) /\ Len(s) = n + 1 /\ s[1] = e
      /\ \A i \in 2 .. n + 1 : s[i] = w[i - 1] /\ i - 1 \in 1 .. n
  BY <1>5, <1>6
<1> HIDE DEF s, n
<1>8. \A i \in 1 .. n + 1 : i = 1 \/ i \in 2 .. n + 1
  BY <1>4
<1>9. \A i, j \in 1 .. n + 1 : s[i].chat = s[j].chat => i = j
  <2> SUFFICES ASSUME NEW i \in 1 .. n + 1, NEW j \in 1 .. n + 1, s[i].chat = s[j].chat PROVE i = j
    OBVIOUS
  <2>1. CASE i \in 2 .. n + 1 /\ j \in 2 .. n + 1
    <3>1. i - 1 = j - 1
      BY <1>5, <1>7, <2>1
    <3> QED BY <2>1, <3>1
  <2>2. CASE i = 1 /\ j \in 2 .. n + 1
    BY <1>4, <1>7, <2>2
  <2>3. CASE j = 1 /\ i \in 2 .. n + 1
    BY <1>4, <1>7, <2>3
  <2> QED BY <1>8, <2>1, <2>2, <2>3
<1>10. \A i \in 1 .. n + 1 : s[i] = e \/ \E j \in 1 .. Len(d) : s[i] = d[j]
  <2> SUFFICES ASSUME NEW i \in 2 .. n + 1 PROVE \E j \in 1 .. Len(d) : s[i] = d[j]
    BY <1>7, <1>8
  <2> DEFINE p == i - 1
  <2>1. s[i] = w[p] /\ p \in 1 .. n
    BY <1>7
  <2> HIDE DEF p
  <2> QED BY <1>5, <2>1
<1> QED BY <1>7, <1>9, <1>10 DEF s

\* Files of which each that can be removed is among the first and fits the budget.
Within(q) ==
    \A i \in 1 .. Len(q) :
        q[i].chat \notin Stuck => i <= KeepFiles /\ Tokens(SubSeq(q, 1, i)) <= Budget

LEMMA SweptCourse ==
    ASSUME NEW d \in Seq(Files)
    PROVE  \E f : /\ f \in [0 .. Len(d) -> Seq(Files)]
                  /\ f[0] = <<>> /\ Swept(d) = f[Len(d)]
                  /\ \A k \in 1 .. Len(d) :
                        \/ f[k] = f[k - 1] /\ d[k].chat \notin Stuck
                        \/ /\ f[k] = Append(f[k - 1], d[k])
                           /\ \/ d[k].chat \in Stuck
                              \/ k <= KeepFiles /\ Tokens(f[k - 1]) + d[k].size <= Budget
<1> DEFINE n == Len(d)
           Goes(k, q) == (k > KeepFiles \/ Tokens(q) + d[k].size > Budget) /\ d[k].chat \notin Stuck
           Then(k, q) == IF Goes(k, q) THEN q ELSE Append(q, d[k])
           step == [k \in 1 .. n |-> [q \in Seq(Files) |-> Then(k, q)]]
           upTo[k \in 0 .. n] ==
               IF k = 0 THEN <<>>
               ELSE LET kept == upTo[k - 1]
                        goes == k > KeepFiles \/ Tokens(kept) + d[k].size > Budget
                    IN IF goes /\ d[k].chat \notin Stuck THEN kept ELSE Append(kept, d[k])
<1>1. n \in Nat /\ \A k \in 1 .. n : d[k] \in Files /\ d[k].size \in Nat
  <2>1. n \in Nat /\ \A k \in 1 .. n : d[k] \in Files
    OBVIOUS
  <2>2. \A x \in Files : x.size \in Nat
    BY DEF Files
  <2> QED BY <2>1, <2>2
<1>2. \A k \in 1 .. n, q \in Seq(Files) : Then(k, q) \in Seq(Files)
  BY <1>1
<1>3. step \in [1 .. n -> [Seq(Files) -> Seq(Files)]]
  <2> HIDE DEF Then, n
  <2> QED BY <1>2
<1>4. <<>> \in Seq(Files)
  OBVIOUS
<1>5. PICK s : s \in [0 .. n -> Seq(Files)] /\ Follows(s, n, <<>>, step)
  <2>1. \E s \in [0 .. n -> Seq(Files)] : Follows(s, n, <<>>, step)
    <3> HIDE DEF n, step
    <3> QED BY ONLY <1>1, <1>3, <1>4, CourseExists
  <2> QED BY <2>1
<1>6. s[0] = <<>>
  BY <1>5, Zenon DEF Follows
<1>7. ASSUME NEW k \in 1 .. n PROVE s[k - 1] \in Seq(Files) /\ s[k] = Then(k, s[k - 1])
  <2>1. s[k] = step[k][s[k - 1]]
    BY <1>5, Zenon DEF Follows
  <2>2. s[k - 1] \in Seq(Files)
    <3>1. k - 1 \in 0 .. n
      BY <1>1
    <3> HIDE DEF n, step
    <3> QED BY <1>5, <3>1
  <2>3. step[k] = [q \in Seq(Files) |-> Then(k, q)]
    <3> HIDE DEF Then, n
    <3> QED OBVIOUS
  <2> HIDE DEF Then, step, n
  <2> QED BY <2>1, <2>2, <2>3
<1>8. s = [k \in 0 .. n |-> IF k = 0 THEN <<>> ELSE Then(k, s[k - 1])]
  <2> HIDE DEF Then, n
  <2>1. \A k \in 0 .. n : s[k] = IF k = 0 THEN <<>> ELSE Then(k, s[k - 1])
    <3> SUFFICES ASSUME NEW k \in 0 .. n PROVE s[k] = IF k = 0 THEN <<>> ELSE Then(k, s[k - 1])
      OBVIOUS
    <3>1. CASE k = 0
      BY <1>6, <3>1
    <3>2. CASE k # 0
      <4>1. k \in 1 .. n
        BY <1>1, <3>2
      <4> QED BY <1>7, <3>2, <4>1
    <3> QED BY <3>1, <3>2
  <2> HIDE DEF step
  <2> QED BY <1>5, <2>1
<1>9. upTo = [k \in 0 .. n |-> IF k = 0 THEN <<>> ELSE Then(k, upTo[k - 1])]
  BY <1>8 DEF upTo
<1>10. Swept(d) = upTo[n]
  BY DEF Swept
<1> HIDE DEF upTo
<1>11. /\ upTo[0] = <<>> /\ DOMAIN upTo = 0 .. n
       /\ \A k \in 1 .. n : upTo[k] = Then(k, upTo[k - 1])
  <2>1. 0 \in 0 .. n /\ \A k \in 1 .. n : k \in 0 .. n /\ k # 0
    BY <1>1
  <2> HIDE DEF Then, n
  <2> QED BY <1>9, <2>1
<1> DEFINE T == {k \in 0 .. n : upTo[k] \in Seq(Files)}
<1>12. \A k \in 0 .. n : upTo[k] \in Seq(Files)
  <2>1. 0 \in T
    <3>1. 0 \in 0 .. n /\ upTo[0] \in Seq(Files)
      BY <1>1, <1>4, <1>11
    <3> HIDE DEF n
    <3> QED BY <3>1
  <2>2. ASSUME NEW k \in 1 .. n, k - 1 \in T PROVE k \in T
    <3>1. k \in 0 .. n /\ upTo[k - 1] \in Seq(Files)
      BY <1>1, <2>2
    <3> HIDE DEF Then, n
    <3> QED BY <1>2, <1>11, <3>1
  <2>3. \A k \in 0 .. n : k \in T
    <3> HIDE DEF T, n
    <3> QED BY <1>1, <2>1, <2>2, UpTo
  <2> QED BY <2>3
<1>13. upTo \in [0 .. n -> Seq(Files)]
  <2>1. upTo = [k \in 0 .. n |-> upTo[k]]
    <3> HIDE DEF Then, n
    <3> QED BY <1>9
  <2> HIDE DEF n
  <2> QED BY <1>12, <2>1
<1>14. ASSUME NEW k \in 1 .. n
       PROVE  \/ upTo[k] = upTo[k - 1] /\ d[k].chat \notin Stuck
              \/ /\ upTo[k] = Append(upTo[k - 1], d[k])
                 /\ \/ d[k].chat \in Stuck
                    \/ k <= KeepFiles /\ Tokens(upTo[k - 1]) + d[k].size <= Budget
  <2> DEFINE q == upTo[k - 1]
             t == Tokens(q)
  <2>1. upTo[k] = Then(k, q)
    BY <1>11
  <2>2. t \in Nat /\ d[k].size \in Nat /\ {k, KeepFiles, Budget} \subseteq Nat
    <3>1. k - 1 \in 0 .. n /\ k \in Nat
      BY <1>1
    <3>2. q \in Seq(Files)
      BY <1>12, <3>1
    <3>3. t \in Nat
      <4> HIDE DEF q
      <4> QED BY <3>2, Sizes0, TokensNat
    <3> QED BY <1>1, <3>1, <3>3, LlamaSessionAssumption
  <2> HIDE DEF q, t
  <2>3. CASE Goes(k, q)
    <3>1. d[k].chat \notin Stuck
      BY <2>3
    <3>2. upTo[k] = q
      <4> HIDE DEF Goes
      <4> QED BY <2>1, <2>3
    <3> QED BY <3>1, <3>2 DEF q
  <2>4. CASE ~Goes(k, q)
    <3>1. d[k].chat \in Stuck \/ (k <= KeepFiles /\ t + d[k].size <= Budget)
      BY <2>2, <2>4 DEF t
    <3>2. upTo[k] = Append(q, d[k])
      <4> HIDE DEF Goes
      <4> QED BY <2>1, <2>4
    <3> QED BY <3>1, <3>2 DEF q, t
  <2> QED BY <2>3, <2>4
<1> HIDE DEF n
<1>15. \A k \in 1 .. n :
          \/ upTo[k] = upTo[k - 1] /\ d[k].chat \notin Stuck
          \/ /\ upTo[k] = Append(upTo[k - 1], d[k])
             /\ \/ d[k].chat \in Stuck
                \/ k <= KeepFiles /\ Tokens(upTo[k - 1]) + d[k].size <= Budget
  BY <1>14
<1> QED BY <1>10, <1>11, <1>13, <1>15 DEF n

\* A kept file is the last of those it must fit with.
LEMMA WithinMore ==
    ASSUME NEW q \in Seq(Files), Within(q), NEW x \in Files,
           x.chat \in Stuck \/ (Len(q) < KeepFiles /\ Tokens(q) + x.size <= Budget)
    PROVE  Within(Append(q, x))
<1> DEFINE n == Len(q)
           w == Append(q, x)
<1>1. /\ n \in Nat /\ Len(w) = n + 1 /\ w[n + 1] = x /\ KeepFiles \in Nat
      /\ \A i \in 1 .. n : w[i] = q[i]
  BY LlamaSessionAssumption
<1>2. \A i \in 1 .. n : SubSeq(w, 1, i) = SubSeq(q, 1, i)
  <2> SUFFICES ASSUME NEW i \in 1 .. n PROVE SubSeq(w, 1, i) = SubSeq(q, 1, i)
    OBVIOUS
  <2>1. w \in Seq(Files) /\ i \in Nat /\ i <= n
    OBVIOUS
  <2>2. /\ Len(SubSeq(w, 1, i)) = i /\ SubSeq(w, 1, i) \in Seq(Files)
        /\ \A j \in 1 .. i : SubSeq(w, 1, i)[j] = w[j]
    <3> HIDE DEF w
    <3> QED BY <1>1, <2>1
  <2>3. /\ Len(SubSeq(q, 1, i)) = i /\ SubSeq(q, 1, i) \in Seq(Files)
        /\ \A j \in 1 .. i : SubSeq(q, 1, i)[j] = q[j]
    BY <2>1
  <2>4. \A j \in 1 .. i : j \in 1 .. n
    <3> HIDE DEF n
    <3> QED BY <1>1
  <2> DEFINE a == SubSeq(w, 1, i)
             b == SubSeq(q, 1, i)
  <2>5. \A j \in 1 .. i : a[j] = b[j]
    <3> HIDE DEF w
    <3> QED BY <1>1, <2>2, <2>3, <2>4
  <2>6. a \in Seq(Files) /\ b \in Seq(Files) /\ Len(a) = i /\ Len(b) = i
    BY <2>2, <2>3
  <2> HIDE DEF a, b
  <2>7. a = b
    BY <2>5, <2>6
  <2> QED BY <2>7 DEF a, b
<1>3. SubSeq(w, 1, n + 1) = w
  OBVIOUS
<1>4. Tokens(w) = Tokens(q) + x.size
  BY Sizes0, TokensMore
<1> HIDE DEF w
<1>5. ASSUME NEW i \in 1 .. n + 1, w[i].chat \notin Stuck
      PROVE  i <= KeepFiles /\ Tokens(SubSeq(w, 1, i)) <= Budget
  <2>1. CASE i \in 1 .. n
    <3>1. q[i].chat \notin Stuck
      BY <1>1, <1>5, <2>1
    <3> QED BY <1>2, <2>1, <3>1 DEF Within
  <2>2. CASE i = n + 1
    <3>1. x.chat \notin Stuck
      BY <1>1, <1>5, <2>2
    <3>2. n < KeepFiles /\ Tokens(q) + x.size <= Budget
      BY <3>1
    <3>3. Tokens(SubSeq(w, 1, i)) = Tokens(q) + x.size
      BY <1>3, <1>4, <2>2
    <3>4. i <= KeepFiles
      <4> HIDE DEF n
      <4> QED BY <1>1, <2>2, <3>2
    <3> QED BY <3>2, <3>3, <3>4
  <2>3. i \in 1 .. n \/ i = n + 1
    <3> HIDE DEF n
    <3> QED BY <1>1
  <2> QED BY <2>1, <2>2, <2>3
<1> HIDE DEF n
<1>6. Within(w)
  BY <1>1, <1>5 DEF Within
<1> QED BY <1>6 DEF w

\* A sweep leaves files that were there, within the budget.
LEMMA SweptIs ==
    ASSUME NEW d \in Seq(Files), \A i, j \in 1 .. Len(d) : d[i].chat = d[j].chat => i = j
    PROVE  Swept(d) \in Chosen(d) /\ Within(Swept(d))
<1> DEFINE n == Len(d)
<1>1. n \in Nat /\ KeepFiles \in Nat
  BY LlamaSessionAssumption
<1>2. PICK f : /\ f \in [0 .. n -> Seq(Files)] /\ f[0] = <<>> /\ Swept(d) = f[n]
               /\ \A k \in 1 .. n :
                     \/ f[k] = f[k - 1] /\ d[k].chat \notin Stuck
                     \/ /\ f[k] = Append(f[k - 1], d[k])
                        /\ \/ d[k].chat \in Stuck
                           \/ k <= KeepFiles /\ Tokens(f[k - 1]) + d[k].size <= Budget
  <2>1. d \in Seq(Files)
    OBVIOUS
  <2> QED BY ONLY <2>1, SweptCourse
<1> DEFINE T == {k \in 0 .. n : /\ f[k] \in Chosen(SubSeq(d, 1, k)) /\ Len(f[k]) <= k
                                /\ Within(f[k])}
<1>3. 0 \in T
  <2>1. <<>> \in Chosen(SubSeq(d, 1, 0)) /\ Within(<<>>) /\ Len(<<>>) = 0 /\ 0 \in 0 .. n
    BY <1>1 DEF Chosen, Within
  <2> HIDE DEF n
  <2> QED BY <1>2, <2>1
<1>4. ASSUME NEW k \in 1 .. n, k - 1 \in T PROVE k \in T
  <2> DEFINE p == k - 1
             q == f[p]
             x == d[k]
  <2>1. /\ p \in 0 .. n /\ p \in Nat /\ p < n /\ p + 1 = k /\ k \in 0 .. n
        /\ q \in Chosen(SubSeq(d, 1, p)) /\ Len(q) <= p /\ Within(q)
    BY <1>1, <1>4
  <2>2. q \in Seq(Files) /\ Len(q) \in Nat
    BY <2>1 DEF Chosen
  <2>3. x \in Files
    OBVIOUS
  <2>4. \/ f[k] = q /\ x.chat \notin Stuck
        \/ /\ f[k] = Append(q, x)
           /\ \/ x.chat \in Stuck
              \/ k <= KeepFiles /\ Tokens(q) + x.size <= Budget
    BY <1>2
  <2> HIDE DEF p, q, n
  <2>5. q \in Chosen(SubSeq(d, 1, k)) /\ Append(q, x) \in Chosen(SubSeq(d, 1, k))
    BY <2>1, ChosenMore DEF n
  <2> HIDE DEF x
  <2>6. CASE f[k] = q
    <3>1. Len(q) <= k
      BY <2>1, <2>2
    <3> QED BY <2>1, <2>5, <2>6, <3>1
  <2>7. CASE /\ f[k] = Append(q, x)
             /\ \/ x.chat \in Stuck
                \/ k <= KeepFiles /\ Tokens(q) + x.size <= Budget
    <3>1. Len(Append(q, x)) = Len(q) + 1
      BY <2>2, <2>3
    <3>2. Len(q) + 1 <= k
      BY <2>1, <2>2
    <3>3. x.chat \in Stuck \/ (Len(q) < KeepFiles /\ Tokens(q) + x.size <= Budget)
      BY <1>1, <2>1, <2>2, <2>7
    <3>4. Within(Append(q, x))
      BY <2>1, <2>2, <2>3, <3>3, WithinMore
    <3> QED BY <2>1, <2>5, <2>7, <3>1, <3>2, <3>4
  <2> QED BY <2>4, <2>6, <2>7
<1>5. n \in T
  <2>1. \A k \in 0 .. n : k \in T
    <3> HIDE DEF T, n
    <3> QED BY <1>1, <1>3, <1>4, UpTo
  <2>2. n \in 0 .. n
    BY <1>1
  <2> HIDE DEF T, n
  <2> QED BY <2>1, <2>2
<1>6. SubSeq(d, 1, n) = d
  OBVIOUS
<1> HIDE DEF n
<1> QED BY <1>2, <1>5, <1>6

\* A store of one file per chat, of which the own one may be restored.
StoreOK(d) ==
    /\ d \in Seq(Files) /\ \A i, j \in 1 .. Len(d) : d[i].chat = d[j].chat => i = j
    /\ \A i \in 1 .. Len(d) : d[i].chat = "mine" => SnapOK(d[i].snap)

LEMMA SweptOK == ASSUME NEW d, StoreOK(d) PROVE StoreOK(Swept(d)) /\ Within(Swept(d))
<1> DEFINE s == Swept(d)
<1>1. d \in Seq(Files) /\ \A i, j \in 1 .. Len(d) : d[i].chat = d[j].chat => i = j
  BY DEF StoreOK
<1>2. s \in Chosen(d) /\ Within(s)
  BY <1>1, SweptIs
<1> HIDE DEF s
<1>3. /\ s \in Seq(Files) /\ \A i, j \in 1 .. Len(s) : s[i].chat = s[j].chat => i = j
      /\ \A i \in 1 .. Len(s) : \E j \in 1 .. Len(d) : s[i] = d[j]
  BY <1>2 DEF Chosen
<1>4. ASSUME NEW i \in 1 .. Len(s), s[i].chat = "mine" PROVE SnapOK(s[i].snap)
  <2>1. PICK j \in 1 .. Len(d) : s[i] = d[j]
    BY <1>3
  <2> QED BY <1>4, <2>1 DEF StoreOK
<1> QED BY <1>2, <1>3, <1>4 DEF s, StoreOK

LEMMA SavedOK ==
    ASSUME NEW d, StoreOK(d), NEW e \in Files, SnapOK(e.snap)
    PROVE  StoreOK(Saved(d, e))
<1> DEFINE s == Saved(d, e)
<1>1. d \in Seq(Files) /\ \A i, j \in 1 .. Len(d) : d[i].chat = d[j].chat => i = j
  BY DEF StoreOK
<1>2. /\ s \in Seq(Files) /\ \A i, j \in 1 .. Len(s) : s[i].chat = s[j].chat => i = j
      /\ \A i \in 1 .. Len(s) : s[i] = e \/ \E j \in 1 .. Len(d) : s[i] = d[j]
  BY <1>1, SavedIs
<1> HIDE DEF s
<1>3. ASSUME NEW i \in 1 .. Len(s), s[i].chat = "mine" PROVE SnapOK(s[i].snap)
  <2>1. CASE s[i] = e
    BY <2>1
  <2>2. CASE s[i] # e
    <3>1. PICK j \in 1 .. Len(d) : s[i] = d[j]
      BY <1>2, <2>2
    <3> QED BY <1>3, <3>1 DEF StoreOK
  <2> QED BY <2>1, <2>2
<1> QED BY <1>2, <1>3 DEF s, StoreOK

\* A session at rest may be saved: what it says of what was asked is its transcript.
LEMMA SnapIs ==
    ASSUME Inv, live = "idle"
    PROVE  Entry("mine", Size(sess.kv), Snap) \in Files /\ SnapOK(Snap)
<1>1. /\ sess.messages \in Seq(Turns) /\ sess.kv \in Seq(Blocks) /\ sess.cur_pos \in Nat
      /\ sess.model \in Owners
  BY DEF Inv, Types
<1>2. Snap \in Snaps
  BY <1>1 DEF Snap, Snaps
<1>3. Size(sess.kv) \in Nat
  BY <1>1, Sizes0, TokensNat DEF Size
<1>4. Entry("mine", Size(sess.kv), Snap) \in Files
  BY <1>2, <1>3 DEF Entry, Files, Chats
<1>5. sess.cur_pos = Tokens(sess.kv)
  BY DEF Inv, Sessions
<1>6. ASSUME sess.kv # <<>> PROVE Asked(sess.kv) = NotReplies(sess.messages)
  <2>1. CASE sess.restored
    BY <1>6, <2>1 DEF Inv, Sessions, Idle
  <2>2. CASE ~sess.restored
    <3>1. Transcribed(sess)
      BY <1>6, <2>2 DEF Inv, Sessions, Idle
    <3>2. Asked(sess.kv) = NotReplies(Said(sess.kv))
      BY <1>1, SaidType
    <3>3. CASE Said(sess.kv) = sess.messages
      BY <3>2, <3>3
    <3>4. CASE Said(sess.kv) # sess.messages
      <4> DEFINE r == LastOf(sess.kv).of
      <4>1. r.role = "assistant" /\ Said(sess.kv) = Append(sess.messages, r)
        BY <3>1, <3>4 DEF Transcribed
      <4>2. r \in Turns
        <5>1. LastOf(sess.kv) \in Blocks
          BY <1>1, <1>6 DEF LastOf
        <5>2. r \in Msgs
          BY <5>1 DEF Blocks
        <5> QED BY <4>1, <5>2 DEF Turns
      <4> HIDE DEF r
      <4>3. NotReplies(Append(sess.messages, r)) = NotReplies(sess.messages)
        BY <1>1, <4>1, <4>2, NotRepliesMore
      <4> QED BY <3>2, <4>1, <4>3
    <3> QED BY <3>3, <3>4
  <2> QED BY <2>1, <2>2
<1>7. SnapOK(Snap)
  BY <1>5, <1>6 DEF SnapOK, Snap
<1> QED BY <1>4, <1>7

LEMMA SaveAllInv ==
    ASSUME Inv, SaveAll
    PROVE  /\ StoreOK(disk') /\ Within(disk') /\ Resting
           /\ count' \in [ids : Nat, edits : Nat, saves : Nat] /\ count'.ids = count.ids
<1>1. StoreOK(disk)
  BY DEF Inv, Types, Store, StoreOK
<1>2. StoreOK(disk') /\ Within(disk')
  <2>1. CASE disk' = Swept(disk)
    <3> DEFINE s == Swept(disk)
    <3>1. StoreOK(s) /\ Within(s)
      BY <1>1, SweptOK
    <3>2. disk' = s
      BY <2>1
    <3> HIDE DEF s
    <3> QED BY <3>1, <3>2
  <2>2. CASE live = "idle" /\ disk' = Swept(Saved(disk, Entry("mine", Size(sess.kv), Snap)))
    <3> DEFINE e == Entry("mine", Size(sess.kv), Snap)
               d == Saved(disk, e)
    <3>1. e \in Files /\ SnapOK(Snap)
      BY <2>2, SnapIs
    <3>2. e.snap = Snap
      BY DEF Entry
    <3>3. StoreOK(d)
      <4> HIDE DEF e
      <4> QED BY <1>1, <3>1, <3>2, SavedOK
    <3> DEFINE s == Swept(d)
    <3>4. disk' = s
      BY <2>2
    <3>5. StoreOK(s) /\ Within(s)
      <4> HIDE DEF d
      <4> QED BY <3>3, SweptOK
    <3> HIDE DEF s
    <3> QED BY <3>4, <3>5
  <2> QED BY <2>1, <2>2 DEF SaveAll
<1>3. count' \in [ids : Nat, edits : Nat, saves : Nat] /\ count'.ids = count.ids
  <2>1. count \in [ids : Nat, edits : Nat, saves : Nat]
    BY DEF Inv, Types
  <2>2. count' = [count EXCEPT !.saves = @ + 1]
    BY DEF SaveAll
  <2> QED BY <2>1, <2>2
<1> QED BY <1>2, <1>3 DEF SaveAll

LEMMA StoreOKInv == ASSUME NEW d, StoreOK(d), disk' = d PROVE Store' /\ disk' \in Seq(Files)
BY DEF StoreOK, Store

LEMMA LoadInv == ASSUME Inv, NEW m \in Models, Load(m) PROVE Inv'
<1>1. /\ StoreOK(disk') /\ count' \in [ids : Nat, edits : Nat, saves : Nat] /\ count'.ids = count.ids
      /\ model' = m /\ UNCHANGED <<history, held, live, sess, cut>>
  BY SaveAllInv DEF Load
<1>2. Store' /\ disk' \in Seq(Files)
  BY <1>1, StoreOKInv
<1>3. Types'
  BY <1>1, <1>2 DEF Inv, Types
<1>4. Conversation'
  BY <1>1 DEF Inv, Conversation
<1>5. Sessions'
  BY <1>1 DEF Inv, Sessions, Starting, Pulling, Idle, Transcribed, NoReplyBehind
<1> QED BY <1>2, <1>3, <1>4, <1>5 DEF Inv

\* Nothing is asked of a session that is gone.
LEMMA RetireInv ==
    ASSUME Inv, Resting, Retire, UNCHANGED <<model, history, cut>>,
           disk' \in Seq(Files), Store',
           count' \in [ids : Nat, edits : Nat, saves : Nat], count'.ids = count.ids
    PROVE  Inv'
<1>1. live' = "none" /\ sess' = NoSession /\ held' = held
  BY DEF Retire
<1>2. NoSession \in [model : Owners, messages : Seq(Turns), kv : Seq(Blocks), cur_pos : Nat,
                     restored : BOOLEAN]
  BY DEF NoSession, Owners
<1>3. Types'
  BY <1>1, <1>2 DEF Inv, Types
<1>4. Conversation'
  BY <1>1 DEF Inv, Conversation
<1>5. Sessions'
  BY <1>1 DEF Sessions, Starting, Pulling, Idle
<1> QED BY <1>3, <1>4, <1>5 DEF Inv

LEMMA UnloadInv == ASSUME Inv, Unload PROVE Inv'
<1>1. /\ StoreOK(disk') /\ count' \in [ids : Nat, edits : Nat, saves : Nat] /\ count'.ids = count.ids
      /\ Resting
  BY SaveAllInv DEF Unload
<1>2. Store' /\ disk' \in Seq(Files)
  BY <1>1, StoreOKInv
<1> QED BY <1>1, <1>2, RetireInv DEF Unload

LEMMA EvictInv == ASSUME Inv, Evict PROVE Inv'
<1>1. disk' \in Seq(Files) /\ count' \in [ids : Nat, edits : Nat, saves : Nat] /\ count'.ids = count.ids
  BY DEF Evict, Inv, Types
<1>2. Store'
  BY DEF Evict, Inv, Store
<1> QED BY <1>1, <1>2, RetireInv DEF Evict

-----------------------------------------------------------------------------
(* Sessions.                                                               *)

SessionType ==
    [model : Owners, messages : Seq(Turns), kv : Seq(Blocks), cur_pos : Nat, restored : BOOLEAN]

\* A transcript of messages the conversation has given ids to.
Numbered(ms) ==
    /\ ms \in Seq(Turns) /\ ms # <<>> /\ Head(ms).role = "system"
    /\ \A i \in 1 .. Len(ms) : /\ ms[i].id <= count.ids
                               /\ ms[i].role = "assistant" => ms[i].id # 0

AsideOK == "removed" \in DOMAIN cut' /\ cut'.removed \in Nat

\* Handing a session to the puller.
LEMMA AttachInv ==
    ASSUME Inv, history # <<>>, LastOf(history).role \in {"user", "tool"},
           NEW s, s \in SessionType, Numbered(s.messages),
           s.kv # <<>>, s.cur_pos = Tokens(s.kv), s.cur_pos <= Ctx,
           LastOf(s.kv).of = LastOf(history),
           IF s.restored THEN Asked(s.kv) = NotReplies(s.messages) ELSE Said(s.kv) = s.messages,
           Attach(s), AsideOK, UNCHANGED <<model, history, disk, count>>
    PROVE  Inv'
<1>1. live' = "pulling" /\ sess' = s /\ held' = Len(history)
  BY DEF Attach
<1>2. Types'
  <2>1. Len(history) \in 0 .. Len(history)
    BY DEF Inv, Types
  <2> QED BY <1>1, <2>1 DEF Inv, Types, SessionType, AsideOK
<1>3. Conversation'
  BY <1>1 DEF Inv, Conversation
<1>4. Pulling'
  BY <1>1 DEF Pulling
<1>5. Starting' /\ Idle'
  BY <1>1 DEF Starting, Idle
<1>6. /\ sess'.messages # <<>> /\ Head(sess'.messages).role = "system"
      /\ \A i \in 1 .. Len(sess'.messages) :
            /\ sess'.messages[i].id <= count'.ids
            /\ sess'.messages[i].role = "assistant" => sess'.messages[i].id # 0
      /\ sess'.cur_pos = Tokens(sess'.kv) /\ sess'.cur_pos <= Ctx
  BY <1>1 DEF Numbered
<1>7. Sessions'
  BY <1>4, <1>5, <1>6 DEF Sessions
<1>8. Store'
  BY DEF Inv, Store
<1> QED BY <1>2, <1>3, <1>7, <1>8 DEF Inv

\* A session that does not come to be.
LEMMA RefuseInv ==
    ASSUME Inv, Refuse, AsideOK, UNCHANGED <<model, history, disk, count>>
    PROVE  Inv'
<1>1. live' = "none" /\ sess' = NoSession /\ held' = held
  BY DEF Refuse
<1>2. NoSession \in SessionType
  BY DEF NoSession, Owners, SessionType
<1>3. Types'
  BY <1>1, <1>2 DEF Inv, Types, SessionType, AsideOK
<1>4. Conversation'
  BY <1>1 DEF Inv, Conversation
<1>5. Sessions'
  BY <1>1 DEF Sessions, Starting, Pulling, Idle
<1>6. Store'
  BY DEF Inv, Store
<1> QED BY <1>3, <1>4, <1>5, <1>6 DEF Inv

\* A session that is still cut to size.
LEMMA CutInv ==
    ASSUME Inv, history # <<>>, LastOf(history).role \in {"user", "tool"},
           NEW s, s \in SessionType, Numbered(s.messages), Len(s.messages) >= 2,
           s.messages[1] = System, Linked(s.messages), LastOf(s.messages) = LastOf(history),
           live' = "starting", sess' = s, held' = held, AsideOK,
           UNCHANGED <<model, history, disk, count>>
    PROVE  Inv'
<1>1. Types'
  BY DEF Inv, Types, SessionType, AsideOK
<1>2. Conversation'
  BY DEF Inv, Conversation
<1>3. Starting' /\ Pulling' /\ Idle'
  BY DEF Starting, Pulling, Idle
<1>4. /\ sess'.messages # <<>> /\ Head(sess'.messages).role = "system"
      /\ \A i \in 1 .. Len(sess'.messages) :
            /\ sess'.messages[i].id <= count'.ids
            /\ sess'.messages[i].role = "assistant" => sess'.messages[i].id # 0
  BY DEF Numbered
<1>5. Sessions'
  BY <1>3, <1>4 DEF Sessions
<1>6. Store'
  BY DEF Inv, Store
<1> QED BY <1>1, <1>2, <1>5, <1>6 DEF Inv

\* A cache to which messages are added ends with the last of them.
LEMMA LastRendered ==
    ASSUME NEW kv \in Seq(Blocks), NEW ms \in Seq(Turns), ms # <<>>
    PROVE  LET w == kv \o Rendered(ms) IN w # <<>> /\ LastOf(w).of = LastOf(ms)
<1> DEFINE n == Len(ms)
           k == Len(kv)
           r == Rendered(ms)
           w == kv \o r
<1>1. /\ r \in Seq(Blocks) /\ Len(r) = n /\ \A i \in 1 .. n : r[i].of = ms[i]
      /\ n \in Nat \ {0} /\ k \in Nat
  BY SubTurns, RenderedAre
<1> HIDE DEF r
<1>2. Len(w) = k + n /\ w[k + n] = r[n] /\ w # <<>>
  <2>1. Len(w) = k + n
    BY SMTT(30), <1>1
  <2>2. k + n \in 1 .. k + n /\ ~(k + n <= k) /\ (k + n) - k = n
    <3> HIDE DEF k, n
    <3> QED BY <1>1
  <2>3. w[k + n] = r[n]
    BY <1>1, <2>2
  <2>4. w # <<>>
    BY <2>1, <2>2
  <2> QED BY <2>1, <2>3, <2>4
<1> HIDE DEF w
<1>3. LastOf(w).of = ms[n]
  BY <1>1, <1>2 DEF LastOf
<1> QED BY <1>2, <1>3 DEF LastOf, w, r

LEMMA PromptLast ==
    ASSUME NEW ms \in Seq(Turns), ms # <<>>
    PROVE  Prompt(ms) # <<>> /\ LastOf(Prompt(ms)).of = LastOf(ms)
<1> DEFINE kv == IF ToolsSize = 0 THEN <<>> ELSE <<ToolBlock>>
<1>1. kv \in Seq(Blocks)
  BY ToolBlockIs
<1>2. Prompt(ms) = kv \o Rendered(ms)
  BY DEF Prompt
<1> HIDE DEF kv
<1> QED BY <1>1, <1>2, LastRendered

\* A prompt is decoded for the whole conversation, or not at all.
LEMMA PrefillInv ==
    ASSUME Inv, history # <<>>, LastOf(history).role \in {"user", "tool"},
           NEW ms, Numbered(ms), LastOf(ms) = LastOf(history),
           Prefill(ms), AsideOK, UNCHANGED <<model, history, disk, count>>
    PROVE  Inv'
<1>1. ms \in Seq(Turns) /\ ms # <<>>
  BY DEF Numbered
<1>2. CASE Size(Prompt(ms)) > Ctx /\ Refuse
  BY <1>2, RefuseInv
<1>3. CASE Size(Prompt(ms)) <= Ctx /\ Attach(Fresh(ms))
  <2> DEFINE kv == Prompt(ms)
             s == Fresh(ms)
  <2>1. kv \in Seq(Blocks) /\ Said(kv) = ms
    BY <1>1, PromptSays
  <2>2. kv # <<>> /\ LastOf(kv).of = LastOf(ms)
    BY <1>1, PromptLast
  <2> HIDE DEF kv
  <2>3. Tokens(kv) \in Nat
    BY <2>1, Sizes0, TokensNat
  <2>4. /\ s.messages = ms /\ s.kv = kv /\ s.cur_pos = Tokens(kv) /\ s.restored = FALSE
        /\ s.model = model
        /\ s = [model |-> model, messages |-> ms, kv |-> kv, cur_pos |-> Tokens(kv), restored |-> FALSE]
    BY DEF Fresh, Size, kv
  <2>5. s \in SessionType
    BY <1>1, <2>1, <2>3, <2>4 DEF SessionType, Owners, Inv, Types
  <2>6. Tokens(kv) <= Ctx /\ Attach(s)
    BY <1>3 DEF Size, kv
  <2> HIDE DEF s
  <2> QED BY <2>1, <2>2, <2>4, <2>5, <2>6, AttachInv
<1> QED BY <1>2, <1>3 DEF Prefill

\* The conversation with a system message before it is a transcript to begin with.
LEMMA StartedIs ==
    ASSUME Inv, history # <<>>
    PROVE  LET ms == WithSystem(history)
           IN /\ Numbered(ms) /\ Len(ms) >= 2 /\ ms[1] = System /\ Linked(ms)
              /\ LastOf(ms) = LastOf(history)
<1> DEFINE n == Len(history)
           ms == WithSystem(history)
<1>1. /\ history \in Seq(Turns) /\ Linked(history) /\ count.ids \in Nat
      /\ \A i \in 1 .. n : history[i].id \in 1 .. count.ids
  BY DEF Inv, Types, Conversation
<1>2. n \in Nat \ {0}
  BY <1>1
<1>3. System \in Turns
  BY SystemIs
<1>4. /\ ms \in Seq(Turns) /\ Len(ms) = n + 1 /\ ms[1] = System
      /\ \A i \in 1 .. n : ms[i + 1] = history[i]
  <2> DEFINE one == <<System>>
  <2>1. one \in Seq(Turns) /\ Len(one) = 1 /\ one[1] = System
    BY <1>3
  <2>2. ms = Joined(one, history)
    BY DEF WithSystem, Joined
  <2> HIDE DEF one, ms
  <2>3. one \in Seq(Turns) /\ history \in Seq(Turns)
    BY <1>1, <2>1
  <2> DEFINE j == Joined(one, history)
  <2>4. /\ j \in Seq(Turns) /\ Len(j) = Len(one) + Len(history)
        /\ \A i \in 1 .. Len(one) : j[i] = one[i]
        /\ \A i \in 1 .. Len(history) : j[Len(one) + i] = history[i]
    <3>1. j \in Seq(Turns) /\ Len(j) = Len(one) + Len(history)
      BY ONLY <2>3, JoinLen
    <3>2. \A i \in 1 .. Len(one) : j[i] = one[i]
      BY ONLY <2>3, JoinLeft
    <3>3. \A i \in 1 .. Len(history) : j[Len(one) + i] = history[i]
      BY ONLY <2>3, JoinRight
    <3> QED BY <3>1, <3>2, <3>3
  <2> HIDE DEF j
  <2>5. ms = j
    BY <2>2 DEF j
  <2>6. \A i \in 1 .. n : i + 1 = 1 + i
    BY <1>2
  <2>7. Len(ms) = n + 1
    BY <1>2, <2>1, <2>4, <2>5
  <2>8. ms[1] = System
    BY <2>1, <2>4, <2>5
  <2>9. \A i \in 1 .. n : ms[i + 1] = history[i]
    BY <2>1, <2>4, <2>5, <2>6
  <2> QED BY <2>4, <2>5, <2>7, <2>8, <2>9
<1> HIDE DEF ms
<1>5. \A i \in 1 .. n + 1 : i = 1 \/ (i # 1 /\ i - 1 \in 1 .. n /\ ms[i] = history[i - 1])
  <2> SUFFICES ASSUME NEW i \in 1 .. n + 1, i # 1
               PROVE  i - 1 \in 1 .. n /\ ms[i] = history[i - 1]
    OBVIOUS
  <2> DEFINE p == i - 1
  <2>1. p \in 1 .. n /\ p + 1 = i
    <3> HIDE DEF n
    <3> QED BY <1>2
  <2> HIDE DEF p
  <2>2. ms[p + 1] = history[p]
    BY <1>4, <2>1
  <2> QED BY <2>1, <2>2 DEF p
<1>6. /\ System.role = "system" /\ System.id = 0 /\ System.calls = {} /\ System.answers = NoCall
  BY SystemIs
<1>7. \A i, j \in 1 .. n + 1 : ms[i].id = ms[j].id => i = j
  <2> SUFFICES ASSUME NEW i \in 1 .. n + 1, NEW j \in 1 .. n + 1, ms[i].id = ms[j].id PROVE i = j
    OBVIOUS
  <2>1. \A k \in 1 .. n + 1 : k # 1 => ms[k].id # 0
    <3> SUFFICES ASSUME NEW k \in 1 .. n + 1, k # 1 PROVE ms[k].id # 0
      OBVIOUS
    <3>1. k - 1 \in 1 .. n /\ ms[k] = history[k - 1]
      BY <1>5
    <3>2. ms[k].id \in 1 .. count.ids
      BY <1>1, <3>1
    <3> QED BY <3>2
  <2>2. CASE i = 1 \/ j = 1
    BY <1>4, <1>6, <2>1, <2>2
  <2>3. CASE i # 1 /\ j # 1
    <3>1. i - 1 \in 1 .. n /\ ms[i] = history[i - 1] /\ j - 1 \in 1 .. n /\ ms[j] = history[j - 1]
      BY <1>5, <2>3
    <3>2. i - 1 = j - 1
      BY <1>1, <3>1 DEF Linked
    <3> QED BY <3>2
  <2> QED BY <2>2, <2>3
<1>8. ASSUME NEW i \in 1 .. n + 1
      PROVE  /\ ms[i].calls \in {{}, {ms[i].id}}
             /\ ms[i].calls # {} => ms[i].role = "assistant" /\ ms[i].id # 0
             /\ ms[i].answers # NoCall => ms[i].role = "tool"
             /\ ms[i].calls # {} /\ i < n + 1 => ms[i + 1].answers = ms[i].id
             /\ ms[i].answers # NoCall => i > 1 /\ ms[i - 1].calls = {ms[i].answers}
             /\ ms[i].id <= count.ids
             /\ ms[i].role = "assistant" => ms[i].id # 0
  <2>1. CASE i = 1
    BY <1>1, <1>4, <1>6, <2>1
  <2>2. CASE i # 1
    <3> DEFINE p == i - 1
    <3>1. p \in 1 .. n /\ ms[i] = history[p]
      BY <1>5, <2>2
    <3>2. i = p + 1 /\ p >= 1 /\ i > 1
      BY <3>1
    <3> HIDE DEF p
    <3>3. history[p].id \in 1 .. count.ids
      BY <1>1, <3>1
    <3>4. /\ ms[i].calls \in {{}, {ms[i].id}}
          /\ ms[i].calls # {} => ms[i].role = "assistant" /\ ms[i].id # 0
          /\ ms[i].answers # NoCall => ms[i].role = "tool"
      BY <1>1, <3>1 DEF Linked
    <3>5. ASSUME ms[i].calls # {}, i < n + 1 PROVE ms[i + 1].answers = ms[i].id
      <4>1. p < n /\ i \in 1 .. n
        <5> HIDE DEF n
        <5> QED BY <1>2, <3>1, <3>2, <3>5
      <4>2. history[p + 1].answers = history[p].id
        BY <1>1, <3>1, <3>5, <4>1 DEF Linked
      <4>3. ms[i + 1] = history[i]
        BY <1>4, <4>1
      <4> QED BY <3>1, <3>2, <4>2, <4>3
    <3>6. ASSUME ms[i].answers # NoCall PROVE i > 1 /\ ms[i - 1].calls = {ms[i].answers}
      <4>1. p > 1 /\ history[p - 1].calls = {history[p].answers}
        BY <1>1, <3>1, <3>6 DEF Linked
      <4>2. p - 1 \in 1 .. n /\ (p - 1) + 1 = i - 1
        <5> HIDE DEF n
        <5> QED BY <1>2, <3>1, <3>2, <4>1
      <4>3. ms[i - 1] = history[p - 1]
        BY <1>4, <4>2
      <4> QED BY <3>1, <3>2, <4>1, <4>3
    <3>7. ms[i].id <= count.ids /\ ms[i].id # 0
      BY <1>1, <3>1, <3>3
    <3> QED BY <3>4, <3>5, <3>6, <3>7
  <2> QED BY <2>1, <2>2
<1>9. LastOf(ms) = LastOf(history)
  <2>1. n \in 1 .. n
    BY <1>2
  <2> QED BY <1>4, <2>1 DEF LastOf
<1> HIDE DEF n
<1>10. Linked(ms)
  BY <1>4, <1>7, <1>8 DEF Linked
<1>11. ms # <<>> /\ Head(ms) = ms[1]
  BY <1>2, <1>4
<1>12. Numbered(ms)
  BY <1>4, <1>6, <1>8, <1>11 DEF Numbered
<1>13. Len(ms) >= 2
  BY <1>2, <1>4
<1> QED BY <1>4, <1>9, <1>10, <1>12, <1>13 DEF ms

\* A snapshot covers what it has messages of.
LEMMA SplitsAre ==
    ASSUME NEW snap, NEW ms \in Seq(Turns), NEW k \in Splits(snap, ms)
    PROVE  /\ Max(Splits(snap, ms)) = k /\ k \in Nat \ {0} /\ k < Len(ms)
           /\ snap.messages = SubSeq(ms, 1, k)
<1>1. \A j \in Splits(snap, ms) :
         /\ j \in Nat \ {0} /\ j < Len(ms) /\ snap.messages = SubSeq(ms, 1, j)
         /\ Len(snap.messages) = j
  <2> SUFFICES ASSUME NEW j \in Splits(snap, ms)
               PROVE  /\ j \in Nat \ {0} /\ j < Len(ms) /\ snap.messages = SubSeq(ms, 1, j)
                      /\ Len(snap.messages) = j
    OBVIOUS
  <2>1. j \in {Len(ms) - 1, Len(ms) - 2} /\ j > 0 /\ snap.messages = SubSeq(ms, 1, j)
    BY DEF Splits, Covers
  <2>2. Len(ms) \in Nat
    OBVIOUS
  <2>3. j \in Nat \ {0} /\ j < Len(ms)
    <3> DEFINE n == Len(ms)
    <3> HIDE DEF n
    <3> QED BY <2>1, <2>2 DEF n
  <2>4. Len(SubSeq(ms, 1, j)) = j
    BY <2>3
  <2> QED BY <2>1, <2>3, <2>4
<1> DEFINE S == Splits(snap, ms)
<1> HIDE DEF S
<1>2. S = {k}
  BY <1>1 DEF S
<1>3. Max(S) = k
  <2>1. k \in Nat
    BY <1>1
  <2>2. \A x : x \in S /\ (\A y \in S : x >= y) <=> x = k
    BY <1>2, <2>1
  <2> QED BY <1>2, <2>1, <2>2 DEF Max
<1> QED BY <1>1, <1>3 DEF S

\* A sequence is its two parts.
LEMMA Halves ==
    ASSUME NEW X, NEW s \in Seq(X), NEW k \in 0 .. Len(s)
    PROVE  LET a == SubSeq(s, 1, k)
               b == SubSeq(s, k + 1, Len(s))
           IN /\ a \in Seq(X) /\ b \in Seq(X) /\ s = a \o b /\ Len(b) = Len(s) - k
              /\ (k < Len(s) => b # <<>> /\ LastOf(b) = LastOf(s))
<1> DEFINE n == Len(s)
           a == SubSeq(s, 1, k)
           b == SubSeq(s, k + 1, n)
           j == Joined(a, b)
<1>1. n \in Nat /\ k \in Nat /\ k <= n
  OBVIOUS
<1>2. a \in Seq(X) /\ Len(a) = k /\ \A i \in 1 .. k : a[i] = s[i]
  BY <1>1
<1>3. b \in Seq(X) /\ Len(b) = n - k /\ \A i \in 1 .. n - k : b[i] = s[k + i]
  BY <1>1
<1> HIDE DEF a, b
<1>4. a \in Seq(X) /\ b \in Seq(X)
  BY <1>2, <1>3
<1>5. j \in Seq(X) /\ Len(j) = Len(a) + Len(b)
  BY ONLY <1>4, JoinLen
<1>6. \A i \in 1 .. Len(a) : j[i] = a[i]
  BY ONLY <1>4, JoinLeft
<1>7. \A i \in 1 .. Len(b) : j[Len(a) + i] = b[i]
  BY ONLY <1>4, JoinRight
<1> HIDE DEF j, n
<1>8. Len(j) = n
  BY <1>1, <1>2, <1>3, <1>5
<1>9. \A i \in 1 .. n : j[i] = s[i]
  <2> SUFFICES ASSUME NEW i \in 1 .. n PROVE j[i] = s[i]
    OBVIOUS
  <2>1. CASE i <= k
    <3>1. i \in 1 .. k
      BY <1>1, <2>1
    <3> QED BY <1>2, <1>6, <3>1
  <2>2. CASE ~(i <= k)
    <3> DEFINE p == i - k
    <3>1. p \in 1 .. n - k /\ k + p = i
      BY <1>1, <2>2
    <3> HIDE DEF p
    <3>2. j[k + p] = b[p]
      BY <1>2, <1>3, <1>7, <3>1
    <3>3. b[p] = s[k + p]
      BY <1>3, <3>1
    <3> QED BY <3>1, <3>2, <3>3
  <2> QED BY <2>1, <2>2
<1>10. s = j
  <2>1. Len(s) = n
    BY DEF n
  <2> QED BY <1>5, <1>8, <1>9, <2>1
<1>11. ASSUME k < n PROVE b # <<>> /\ LastOf(b) = LastOf(s)
  <2> DEFINE p == n - k
  <2>1. p \in 1 .. n - k /\ k + p = n /\ p # 0
    BY <1>1, <1>11
  <2>2. LastOf(b) = b[p]
    BY <1>3 DEF LastOf
  <2>3. b # <<>>
    BY <1>3, <2>1
  <2> HIDE DEF p
  <2>4. b[p] = s[k + p]
    BY <1>3, <2>1
  <2> QED BY <2>1, <2>2, <2>3, <2>4 DEF LastOf, n
<1>12. s = a \o b
  BY <1>10 DEF j, Joined
<1> QED BY <1>3, <1>4, <1>11, <1>12 DEF a, b, n

\* What is asked last is not left out with the replies.
LEMMA AskLast ==
    ASSUME NEW ms \in Seq(Turns), ms # <<>>, LastOf(ms).role # "assistant"
    PROVE  /\ NotReplies(ms) # <<>> /\ LastOf(NotReplies(ms)) = LastOf(ms)
           /\ NotReplies(NotReplies(ms)) = NotReplies(ms)
<1>1. NotReplies(ms) = Among(ms, Asks) /\ NotReplies(ms) \in Seq(Asks)
  BY NotRepliesIs
<1>2. LastOf(ms) \in Asks
  <2>1. LastOf(ms) \in Turns
    BY DEF LastOf
  <2> QED BY <2>1, TurnsAre
<1>3. Among(ms, Asks) # <<>> /\ LastOf(Among(ms, Asks)) = LastOf(ms)
  <2>1. ms \in Seq(Turns) /\ ms # <<>> /\ LastOf(ms) \in Asks
    BY <1>2
  <2> QED BY ONLY <2>1, AmongLast
<1>4. NotReplies(NotReplies(ms)) = NotReplies(ms)
  <2> DEFINE a == NotReplies(ms)
  <2>1. a \in Seq(Asks) /\ a \in Seq(Turns)
    BY <1>1, SubTurns
  <2> HIDE DEF a
  <2>2. NotReplies(a) = Among(a, Asks)
    BY <2>1, NotRepliesIs
  <2>3. Among(a, Asks) = a
    BY ONLY <2>1, AmongAll
  <2>4. NotReplies(a) = a
    BY <2>2, <2>3
  <2> QED BY <2>4 DEF a
<1> QED BY <1>1, <1>3, <1>4

\* A snapshot with what is new of the conversation is a session that can go on.
LEMMA RestoredIs ==
    ASSUME NEW ms \in Seq(Turns), NEW snap \in Snaps, SnapOK(snap), Restorable(snap, ms),
           model \in Models, LastOf(ms).role # "assistant"
    PROVE  LET s == Restored(snap, ms)
           IN /\ s \in SessionType /\ s.messages = ms /\ s.restored = TRUE
              /\ s.kv # <<>> /\ s.cur_pos = Tokens(s.kv) /\ s.cur_pos <= Ctx
              /\ LastOf(s.kv).of = LastOf(ms) /\ Asked(s.kv) = NotReplies(ms)
<1>1. PICK k \in Splits(snap, ms) :
         Delta(ms, k) # <<>> /\ snap.cur_pos + Tokens(Delta(ms, k)) + Margin < Ctx
  BY DEF Restorable
<1> DEFINE a == SubSeq(ms, 1, k)
           b == SubSeq(ms, k + 1, Len(ms))
           d == NotReplies(b)
           kv == snap.kv \o Rendered(d)
           s == Restored(snap, ms)
<1>2. Max(Splits(snap, ms)) = k /\ k \in Nat \ {0} /\ k < Len(ms) /\ snap.messages = a
  BY SplitsAre
<1>3. /\ s.messages = ms /\ s.restored = TRUE /\ s.kv = kv
      /\ s = [model |-> model, messages |-> ms, kv |-> kv, cur_pos |-> snap.cur_pos + Tokens(d),
              restored |-> TRUE]
      /\ s.cur_pos = snap.cur_pos + Tokens(d)
  BY <1>2 DEF Restored, Delta
<1> HIDE DEF s
<1>4. /\ a \in Seq(Turns) /\ b \in Seq(Turns) /\ ms = a \o b /\ b # <<>> /\ LastOf(b) = LastOf(ms)
  <2>1. k \in 0 .. Len(ms) /\ k < Len(ms)
    BY <1>2
  <2> HIDE DEF a, b
  <2> QED BY <2>1, Halves DEF a, b
<1> HIDE DEF a, b
<1>5. /\ d \in Seq(Asks) /\ d \in Seq(Turns) /\ d # <<>> /\ LastOf(d) = LastOf(b)
      /\ NotReplies(d) = d
  <2>1. d \in Seq(Asks)
    BY <1>4, NotRepliesIs
  <2>2. d # <<>> /\ LastOf(d) = LastOf(b) /\ NotReplies(d) = d
    BY <1>4, AskLast
  <2> HIDE DEF d
  <2> QED BY <2>1, <2>2, SubTurns
<1>6. snap.kv \in Seq(Blocks) /\ snap.cur_pos \in Nat /\ snap.cur_pos = Tokens(snap.kv)
  BY DEF Snaps, SnapOK
<1>7. snap.kv # <<>>
  BY <1>6, TokensNone DEF Restorable
<1>8. Asked(snap.kv) = NotReplies(a)
  BY <1>2, <1>7 DEF SnapOK
<1>9. NotReplies(ms) = NotReplies(a) \o d
  BY <1>4, NotRepliesJoin
<1>10. snap.cur_pos + Tokens(d) <= Ctx
  <2>1. snap.cur_pos + Tokens(d) + Margin < Ctx /\ Margin \in Nat /\ Ctx \in Nat
    BY <1>1, LlamaSessionAssumption DEF Delta, b
  <2>2. Tokens(d) \in Nat
    <3> HIDE DEF d
    <3> QED BY <1>5, Sizes0, TokensNat
  <2> HIDE DEF d
  <2> QED BY <1>6, <2>1, <2>2
<1> HIDE DEF d
<1>11. /\ kv \in Seq(Blocks) /\ Asked(kv) = Asked(snap.kv) \o NotReplies(d)
       /\ Tokens(kv) = Tokens(snap.kv) + Tokens(d)
  BY <1>5, <1>6, SaidJoin
<1>12. kv # <<>> /\ LastOf(kv).of = LastOf(d)
  BY <1>5, <1>6, LastRendered
<1> HIDE DEF kv
<1>13. Tokens(d) \in Nat
  BY <1>5, Sizes0, TokensNat
<1>14. s \in SessionType
  BY <1>3, <1>6, <1>11, <1>13 DEF SessionType, Owners
<1>15. Asked(kv) = NotReplies(ms)
  BY <1>5, <1>8, <1>9, <1>11
<1> QED BY <1>3, <1>4, <1>5, <1>6, <1>10, <1>11, <1>12, <1>14, <1>15 DEF s

LEMMA StartInv == ASSUME Inv, Start PROVE Inv'
<1> DEFINE ms == WithSystem(history)
           snaps == {disk[i].snap : i \in {j \in DOMAIN disk : disk[j].chat = "mine"}}
           usable == {snap \in snaps : Restorable(snap, ms)}
           limit == Limit(Ctx, MaxTokens)
<1>1. /\ history # <<>> /\ LastOf(history).role \in {"user", "tool"} /\ Resting
      /\ UNCHANGED <<model, history, disk, count>>
  BY DEF Start, Asking
<1>2. /\ Numbered(ms) /\ Len(ms) >= 2 /\ ms[1] = System /\ Linked(ms)
      /\ LastOf(ms) = LastOf(history)
  BY <1>1, StartedIs
<1>3. /\ \/ \E snap \in usable : Attach(Restored(snap, ms)) /\ cut' = NoCut
         \/ ~MustTruncate(ms, limit) /\ Prefill(ms) /\ cut' = NoCut
         \/ /\ live' = "starting" /\ sess' = [NoSession EXCEPT !.messages = ms]
            /\ cut' = [removed |-> 0, est |-> EstRemove(ms, limit)]
            /\ UNCHANGED held
  BY DEF Start
<1> HIDE DEF ms, usable
<1>4. NoCut.removed = 0 /\ "removed" \in DOMAIN NoCut
  BY DEF NoCut
<1>5. CASE \E snap \in usable : Attach(Restored(snap, ms)) /\ cut' = NoCut
  <2>1. PICK snap \in usable : Attach(Restored(snap, ms)) /\ cut' = NoCut
    BY <1>5
  <2>2. PICK i \in DOMAIN disk : disk[i].chat = "mine" /\ snap = disk[i].snap
    BY DEF usable
  <2>3. disk \in Seq(Files) /\ i \in 1 .. Len(disk) /\ disk[i] \in Files
    BY DEF Inv, Types
  <2>4. snap \in Snaps /\ SnapOK(snap) /\ Restorable(snap, ms)
    <3>1. snap \in Snaps
      BY <2>2, <2>3 DEF Files
    <3>2. SnapOK(snap)
      BY <2>2, <2>3 DEF Inv, Store
    <3>3. Restorable(snap, ms)
      BY DEF usable
    <3> QED BY <3>1, <3>2, <3>3
  <2> DEFINE s == Restored(snap, ms)
  <2>5. ms \in Seq(Turns) /\ model \in Models /\ LastOf(ms).role # "assistant"
    BY <1>1, <1>2 DEF Numbered, Inv, Types
  <2>6. /\ s \in SessionType /\ s.messages = ms /\ s.restored = TRUE
        /\ s.kv # <<>> /\ s.cur_pos = Tokens(s.kv) /\ s.cur_pos <= Ctx
        /\ LastOf(s.kv).of = LastOf(ms) /\ Asked(s.kv) = NotReplies(ms)
    BY <2>4, <2>5, RestoredIs
  <2>7. Attach(s) /\ AsideOK
    BY <1>4, <2>1 DEF AsideOK
  <2> HIDE DEF s
  <2>8. IF s.restored THEN Asked(s.kv) = NotReplies(s.messages) ELSE Said(s.kv) = s.messages
    BY <2>6
  <2>9. LastOf(s.kv).of = LastOf(history) /\ Numbered(s.messages)
    BY <1>2, <2>6
  <2> QED BY <1>1, <2>6, <2>7, <2>8, <2>9, AttachInv
<1>6. CASE Prefill(ms) /\ cut' = NoCut
  <2>1. AsideOK
    BY <1>4, <1>6 DEF AsideOK
  <2> QED BY <1>1, <1>2, <1>6, <2>1, PrefillInv
<1>7. CASE /\ live' = "starting" /\ sess' = [NoSession EXCEPT !.messages = ms]
           /\ cut' = [removed |-> 0, est |-> EstRemove(ms, limit)]
           /\ UNCHANGED held
  <2> DEFINE s == [NoSession EXCEPT !.messages = ms]
  <2>1. s \in SessionType /\ s.messages = ms
    <3>1. NoSession \in SessionType
      BY DEF NoSession, SessionType, Owners
    <3>2. ms \in Seq(Turns)
      BY <1>2 DEF Numbered
    <3> QED BY <3>1, <3>2 DEF SessionType
  <2>2. AsideOK
    BY <1>7 DEF AsideOK
  <2>3. sess' = s
    BY <1>7
  <2> HIDE DEF s
  <2> QED BY <1>1, <1>2, <1>7, <2>1, <2>2, <2>3, CutInv
<1> QED BY <1>3, <1>5, <1>6, <1>7

\* What a transcript that is cut to size loses.
LEMMA ColdDrop ==
    ASSUME Inv, live = "starting"
    PROVE  LET d == DropOldestRound(sess.messages, Oldest(sess.messages))
               s == [sess EXCEPT !.messages = d]
           IN /\ history # <<>> /\ LastOf(history).role \in {"user", "tool"}
              /\ Numbered(sess.messages) /\ LastOf(sess.messages) = LastOf(history)
              /\ s \in SessionType /\ s.messages = d /\ Numbered(d) /\ Len(d) >= 2 /\ d[1] = System
              /\ Linked(d) /\ LastOf(d) = LastOf(history)
              /\ Len(sess.messages) - Len(d) \in Nat
              /\ \A i, j \in 1 .. Len(sess.messages) :
                    Paired(sess.messages, i, j)
                       => (sess.messages[i] \in ToSet(d) <=> sess.messages[j] \in ToSet(d))
<1> DEFINE ms == sess.messages
           d == DropOldestRound(ms, Oldest(ms))
           s == [sess EXCEPT !.messages = d]
<1>1. /\ ms \in Seq(Turns) /\ sess \in SessionType
      /\ history \in Seq(Turns) /\ Linked(history) /\ count.ids \in Nat
      /\ history # <<>> /\ LastOf(history).role \in {"user", "tool"}
      /\ ms # <<>> /\ Head(ms).role = "system" /\ Len(ms) >= 2 /\ ms[1] = System
      /\ Linked(ms) /\ LastOf(ms) = LastOf(history)
      /\ \A i \in 1 .. Len(ms) : ms[i].id <= count.ids /\ (ms[i].role = "assistant" => ms[i].id # 0)
  BY DEF Inv, Types, SessionType, Conversation, Sessions, Starting
<1>2. Numbered(ms)
  BY <1>1 DEF Numbered
<1>3. LastOf(ms).calls = {}
  <2>1. Len(ms) \in 1 .. Len(ms)
    BY <1>1
  <2> QED BY <1>1, <2>1 DEF Linked, LastOf
<1>4. PICK k : Shortened(ms, d, k)
  <2> HIDE DEF ms
  <2> QED BY <1>1, DropIs
<1> HIDE DEF ms, d
<1>5. /\ d \in Seq(Turns) /\ d # <<>> /\ d[1] = ms[1] /\ LastOf(d) = LastOf(ms)
      /\ Len(d) <= Len(ms) /\ (Len(ms) >= 2 => Len(d) >= 2)
      /\ \A i \in 1 .. Len(d) : \E j \in 1 .. Len(ms) : d[i] = ms[j]
  BY <1>1, <1>4, ShortenedEnds
<1>6. /\ Linked(d)
      /\ \A i, j \in 1 .. Len(ms) : Paired(ms, i, j) => (ms[i] \in ToSet(d) <=> ms[j] \in ToSet(d))
  <2>1. ms[1].role = "system"
    BY <1>1, SystemIs
  <2> QED BY <1>1, <1>3, <1>4, <2>1, DropLinked
<1>7. Numbered(d)
  <2>1. Head(d) = d[1] /\ d[1] = System
    BY <1>1, <1>5
  <2>2. \A i \in 1 .. Len(d) : d[i].id <= count.ids /\ (d[i].role = "assistant" => d[i].id # 0)
    <3> SUFFICES ASSUME NEW i \in 1 .. Len(d)
                 PROVE  d[i].id <= count.ids /\ (d[i].role = "assistant" => d[i].id # 0)
      OBVIOUS
    <3>1. PICK j \in 1 .. Len(ms) : d[i] = ms[j]
      BY <1>5
    <3> QED BY <1>1, <3>1
  <2> QED BY <1>5, <2>1, <2>2, SystemIs DEF Numbered
<1>8. s \in SessionType /\ s.messages = d
  BY <1>1, <1>5 DEF SessionType
<1>9. Len(ms) - Len(d) \in Nat
  BY <1>1, <1>5
<1> HIDE DEF s
<1> QED BY <1>1, <1>2, <1>5, <1>6, <1>7, <1>8, <1>9 DEF ms, d, s

LEMMA ColdBatchInv == ASSUME Inv, ColdBatch PROVE Inv'
<1> DEFINE d == DropOldestRound(sess.messages, Oldest(sess.messages))
           s == [sess EXCEPT !.messages = d]
<1>1. /\ live = "starting" /\ sess' = s
      /\ cut' = [cut EXCEPT !.removed = @ + Len(sess.messages) - Len(d)]
      /\ UNCHANGED <<model, history, held, live, disk, count>>
  BY DEF ColdBatch
<1>2. /\ history # <<>> /\ LastOf(history).role \in {"user", "tool"}
      /\ s \in SessionType /\ s.messages = d /\ Numbered(d) /\ Len(d) >= 2 /\ d[1] = System
      /\ Linked(d) /\ LastOf(d) = LastOf(history)
      /\ Len(sess.messages) - Len(d) \in Nat
  BY <1>1, ColdDrop
<1>3. AsideOK
  <2> HIDE DEF d
  <2>1. "removed" \in DOMAIN cut /\ cut.removed \in Nat
    BY DEF Inv, Types
  <2>2. Len(sess.messages) \in Nat /\ Len(d) \in Nat
    BY <1>2 DEF Inv, Types, Numbered
  <2>3. cut'.removed = cut.removed + Len(sess.messages) - Len(d) /\ "removed" \in DOMAIN cut'
    BY <1>1, <2>1
  <2> QED BY <1>2, <2>1, <2>2, <2>3 DEF AsideOK
<1> HIDE DEF d, s
<1> QED BY <1>1, <1>2, <1>3, CutInv

LEMMA ColdTrimInv == ASSUME Inv, ColdTrim PROVE Inv'
<1> DEFINE d == DropOldestRound(sess.messages, Oldest(sess.messages))
           s == [sess EXCEPT !.messages = d]
<1>1. /\ live = "starting" /\ UNCHANGED <<model, history, disk, count>>
      /\ \/ sess' = s /\ UNCHANGED <<held, live, cut>>
         \/ Prefill(sess.messages) /\ cut' = NoCut
  BY DEF ColdTrim
<1>2. /\ history # <<>> /\ LastOf(history).role \in {"user", "tool"}
      /\ Numbered(sess.messages) /\ LastOf(sess.messages) = LastOf(history)
      /\ s \in SessionType /\ s.messages = d /\ Numbered(d) /\ Len(d) >= 2 /\ d[1] = System
      /\ Linked(d) /\ LastOf(d) = LastOf(history)
  BY <1>1, ColdDrop
<1> HIDE DEF d, s
<1>3. CASE sess' = s /\ UNCHANGED <<held, live, cut>>
  <2>1. AsideOK
    BY <1>3 DEF AsideOK, Inv, Types
  <2> QED BY <1>1, <1>2, <1>3, <2>1, CutInv
<1>4. CASE Prefill(sess.messages) /\ cut' = NoCut
  <2>1. AsideOK
    BY <1>4 DEF AsideOK, NoCut
  <2> QED BY <1>1, <1>2, <1>4, <2>1, PrefillInv
<1> QED BY <1>1, <1>3, <1>4

-----------------------------------------------------------------------------
(* Replies.                                                                *)

\* A session at rest after a reply, or without one.
LEMMA RestInv ==
    ASSUME Inv, Conversation', history' \in Seq(Turns), held' \in 0 .. Len(history'),
           count' \in [ids : Nat, edits : Nat, saves : Nat],
           live' \in {"idle", "broken"}, sess' \in SessionType, Numbered(sess.messages)',
           live' = "idle" => sess'.cur_pos = Tokens(sess'.kv) /\ sess'.cur_pos <= Ctx,
           Idle', UNCHANGED <<model, cut, disk>>
    PROVE  Inv'
<1>1. Types'
  BY DEF Inv, Types, SessionType
<1>2. Starting' /\ Pulling'
  BY DEF Starting, Pulling
<1>3. Sessions'
  BY <1>2 DEF Sessions, Numbered
<1>4. Store'
  BY DEF Inv, Store
<1> QED BY <1>1, <1>3, <1>4 DEF Inv

\* What a sampled reply adds to the cache of a session.
LEMMA SampledIs ==
    ASSUME sess \in SessionType, sess.cur_pos = Tokens(sess.kv),
           NEW r \in Turns, r.role = "assistant", NEW n \in Nat
    PROVE  LET b == [of |-> r, by |-> "sampled", size |-> n]
               s == [sess EXCEPT !.kv = Append(@, b), !.cur_pos = @ + n]
           IN /\ s \in SessionType /\ s.messages = sess.messages /\ s.restored = sess.restored
              /\ s.kv # <<>> /\ LastOf(s.kv).of = r
              /\ Said(s.kv) = Append(Said(sess.kv), r) /\ Asked(s.kv) = Asked(sess.kv)
              /\ s.cur_pos = Tokens(s.kv) /\ s.cur_pos = sess.cur_pos + n
<1> DEFINE b == [of |-> r, by |-> "sampled", size |-> n]
           kv == Append(sess.kv, b)
           p == sess.cur_pos + n
           s == [sess EXCEPT !.kv = Append(@, b), !.cur_pos = @ + n]
<1>1. b \in Blocks /\ b.of = r /\ b.size = n
  <2>1. r \in Msgs
    BY TurnsAre
  <2> QED BY <2>1 DEF Blocks
<1>2. sess.kv \in Seq(Blocks) /\ sess.cur_pos \in Nat
  BY DEF SessionType
<1>3. /\ Said(kv) = Append(Said(sess.kv), r) /\ Asked(kv) = Asked(sess.kv)
  <2> HIDE DEF b
  <2> QED BY <1>1, <1>2, SaidMore
<1>4. Tokens(kv) = Tokens(sess.kv) + n
  <2> HIDE DEF b
  <2> QED BY <1>1, <1>2, Sizes0, TokensMore
<1>5. kv \in Seq(Blocks) /\ kv # <<>> /\ LastOf(kv) = b
  <2> HIDE DEF b
  <2> QED BY <1>1, <1>2 DEF LastOf
<1>6. p \in Nat
  BY <1>2
<1>7. s = [sess EXCEPT !.kv = kv, !.cur_pos = p]
  BY Zenon
<1> HIDE DEF b, kv, p
<1>8. /\ s \in SessionType /\ s.messages = sess.messages /\ s.restored = sess.restored
      /\ s.kv = kv /\ s.cur_pos = p
  <2> HIDE DEF s
  <2> QED BY <1>5, <1>6, <1>7 DEF SessionType
<1> HIDE DEF s
<1>9. s.cur_pos = Tokens(s.kv)
  BY <1>4, <1>8 DEF p
<1>10. LastOf(s.kv).of = r /\ s.cur_pos = sess.cur_pos + n
  BY <1>1, <1>5, <1>8 DEF p
<1> QED BY <1>3, <1>5, <1>8, <1>9, <1>10 DEF s, b

LEMMA PullEndInv ==
    ASSUME Inv, NEW n \in Nat, n <= Room, NEW calls \in {{}, {count.ids + 1}}, PullEnd(n, calls)
    PROVE  Inv'
<1> DEFINE h == Len(history)
<1>1. /\ live = "pulling" /\ live' = "idle" /\ UNCHANGED <<model, cut, disk>>
      /\ sess \in SessionType /\ Numbered(sess.messages) /\ sess.messages \in Seq(Turns)
      /\ sess.cur_pos = Tokens(sess.kv) /\ sess.cur_pos \in Nat
  BY DEF Inv, Types, SessionType, Sessions, Numbered, PullEnd
<1>2. /\ history \in Seq(Turns) /\ Linked(history) /\ h \in Nat
      /\ history # <<>> /\ LastOf(history).role \in {"user", "tool"}
      /\ \A i \in 1 .. h : /\ history[i].id \in 1 .. count.ids
                           /\ history[i].role \in {"user", "tool", "assistant"}
      /\ held = h /\ sess.kv # <<>>
      /\ count \in [ids : Nat, edits : Nat, saves : Nat] /\ count.ids \in Nat
  BY <1>1 DEF Inv, Types, Conversation, Sessions, Pulling
<1>3. IF sess.restored THEN Asked(sess.kv) = NotReplies(sess.messages)
      ELSE Said(sess.kv) = sess.messages
  BY <1>1 DEF Inv, Sessions, Pulling
<1>4. h \in 1 .. h /\ LastOf(history) = history[h]
  BY <1>2 DEF LastOf
<1>5. h <= MaxMessages /\ MaxMessages \in Nat
  BY <1>2, LlamaSessionAssumption DEF Inv, Conversation
<1>6. sess.cur_pos + n <= Ctx
  BY <1>1, LlamaSessionAssumption DEF Room
<1>7. \A m \in Turns : (m.id = 0 \/ m.id = count.ids + 1) /\ m.role = "assistant"
                          => m \notin ToSet(sess.messages)
  <2> SUFFICES ASSUME NEW m \in Turns, m.id = 0 \/ m.id = count.ids + 1, m.role = "assistant",
                      m \in ToSet(sess.messages)
               PROVE  FALSE
    OBVIOUS
  <2>1. PICK i \in 1 .. Len(sess.messages) : m = sess.messages[i]
    BY <1>1 DEF ToSet
  <2>2. m.id <= count.ids /\ m.id # 0 /\ m.id \in Nat
    BY <1>1, <2>1, TurnsAre DEF Numbered
  <2> QED BY <1>2, <2>2
<1>8. CASE n = 0 /\ UNCHANGED <<history, held, sess, count>>
  <2>1. Conversation'
    BY <1>1, <1>8 DEF Inv, Conversation
  <2>2. Idle'
    <3>1. CASE sess.restored
      BY <1>2, <1>3, <1>8, <3>1 DEF Idle
    <3>2. CASE ~sess.restored
      <4>1. Transcribed(sess)'
        <5>1. Said(sess.kv) = sess.messages
          BY <1>3, <3>2
        <5>2. NoReplyBehind(held)'
          <6>1. \A i : ~(i \in h + 1 .. h)
            <7> HIDE DEF h
            <7> QED BY <1>2
          <6> QED BY <1>2, <1>8, <6>1 DEF NoReplyBehind
        <5> QED BY <1>8, <5>1, <5>2 DEF Transcribed
      <4> QED BY <1>2, <1>8, <3>2, <4>1 DEF Idle
    <3> QED BY <3>1, <3>2
  <2>3. sess'.cur_pos = Tokens(sess'.kv) /\ sess'.cur_pos <= Ctx
    BY <1>1, <1>6, <1>8
  <2>4. Numbered(sess.messages)'
    BY <1>1, <1>8 DEF Numbered
  <2>5. held' \in 0 .. Len(history')
    BY <1>2, <1>8
  <2> QED BY <1>1, <1>2, <1>8, <2>1, <2>2, <2>3, <2>4, <2>5, RestInv
<1> DEFINE Sampled(r) == [sess EXCEPT !.kv = Append(@, [of |-> r, by |-> "sampled", size |-> n]),
                                      !.cur_pos = @ + n]
<1>9. CASE sess' = Sampled(Reply(calls)) /\ NextId
           /\ history' = Append(history, Reply(calls)) /\ UNCHANGED held
  <2> DEFINE r == Reply(calls)
  <2>1. /\ r \in Turns /\ r.role = "assistant" /\ r.id = count.ids + 1 /\ r.calls = calls
        /\ r.answers = NoCall
    BY <1>2, MessageIs DEF Reply, NoCall, Roles
  <2> HIDE DEF r
  <2>2. /\ sess' \in SessionType /\ sess'.messages = sess.messages /\ sess'.restored = sess.restored
        /\ sess'.kv # <<>> /\ LastOf(sess'.kv).of = r
        /\ Said(sess'.kv) = Append(Said(sess.kv), r) /\ Asked(sess'.kv) = Asked(sess.kv)
        /\ sess'.cur_pos = Tokens(sess'.kv) /\ sess'.cur_pos = sess.cur_pos + n
    <3> DEFINE s == Sampled(r)
    <3>1. sess' = s
      BY <1>9 DEF r
    <3>2. /\ s \in SessionType /\ s.messages = sess.messages /\ s.restored = sess.restored
          /\ s.kv # <<>> /\ LastOf(s.kv).of = r
          /\ Said(s.kv) = Append(Said(sess.kv), r) /\ Asked(s.kv) = Asked(sess.kv)
          /\ s.cur_pos = Tokens(s.kv) /\ s.cur_pos = sess.cur_pos + n
      BY <1>1, <2>1, SampledIs
    <3> HIDE DEF s
    <3> QED BY <3>1, <3>2
  <2> HIDE DEF Sampled
  <2>3. count' \in [ids : Nat, edits : Nat, saves : Nat] /\ count'.ids = count.ids + 1
    BY <1>2, <1>9 DEF NextId
  <2>4. /\ history' \in Seq(Turns) /\ Len(history') = h + 1 /\ history'[h + 1] = r
        /\ \A i \in 1 .. h : history'[i] = history[i]
    BY <1>2, <1>9, <2>1 DEF r
  <2>5. Linked(history')
    <3>1. \A i \in 1 .. h : history[i].id # r.id
      <4> SUFFICES ASSUME NEW i \in 1 .. h PROVE history[i].id # r.id
        OBVIOUS
      <4>1. history[i].id \in 1 .. count.ids
        BY <1>2
      <4> QED BY <1>2, <2>1, <4>1
    <3>2. LastOf(history).calls = {}
      BY <1>2, <1>4 DEF Linked
    <3>3. r.calls \in {{}, {r.id}} /\ r.id # 0
      BY <1>2, <2>1
    <3>4. history' = Append(history, r)
      BY <1>9 DEF r
    <3> QED BY <1>2, <2>1, <3>1, <3>2, <3>3, <3>4, LinkedMore
  <2>6. Conversation'
    <3>1. \A i \in 1 .. h + 1 : /\ history'[i].id \in 1 .. count'.ids
                                /\ history'[i].role \in {"user", "tool", "assistant"}
      <4> SUFFICES ASSUME NEW i \in 1 .. h + 1
                   PROVE  history'[i].id \in 1 .. count'.ids /\ history'[i].role \in {"user", "tool", "assistant"}
        OBVIOUS
      <4>1. i \in 1 .. h \/ i = h + 1
        <5> HIDE DEF h
        <5> QED BY <1>2
      <4>2. CASE i \in 1 .. h
        <5>1. history'[i] = history[i] /\ history[i].id \in 1 .. count.ids
          BY <1>2, <2>4, <4>2
        <5> QED BY <1>2, <2>3, <4>2, <5>1
      <4>3. CASE i = h + 1
        BY <1>2, <2>1, <2>3, <2>4, <4>3
      <4> QED BY <4>1, <4>2, <4>3
    <3>2. LastOf(history').role = "assistant"
      BY <2>1, <2>4 DEF LastOf
    <3>3. Len(history') <= MaxMessages \/ Len(history') = MaxMessages + 1
      <4> HIDE DEF h
      <4> QED BY <1>2, <1>5, <2>4
    <3> HIDE DEF h
    <3> QED BY <1>1, <2>4, <2>5, <3>1, <3>2, <3>3 DEF Conversation
  <2>7. Idle'
    <3>1. CASE sess.restored
      BY <1>3, <2>2, <3>1 DEF Idle
    <3>2. CASE ~sess.restored
      <4>1. Said(sess'.kv) = Append(sess'.messages, r)
        BY <1>3, <2>2, <3>2
      <4>2. r \notin ToSet(sess'.messages)
        BY <1>2, <1>7, <2>1, <2>2
      <4>3. held' < Len(history') /\ history'[held' + 1] = r
        <5>1. held' = h
          BY <1>2, <1>9
        <5> HIDE DEF h
        <5> QED BY <1>2, <2>4, <5>1
      <4>4. NoReplyBehind(held + 1)'
        <5>1. held' = h
          BY <1>2, <1>9
        <5>2. \A i : ~(i \in (h + 1) + 1 .. h + 1)
          <6> HIDE DEF h
          <6> QED BY <1>2
        <5> QED BY <2>4, <5>1, <5>2 DEF NoReplyBehind
      <4>5. Transcribed(sess)'
        BY <2>1, <2>2, <4>1, <4>2, <4>3, <4>4 DEF Transcribed
      <4> QED BY <2>2, <3>2, <4>5 DEF Idle
    <3> QED BY <3>1, <3>2
  <2>8. Numbered(sess.messages)'
    <3>1. \A i \in 1 .. Len(sess.messages) : sess.messages[i].id <= count'.ids
      <4> SUFFICES ASSUME NEW i \in 1 .. Len(sess.messages) PROVE sess.messages[i].id <= count'.ids
        OBVIOUS
      <4>1. sess.messages[i] \in Turns /\ sess.messages[i].id <= count.ids
        BY <1>1 DEF Numbered
      <4>2. sess.messages[i].id \in Nat
        BY <4>1, TurnsAre
      <4> QED BY <1>2, <2>3, <4>1, <4>2
    <3> QED BY <1>1, <2>2, <3>1 DEF Numbered
  <2>9. held' \in 0 .. Len(history')
    <3>1. held' = h
      BY <1>2, <1>9
    <3> HIDE DEF h
    <3> QED BY <1>2, <2>4, <3>1
  <2>10. sess'.cur_pos <= Ctx
    BY <1>6, <2>2
  <2> QED BY <1>1, <2>2, <2>3, <2>4, <2>6, <2>7, <2>8, <2>9, <2>10, RestInv
<1>10. CASE sess' = Sampled(Unread) /\ held' = 0 /\ UNCHANGED <<history, count>>
  <2> DEFINE r == Unread
  <2>1. r \in Turns /\ r.role = "assistant" /\ r.id = 0
    <3> DEFINE q == Reply({})
    <3>1. q \in Turns /\ q.role = "assistant"
      BY <1>2, MessageIs DEF Reply, NoCall, Roles
    <3>2. r = [q EXCEPT !.id = 0]
      BY DEF Unread
    <3> HIDE DEF q, r
    <3> QED BY <3>1, <3>2 DEF Turns, Msgs
  <2> HIDE DEF r
  <2>2. /\ sess' \in SessionType /\ sess'.messages = sess.messages /\ sess'.restored = sess.restored
        /\ sess'.kv # <<>> /\ LastOf(sess'.kv).of = r
        /\ Said(sess'.kv) = Append(Said(sess.kv), r) /\ Asked(sess'.kv) = Asked(sess.kv)
        /\ sess'.cur_pos = Tokens(sess'.kv) /\ sess'.cur_pos = sess.cur_pos + n
    <3> DEFINE s == Sampled(r)
    <3>1. sess' = s
      BY <1>10 DEF r
    <3>2. /\ s \in SessionType /\ s.messages = sess.messages /\ s.restored = sess.restored
          /\ s.kv # <<>> /\ LastOf(s.kv).of = r
          /\ Said(s.kv) = Append(Said(sess.kv), r) /\ Asked(s.kv) = Asked(sess.kv)
          /\ s.cur_pos = Tokens(s.kv) /\ s.cur_pos = sess.cur_pos + n
      BY <1>1, <2>1, SampledIs
    <3> HIDE DEF s
    <3> QED BY <3>1, <3>2
  <2> HIDE DEF Sampled
  <2>3. Conversation'
    BY <1>1, <1>10 DEF Inv, Conversation
  <2>4. Idle'
    <3>1. CASE sess.restored
      BY <1>3, <2>2, <3>1 DEF Idle
    <3>2. CASE ~sess.restored
      <4>1. Said(sess'.kv) = Append(sess'.messages, r)
        BY <1>3, <2>2, <3>2
      <4>2. r \notin ToSet(sess'.messages)
        BY <1>7, <2>1, <2>2
      <4>3. ~(held' > 0)
        BY <1>10
      <4>4. Transcribed(sess)'
        BY <2>1, <2>2, <4>1, <4>2, <4>3 DEF Transcribed
      <4> QED BY <2>2, <3>2, <4>4 DEF Idle
    <3> QED BY <3>1, <3>2
  <2>5. Numbered(sess.messages)'
    BY <1>1, <1>10, <2>2 DEF Numbered
  <2>6. held' \in 0 .. Len(history')
    BY <1>2, <1>10
  <2>7. sess'.cur_pos <= Ctx
    BY <1>6, <2>2
  <2> QED BY <1>1, <1>2, <1>10, <2>2, <2>3, <2>4, <2>5, <2>6, <2>7, RestInv
<1> HIDE DEF h, Sampled
<1>11. \/ n = 0 /\ UNCHANGED <<history, held, sess, count>>
       \/ sess' = Sampled(Reply(calls)) /\ NextId
          /\ history' = Append(history, Reply(calls)) /\ UNCHANGED held
       \/ sess' = Sampled(Unread) /\ held' = 0 /\ UNCHANGED <<history, count>>
  BY Zenon DEF PullEnd, Sampled
<1> QED BY <1>8, <1>9, <1>10, <1>11

-----------------------------------------------------------------------------
(* A session that goes on.                                                 *)

LEMMA LimitIs == Limit(Ctx, MaxTokens) \in Nat /\ Limit(Ctx, MaxTokens) <= Ctx
<1> DEFINE half == Ctx \div 2
           quarter == Ctx \div 4
           asked == IF MaxTokens = NoLimit THEN quarter ELSE MaxTokens
           least == Greater(Lesser(half, MinReserve), 1)
           g == GenerationReserve(Ctx, MaxTokens)
<1>1. {Ctx, MaxTokens, MinReserve} \subseteq Nat
  BY LlamaSessionAssumption, TruncationAssumption
<1>2. half \in Nat /\ quarter \in Nat
  BY <1>1
<1> HIDE DEF half, quarter
<1>3. asked \in Nat /\ least \in Nat
  BY <1>1, <1>2 DEF Greater, Lesser
<1>4. g = Lesser(Greater(asked, least), Greater(half, 1))
  BY Zenon DEF GenerationReserve, asked, least, half, quarter
<1> HIDE DEF asked, least
<1>5. g \in Nat
  BY <1>2, <1>3, <1>4 DEF Lesser, Greater
<1> HIDE DEF g
<1>6. Limit(Ctx, MaxTokens) = Ctx - Lesser(g, Ctx)
  BY Zenon DEF Limit, g
<1> QED BY <1>1, <1>5, <1>6 DEF Lesser

\* What is new of a conversation.
LEMMA NewIs ==
    ASSUME Inv, held > 0, held < Len(history)
    PROVE  /\ New \in Seq(Turns) /\ New # <<>> /\ LastOf(New) = LastOf(history)
           /\ Len(New) = Len(history) - held
           /\ \A i \in 1 .. Len(New) : New[i] = history[held + i] /\ held + i \in 1 .. Len(history)
           /\ \A i \in 1 .. Len(New) : /\ New[i].id <= count.ids
                                       /\ New[i].role = "assistant" => New[i].id # 0
<1> DEFINE n == Len(history)
<1>1. /\ history \in Seq(Turns) /\ n \in Nat /\ held \in 0 .. n /\ held < n /\ held \in Nat
      /\ \A i \in 1 .. n : history[i].id \in 1 .. count.ids
      /\ count.ids \in Nat
  BY DEF Inv, Types, Conversation
<1>2. New \in Seq(Turns) /\ New # <<>> /\ LastOf(New) = LastOf(history) /\ Len(New) = n - held
  BY <1>1, Halves DEF New
<1>3. \A i \in 1 .. n - held : New[i] = history[held + i] /\ held + i \in 1 .. n
  <2> SUFFICES ASSUME NEW i \in 1 .. n - held
               PROVE  New[i] = history[held + i] /\ held + i \in 1 .. n
    OBVIOUS
  <2>1. New[i] = history[held + i]
    BY <1>1 DEF New
  <2>2. held + i \in 1 .. n
    <3> HIDE DEF n
    <3> QED BY <1>1
  <2> QED BY <2>1, <2>2
<1>4. \A i \in 1 .. n - held : New[i].id <= count.ids /\ New[i].id # 0
  <2> SUFFICES ASSUME NEW i \in 1 .. n - held PROVE New[i].id <= count.ids /\ New[i].id # 0
    OBVIOUS
  <2>1. history[held + i].id \in 1 .. count.ids
    BY <1>1, <1>3
  <2> QED BY <1>1, <1>3, <2>1
<1> QED BY <1>2, <1>3, <1>4

\* The transcript with what is new.
LEMMA GrownIs ==
    ASSUME Inv, held > 0, held < Len(history), live # "none"
    PROVE  LET ms == sess.messages \o New
           IN /\ Numbered(ms) /\ LastOf(ms) = LastOf(history) /\ ms[1] = sess.messages[1]
              /\ Tokens(ms) \in Nat /\ Tokens(sess.messages) \in Nat
              /\ Tokens(sess.messages) <= Tokens(ms)
              /\ NotReplies(ms) = NotReplies(sess.messages) \o NotReplies(New)
<1> DEFINE a == sess.messages
           b == New
           ms == a \o b
           j == Joined(a, b)
           p == Len(a)
           q == Len(b)
<1>1. /\ a \in Seq(Turns) /\ a # <<>> /\ Head(a).role = "system" /\ count.ids \in Nat
      /\ \A i \in 1 .. p : a[i].id <= count.ids /\ (a[i].role = "assistant" => a[i].id # 0)
  BY DEF Inv, Types, Sessions
<1>2. /\ b \in Seq(Turns) /\ b # <<>> /\ LastOf(b) = LastOf(history)
      /\ \A i \in 1 .. q : b[i].id <= count.ids /\ (b[i].role = "assistant" => b[i].id # 0)
  BY NewIs
<1> HIDE DEF a, b
<1>3. p \in Nat \ {0} /\ q \in Nat \ {0} /\ Head(a) = a[1]
  BY <1>1, <1>2
<1>4. a \in Seq(Turns) /\ b \in Seq(Turns)
  BY <1>1, <1>2
<1>5. NotReplies(ms) = NotReplies(a) \o NotReplies(b)
  <2> HIDE DEF ms
  <2> QED BY <1>4, NotRepliesJoin DEF ms
<1>6. Tokens(ms) = Tokens(a) + Tokens(b)
  BY <1>4, Sizes0, TokensJoin
<1>7. Tokens(a) \in Nat /\ Tokens(b) \in Nat
  BY <1>4, Sizes0, TokensNat
<1>8. j \in Seq(Turns) /\ Len(j) = p + q
  BY ONLY <1>4, JoinLen
<1>9. \A i \in 1 .. p : j[i] = a[i]
  BY ONLY <1>4, JoinLeft
<1>10. \A i \in 1 .. q : j[p + i] = b[i]
  BY ONLY <1>4, JoinRight
<1>11. ms = j
  BY DEF Joined
<1> HIDE DEF ms, j, p, q
<1>12. \A i \in 1 .. p + q : j[i].id <= count.ids /\ (j[i].role = "assistant" => j[i].id # 0)
  <2> SUFFICES ASSUME NEW i \in 1 .. p + q
               PROVE  j[i].id <= count.ids /\ (j[i].role = "assistant" => j[i].id # 0)
    OBVIOUS
  <2>1. CASE i \in 1 .. p
    BY <1>1, <1>9, <2>1
  <2>2. CASE i \notin 1 .. p
    <3> DEFINE k == i - p
    <3>1. k \in 1 .. q /\ p + k = i
      BY <1>3, <2>2
    <3> HIDE DEF k
    <3>2. j[p + k] = b[k]
      BY <1>10, <3>1
    <3> QED BY <1>2, <3>1, <3>2
  <2> QED BY <2>1, <2>2
<1>13. 1 \in 1 .. p /\ q \in 1 .. q /\ p + q # 0
  BY <1>3
<1>14. j # <<>> /\ Head(j) = j[1] /\ j[1] = a[1]
  BY <1>8, <1>9, <1>13
<1>15. LastOf(j) = LastOf(b)
  BY <1>8, <1>10, <1>13 DEF LastOf, q
<1>16. Numbered(j)
  BY <1>1, <1>3, <1>8, <1>12, <1>14 DEF Numbered
<1>17. Tokens(a) <= Tokens(ms) /\ Tokens(ms) \in Nat
  BY <1>6, <1>7
<1> QED BY <1>2, <1>5, <1>7, <1>11, <1>14, <1>15, <1>16, <1>17 DEF a, b, ms

\* What is new behind the reply that stands in the cache was asked, all of it.
LEMMA AskedOnly ==
    ASSUME NEW s \in Seq(Turns), \A i \in 1 .. Len(s) : s[i].role # "assistant"
    PROVE  NotReplies(s) = s
<1>1. \A i \in 1 .. Len(s) : s[i] \in Asks <=> s[i] \in Turns
  BY TurnsAre
<1>2. Among(s, Asks) = Among(s, Turns)
  <2>1. s \in Seq(Turns)
    OBVIOUS
  <2> QED BY ONLY <1>1, <2>1, AmongAlike
<1>3. Among(s, Turns) = s
  BY AmongAll
<1> QED BY <1>2, <1>3, NotRepliesIs

\* A reply that is not decoded again stands in the cache already.
LEMMA ReplyFirst ==
    ASSUME NEW a \in Seq(Turns), NEW r \in Turns, r.role = "assistant", NEW s \in Seq(Turns),
           s # <<>>, s[1] = r, \A i \in 2 .. Len(s) : s[i].role # "assistant"
    PROVE  Append(a, r) \o NotReplies(s) = a \o s
<1> DEFINE n == Len(s)
           one == SubSeq(s, 1, 1)
           t == SubSeq(s, 2, n)
<1>1. n \in Nat \ {0} /\ 1 \in 0 .. n /\ 1 + 1 = 2
  OBVIOUS
<1>2. one \in Seq(Turns) /\ t \in Seq(Turns) /\ s = one \o t
  <2>1. SubSeq(s, 1 + 1, Len(s)) = t
    BY <1>1
  <2> HIDE DEF one, t
  <2> QED BY <1>1, <2>1, Halves DEF one
<1>3. one = <<r>>
  <2>1. one \in Seq(Turns) /\ Len(one) = 1 /\ one[1] = s[1]
    BY <1>1
  <2> HIDE DEF one
  <2>2. one = <<one[1]>>
    BY <2>1
  <2> QED BY <2>1, <2>2
<1>4. \A i \in 1 .. Len(t) : t[i].role # "assistant"
  <2> SUFFICES ASSUME NEW i \in 1 .. Len(t) PROVE t[i].role # "assistant"
    OBVIOUS
  <2>1. Len(t) = n - 1 /\ t[i] = s[i + 1]
    BY <1>1
  <2>2. i + 1 \in 2 .. n
    <3> HIDE DEF n, t
    <3> QED BY <1>1, <2>1
  <2> QED BY <2>1, <2>2
<1> HIDE DEF one, t
<1>5. NotReplies(t) = t
  BY <1>2, <1>4, AskedOnly
<1>6. NotReplies(one) = <<>>
  <2> DEFINE none == <<>>
  <2>0. none \in Seq(Turns)
    OBVIOUS
  <2>1. NotReplies(none) = <<>>
    <3>1. Among(none, Asks) = <<>>
      BY AmongNone
    <3> HIDE DEF none
    <3>2. NotReplies(none) = Among(none, Asks)
      BY <2>0, NotRepliesIs
    <3> QED BY <3>1, <3>2
  <2>2. one = Append(none, r)
    BY <1>3
  <2> HIDE DEF none
  <2>3. NotReplies(Append(none, r)) = NotReplies(none)
    BY <2>0, NotRepliesMore
  <2> QED BY <2>1, <2>2, <2>3
<1>7. NotReplies(s) = NotReplies(one) \o NotReplies(t)
  <2>1. one \in Seq(Turns) /\ t \in Seq(Turns)
    BY <1>2
  <2>2. NotReplies(one \o t) = NotReplies(one) \o NotReplies(t)
    BY <2>1, NotRepliesJoin
  <2> QED BY <1>2, <2>2
<1>8. NotReplies(s) = t
  BY <1>2, <1>5, <1>6, <1>7
<1>9. Append(a, r) \o t = a \o (one \o t)
  BY <1>2, <1>3
<1> QED BY <1>2, <1>8, <1>9

\* What is decoded when a session goes on, and what its cache says then.
LEMMA ExtendedSays ==
    ASSUME Inv, live = "idle", held > 0, held < Len(history),
           LastOf(history).role \in {"user", "tool"}, sess.kv # <<>>
    PROVE  LET delta == NotReplies(New)
               kv == sess.kv \o Rendered(delta)
           IN /\ kv \in Seq(Blocks) /\ kv # <<>> /\ LastOf(kv).of = LastOf(history)
              /\ Tokens(kv) = Tokens(sess.kv) + Tokens(delta) /\ Tokens(delta) \in Nat
              /\ IF sess.restored THEN Asked(kv) = NotReplies(sess.messages) \o NotReplies(New)
                 ELSE Said(kv) = sess.messages \o New
<1> DEFINE a == sess.messages
           b == New
           delta == NotReplies(b)
           kv == sess.kv \o Rendered(delta)
<1>1. /\ a \in Seq(Turns) /\ sess.kv \in Seq(Blocks) /\ history \in Seq(Turns)
      /\ IF sess.restored THEN Asked(sess.kv) = NotReplies(a) ELSE Transcribed(sess)
  BY DEF Inv, Types, Sessions, Idle
<1>2. /\ b \in Seq(Turns) /\ b # <<>> /\ LastOf(b) = LastOf(history)
      /\ Len(b) = Len(history) - held /\ held \in Nat /\ Len(history) \in Nat
      /\ \A i \in 1 .. Len(b) : b[i] = history[held + i] /\ held + i \in 1 .. Len(history)
  BY NewIs DEF Inv, Types
<1> HIDE DEF b
<1>3. /\ delta \in Seq(Asks) /\ delta # <<>> /\ LastOf(delta) = LastOf(b)
      /\ NotReplies(delta) = delta
  BY <1>2, NotRepliesIs, AskLast
<1> HIDE DEF delta
<1>4. delta \in Seq(Turns)
  BY <1>3, SubTurns
<1>5. /\ kv \in Seq(Blocks) /\ Said(kv) = Said(sess.kv) \o delta
      /\ Asked(kv) = Asked(sess.kv) \o NotReplies(delta)
      /\ Tokens(kv) = Tokens(sess.kv) + Tokens(delta)
  BY <1>1, <1>4, SaidJoin
<1>6. kv # <<>> /\ LastOf(kv).of = LastOf(delta)
  BY <1>1, <1>3, <1>4, LastRendered
<1> HIDE DEF kv
<1>7. Tokens(delta) \in Nat
  BY <1>4, Sizes0, TokensNat
<1>8. CASE sess.restored
  <2>1. Asked(kv) = NotReplies(a) \o delta
    BY <1>1, <1>3, <1>5, <1>8
  <2> QED BY <1>2, <1>3, <1>5, <1>6, <1>7, <1>8, <2>1 DEF kv, delta, b
<1>9. CASE ~sess.restored
  <2>1. Transcribed(sess)
    BY <1>1, <1>9
  <2>2. Said(kv) = a \o b
    <3>1. CASE Said(sess.kv) = a /\ (held > 0 => NoReplyBehind(held))
      <4>1. \A i \in 1 .. Len(b) : b[i].role # "assistant"
        <5> SUFFICES ASSUME NEW i \in 1 .. Len(b) PROVE b[i].role # "assistant"
          OBVIOUS
        <5> DEFINE p == held + i
        <5>1. b[i] = history[p]
          BY <1>2
        <5>2. p \in held + 1 .. Len(history)
          BY <1>2
        <5> HIDE DEF p
        <5>3. NoReplyBehind(held)
          BY <3>1
        <5> QED BY <5>1, <5>2, <5>3 DEF NoReplyBehind
      <4>2. delta = b
        BY <1>2, <4>1, AskedOnly DEF delta
      <4> QED BY <1>5, <3>1, <4>2
    <3>2. CASE ~(Said(sess.kv) = a /\ (held > 0 => NoReplyBehind(held)))
      <4> DEFINE r == LastOf(sess.kv).of
      <4>1. /\ r.role = "assistant" /\ Said(sess.kv) = Append(a, r)
            /\ history[held + 1] = r /\ NoReplyBehind(held + 1)
        BY <2>1, <3>2 DEF Transcribed
      <4>2. 1 \in 1 .. Len(b)
        BY <1>2
      <4>3. b[1] = r
        BY <1>2, <4>1, <4>2
      <4> HIDE DEF r
      <4>4. r \in Turns
        BY <1>2, <4>2, <4>3
      <4>5. \A i \in 2 .. Len(b) : b[i].role # "assistant"
        <5> SUFFICES ASSUME NEW i \in 2 .. Len(b) PROVE b[i].role # "assistant"
          OBVIOUS
        <5> DEFINE p == held + i
        <5>0. i \in 1 .. Len(b)
          OBVIOUS
        <5>1. b[i] = history[p]
          BY <1>2, <5>0
        <5>2. p \in (held + 1) + 1 .. Len(history)
          BY <1>2
        <5> HIDE DEF p
        <5> QED BY <4>1, <5>1, <5>2 DEF NoReplyBehind
      <4>6. Append(a, r) \o delta = a \o b
        <5>1. a \in Seq(Turns)
          BY <1>1
        <5> HIDE DEF a
        <5> QED BY <1>2, <4>1, <4>3, <4>4, <4>5, <5>1, ReplyFirst DEF delta
      <4> QED BY <1>5, <4>1, <4>6
    <3> QED BY <3>1, <3>2
  <2> QED BY <1>2, <1>3, <1>5, <1>6, <1>7, <1>9, <2>2 DEF kv, delta, b
<1> QED BY <1>8, <1>9

LEMMA ExtendInv ==
    ASSUME Inv, live = "idle", held > 0, held < Len(history),
           history # <<>>, LastOf(history).role \in {"user", "tool"},
           Tokens(sess.messages \o New) <= Limit(Ctx, MaxTokens), Extend(sess.messages \o New),
           UNCHANGED <<model, history, cut, disk, count>>
    PROVE  Inv'
<1> DEFINE ms == sess.messages \o New
           delta == NotReplies(New)
           kv == sess.kv \o Rendered(delta)
           broken == [sess EXCEPT !.messages = ms, !.kv = <<>>, !.cur_pos = 0]
           longer == [sess EXCEPT !.messages = ms, !.kv = @ \o Rendered(delta), !.cur_pos = @ + Tokens(delta)]
<1>1. /\ Numbered(ms) /\ LastOf(ms) = LastOf(history) /\ ms[1] = sess.messages[1]
      /\ Tokens(ms) \in Nat /\ Tokens(sess.messages) \in Nat /\ Tokens(sess.messages) <= Tokens(ms)
      /\ NotReplies(ms) = NotReplies(sess.messages) \o NotReplies(New)
  BY GrownIs
<1>2. /\ sess \in SessionType /\ sess.cur_pos = Tokens(sess.kv) /\ sess.cur_pos \in Nat
      /\ ms \in Seq(Turns)
  BY <1>1 DEF Inv, Types, SessionType, Sessions, Numbered
<1>3. sess.kv # <<>>
  <2> SUFFICES ASSUME sess.kv = <<>> PROVE FALSE
    OBVIOUS
  <2>1. Tokens(sess.messages) > Limit(Ctx, MaxTokens)
    BY DEF Inv, Sessions, Idle
  <2>2. Tokens(ms) <= Limit(Ctx, MaxTokens)
    OBVIOUS
  <2> HIDE DEF ms
  <2> QED BY <1>1, <2>1, <2>2, LimitIs
<1>4. /\ kv \in Seq(Blocks) /\ kv # <<>> /\ LastOf(kv).of = LastOf(history)
      /\ Tokens(kv) = Tokens(sess.kv) + Tokens(delta) /\ Tokens(delta) \in Nat
      /\ IF sess.restored THEN Asked(kv) = NotReplies(sess.messages) \o NotReplies(New)
         ELSE Said(kv) = ms
  BY <1>3, ExtendedSays
<1>5. AsideOK
  BY DEF AsideOK, Inv, Types
<1>6. \/ sess.cur_pos + Tokens(delta) > Ctx /\ live' = "broken" /\ UNCHANGED held /\ sess' = broken
      \/ ~(sess.cur_pos + Tokens(delta) > Ctx) /\ Attach(longer)
  BY DEF Extend
<1>7. longer = [sess EXCEPT !.messages = ms, !.kv = kv, !.cur_pos = sess.cur_pos + Tokens(delta)]
  BY Zenon
<1> HIDE DEF ms, delta, kv, longer
<1>8. CASE live' = "broken" /\ UNCHANGED held /\ sess' = broken
  <2>1. broken \in SessionType /\ broken.messages = ms
    <3>1. <<>> \in Seq(Blocks)
      OBVIOUS
    <3> QED BY <1>2, <3>1 DEF SessionType
  <2> HIDE DEF broken
  <2>2. Conversation'
    BY <1>8 DEF Inv, Conversation
  <2>3. Numbered(sess.messages)'
    BY <1>1, <1>8, <2>1 DEF Numbered
  <2>4. Idle'
    BY <1>8 DEF Idle
  <2>5. /\ history' \in Seq(Turns) /\ held' \in 0 .. Len(history')
        /\ count' \in [ids : Nat, edits : Nat, saves : Nat]
    BY <1>8 DEF Inv, Types
  <2> QED BY <1>8, <2>1, <2>2, <2>3, <2>4, <2>5, RestInv
<1>9. CASE ~(sess.cur_pos + Tokens(delta) > Ctx) /\ Attach(longer)
  <2> DEFINE p == sess.cur_pos + Tokens(delta)
  <2>1. p \in Nat /\ p <= Ctx /\ p = Tokens(kv)
    BY <1>2, <1>4, <1>9, LlamaSessionAssumption
  <2>2. longer = [sess EXCEPT !.messages = ms, !.kv = kv, !.cur_pos = p]
    BY <1>7
  <2> HIDE DEF p
  <2>3. /\ longer \in SessionType /\ longer.messages = ms /\ longer.kv = kv
        /\ longer.cur_pos = p /\ longer.restored = sess.restored
    BY <1>2, <1>4, <2>1, <2>2 DEF SessionType
  <2>4. IF longer.restored THEN Asked(longer.kv) = NotReplies(longer.messages)
        ELSE Said(longer.kv) = longer.messages
    BY <1>1, <1>4, <2>3
  <2> QED BY <1>1, <1>4, <1>5, <1>9, <2>1, <2>3, <2>4, AttachInv
<1> QED BY <1>6, <1>8, <1>9

\* A cache that is rendered anew says what was rendered.
LEMMA RenderedSays ==
    ASSUME NEW ms \in Seq(Turns), ms # <<>>
    PROVE  LET kv == Rendered(ms)
           IN /\ kv \in Seq(Blocks) /\ kv # <<>> /\ LastOf(kv).of = LastOf(ms)
              /\ Said(kv) = ms /\ Tokens(kv) = Tokens(ms)
<1> DEFINE none == <<>>
           kv == Rendered(ms)
<1>1. kv \in Seq(Blocks) /\ Tokens(kv) = Tokens(ms)
  BY SubTurns, RenderedAre
<1> HIDE DEF kv
<1>2. none \in Seq(Blocks) /\ none \o kv = kv
  BY <1>1
<1> HIDE DEF none
<1>3. none \o kv # <<>> /\ LastOf(none \o kv).of = LastOf(ms)
  BY <1>2, LastRendered DEF kv
<1>4. Said(none \o kv) = Said(none) \o ms
  BY <1>2, SaidJoin DEF kv
<1>5. Said(none) = <<>>
  BY SaidNone DEF none
<1>6. Said(kv) = ms
  BY <1>2, <1>4, <1>5
<1> QED BY <1>1, <1>2, <1>3, <1>6 DEF kv

LEMMA OverflowInv ==
    ASSUME Inv, live = "idle", held > 0, held < Len(history),
           history # <<>>, LastOf(history).role \in {"user", "tool"},
           Tokens(sess.messages \o New) > Limit(Ctx, MaxTokens), Overflow(sess.messages \o New),
           UNCHANGED <<model, history, cut, disk, count>>
    PROVE  Inv'
<1> DEFINE ms == sess.messages \o New
           limit == Limit(Ctx, MaxTokens)
           w == WarmStart(ms, limit)
           kv == Rendered(w)
           t == Tokens(w)
           lost == [sess EXCEPT !.messages = ms, !.kv = <<>>, !.cur_pos = 0]
           anew == [sess EXCEPT !.messages = w, !.kv = kv, !.cur_pos = t, !.restored = FALSE]
<1>1. /\ Numbered(ms) /\ LastOf(ms) = LastOf(history) /\ Tokens(ms) \in Nat
  BY GrownIs
<1>2. /\ sess \in SessionType /\ ms \in Seq(Turns) /\ ms # <<>> /\ Head(ms).role = "system"
      /\ Head(ms) = ms[1] /\ count.ids \in Nat
  <2> HIDE DEF ms
  <2> QED BY <1>1 DEF Inv, Types, SessionType, Numbered
<1>3. w \in Fitted(ms)
  <2> HIDE DEF ms, limit
  <2> QED BY <1>2, WarmStartFits
<1> HIDE DEF w
<1>4. /\ w \in Seq(Turns) /\ w # <<>> /\ w[1] = ms[1] /\ LastOf(w) = LastOf(ms)
      /\ \A i \in 1 .. Len(w) : w[i] = Summary \/ \E j \in 1 .. Len(ms) : w[i] = ms[j]
  <2> HIDE DEF ms
  <2> QED BY <1>3 DEF Fitted
<1>5. Numbered(w)
  <2> HIDE DEF ms
  <2>1. Head(w) = w[1]
    BY <1>4
  <2>2. \A i \in 1 .. Len(w) : w[i].id <= count.ids /\ (w[i].role = "assistant" => w[i].id # 0)
    <3> SUFFICES ASSUME NEW i \in 1 .. Len(w)
                 PROVE  w[i].id <= count.ids /\ (w[i].role = "assistant" => w[i].id # 0)
      OBVIOUS
    <3>1. CASE w[i] = Summary
      BY <1>2, <3>1, SystemIs
    <3>2. CASE w[i] # Summary
      <4>1. PICK j \in 1 .. Len(ms) : w[i] = ms[j]
        BY <1>4, <3>2
      <4> QED BY <1>1, <4>1 DEF Numbered
    <3> QED BY <3>1, <3>2
  <2> QED BY <1>2, <1>4, <2>1, <2>2 DEF Numbered
<1>6. /\ kv \in Seq(Blocks) /\ kv # <<>> /\ LastOf(kv).of = LastOf(w)
      /\ Said(kv) = w /\ Tokens(kv) = t
  BY <1>4, RenderedSays
<1>7. t \in Nat
  BY <1>4, Sizes0, TokensNat
<1>8. \/ /\ sess' = lost /\ live' = "idle" /\ UNCHANGED held
      \/ ~(t > limit) /\ Attach(anew)
  <2>1. ClearedAt(sess.cur_pos) = 0 /\ 0 + t = t
    BY <1>7 DEF ClearedAt
  <2> QED BY <2>1 DEF Overflow, w
<1>9. AsideOK
  BY DEF AsideOK, Inv, Types
<1>10. Tokens(ms) > limit
  OBVIOUS
<1> HIDE DEF ms, kv, t
<1>11. CASE sess' = lost /\ live' = "idle" /\ UNCHANGED held
  <2>1. lost \in SessionType /\ lost.messages = ms /\ lost.kv = <<>> /\ lost.cur_pos = 0
    <3>1. <<>> \in Seq(Blocks)
      OBVIOUS
    <3> QED BY <1>2, <3>1 DEF SessionType
  <2> HIDE DEF lost
  <2>2. Conversation'
    BY <1>11 DEF Inv, Conversation
  <2>3. Numbered(sess.messages)'
    BY <1>1, <1>11, <2>1 DEF Numbered
  <2>4. Idle'
    BY <1>10, <1>11, <2>1 DEF Idle
  <2>5. /\ history' \in Seq(Turns) /\ held' \in 0 .. Len(history')
        /\ count' \in [ids : Nat, edits : Nat, saves : Nat]
    BY <1>11 DEF Inv, Types
  <2>6. sess'.cur_pos = Tokens(sess'.kv) /\ sess'.cur_pos <= Ctx
    BY <1>11, <2>1, TokensNone, LlamaSessionAssumption
  <2> QED BY <1>11, <2>1, <2>2, <2>3, <2>4, <2>5, <2>6, RestInv
<1>12. CASE ~(t > limit) /\ Attach(anew)
  <2>1. /\ anew \in SessionType /\ anew.messages = w /\ anew.kv = kv /\ anew.cur_pos = t
        /\ anew.restored = FALSE
    BY <1>2, <1>4, <1>6, <1>7 DEF SessionType
  <2> HIDE DEF anew
  <2>2. t <= Ctx
    <3>1. limit \in Nat /\ limit <= Ctx /\ Ctx \in Nat
      BY LimitIs, LlamaSessionAssumption
    <3> HIDE DEF limit
    <3> QED BY <1>7, <1>12, <3>1
  <2>3. LastOf(anew.kv).of = LastOf(history)
    BY <1>1, <1>4, <1>6, <2>1
  <2> QED BY <1>5, <1>6, <1>9, <1>12, <2>1, <2>2, <2>3, AttachInv
<1> QED BY <1>8, <1>11, <1>12

LEMMA ContinueInv == ASSUME Inv, Continue PROVE Inv'
<1> DEFINE ms == sess.messages \o New
<1>1. /\ live \in {"idle", "broken"} /\ held > 0 /\ held < Len(history)
      /\ history # <<>> /\ LastOf(history).role \in {"user", "tool"}
      /\ UNCHANGED <<model, history, cut, disk, count>>
  BY DEF Continue, Asking
<1>2. \/ live = "broken" /\ sess' = [sess EXCEPT !.messages = ms] /\ UNCHANGED <<live, held>>
      \/ live = "idle" /\ Tokens(ms) > Limit(Ctx, MaxTokens) /\ Overflow(ms)
      \/ live = "idle" /\ Tokens(ms) <= Limit(Ctx, MaxTokens) /\ Extend(ms)
  BY Zenon DEF Continue
<1>3. CASE live = "broken" /\ sess' = [sess EXCEPT !.messages = ms] /\ UNCHANGED <<live, held>>
  <2>1. Numbered(ms)
    BY <1>1, GrownIs
  <2> HIDE DEF ms
  <2>2. sess' \in SessionType /\ sess'.messages = ms
    BY <1>3, <2>1 DEF Inv, Types, SessionType, Numbered
  <2>3. Conversation'
    BY <1>1, <1>3 DEF Inv, Conversation
  <2>4. Numbered(sess.messages)'
    BY <1>1, <2>1, <2>2 DEF Numbered
  <2>5. Idle'
    BY <1>3 DEF Idle
  <2>6. /\ history' \in Seq(Turns) /\ held' \in 0 .. Len(history')
        /\ count' \in [ids : Nat, edits : Nat, saves : Nat]
    BY <1>1, <1>3 DEF Inv, Types
  <2> QED BY <1>1, <1>3, <2>2, <2>3, <2>4, <2>5, <2>6, RestInv
<1>4. CASE live = "idle" /\ Tokens(ms) > Limit(Ctx, MaxTokens) /\ Overflow(ms)
  BY <1>1, <1>4, OverflowInv
<1>5. CASE live = "idle" /\ Tokens(ms) <= Limit(Ctx, MaxTokens) /\ Extend(ms)
  BY <1>1, <1>5, ExtendInv
<1> HIDE DEF ms
<1> QED BY <1>2, <1>3, <1>4, <1>5

-----------------------------------------------------------------------------
(* The theorems.                                                           *)

LEMMA StepInv == ASSUME Inv, [Next]_vars PROVE Inv'
<1>1. CASE UNCHANGED vars
  <2>1. UNCHANGED <<model, history, held, live, sess, cut, disk, count>>
    BY <1>1 DEF vars
  <2>2. Types' /\ Conversation' /\ Store'
    BY <2>1 DEF Inv, Types, Conversation, Store
  <2>3. Sessions'
    BY <2>1 DEF Inv, Sessions, Starting, Pulling, Idle, Transcribed, NoReplyBehind
  <2> QED BY <2>2, <2>3 DEF Inv
<1>2. CASE \E size \in Sizes : Say(size) \/ Answer(size)
  BY <1>2, SayInv, AnswerInv
<1>3. CASE Edit
  BY <1>3, EditInv
<1>4. CASE \E m \in Models : Load(m)
  BY <1>4, LoadInv
<1>5. CASE Unload \/ Evict
  BY <1>5, UnloadInv, EvictInv
<1>6. CASE Start \/ ColdBatch \/ ColdTrim \/ Continue
  BY <1>6, StartInv, ColdBatchInv, ColdTrimInv, ContinueInv
<1>7. CASE \E n \in Lengths, c \in {{}, {count.ids + 1}} : PullEnd(Lesser(n, Room), c)
  <2>1. PICK n \in Lengths, c \in {{}, {count.ids + 1}} : PullEnd(Lesser(n, Room), c)
    BY <1>7
  <2> DEFINE k == Lesser(n, Room)
  <2>2. live = "pulling"
    BY <2>1 DEF PullEnd
  <2>3. sess.cur_pos \in Nat /\ sess.cur_pos <= Ctx /\ Ctx \in Nat
    BY <2>2, LlamaSessionAssumption DEF Inv, Types, Sessions
  <2>4. Room \in Nat
    BY <2>3 DEF Room
  <2>5. n \in Nat
    BY LlamaSessionAssumption
  <2>6. k \in Nat /\ k <= Room
    BY <2>4, <2>5 DEF Lesser
  <2>7. PullEnd(k, c)
    BY <2>1
  <2> HIDE DEF k
  <2> QED BY <2>6, <2>7, PullEndInv
<1> QED BY <1>1, <1>2, <1>3, <1>4, <1>5, <1>6, <1>7 DEF Next

\* The invariant holds whenever a session is used.
THEOREM Invariance == Spec => []Inv
<1>1. Init => Inv
  BY InitInv
<1>2. Inv /\ [Next]_vars => Inv'
  BY StepInv
<1> QED BY <1>1, <1>2, PTL DEF Spec

\* The cache of a session that can be used holds its transcript, and the position is the
\* end of it, whatever was appended, refused, compacted, saved and restored
\* (append_messages, session.rs:1672-1690, 1787-1870).
THEOREM CacheIsTranscript == Spec => []KvIsTranscript
<1>1. Inv => KvIsTranscript
  BY InvKv
<1> QED BY <1>1, Invariance, PTL

\* A reply is generated right behind the message it answers, under the system prompt,
\* whatever truncation and compaction took away (truncate.rs, compaction.rs).
THEOREM RepliesAnswer == Spec => []AskedIsAnswered
<1>1. Inv => AskedIsAnswered
  BY InvAsked
<1> QED BY <1>1, Invariance, PTL

\* What a step may do to a transcript that is cut to size.
LEMMA StepDrops ==
    ASSUME Inv, Next, live = "starting", NEW i \in DOMAIN sess.messages, NEW j \in DOMAIN sess.messages,
           Paired(sess.messages, i, j), sess'.messages # <<>>
    PROVE  sess.messages[i] \in ToSet(sess'.messages) <=> sess.messages[j] \in ToSet(sess'.messages)
<1> DEFINE ms == sess.messages
           d == DropOldestRound(ms, Oldest(ms))
           s == [sess EXCEPT !.messages = d]
<1>1. ms \in Seq(Turns) /\ i \in 1 .. Len(ms) /\ j \in 1 .. Len(ms)
  BY DEF Inv, Types
<1>2. /\ ms[i] \in ToSet(d) <=> ms[j] \in ToSet(d)
      /\ s.messages = d
  BY <1>1, ColdDrop
<1>3. ms[i] \in ToSet(ms) /\ ms[j] \in ToSet(ms)
  BY DEF ToSet
<1>4. ColdBatch \/ ColdTrim
  BY DEF Next, Say, Answer, Edit, Load, Unload, SaveAll, Evict, Start, PullEnd, Continue, Resting
<1>5. sess' = s \/ Prefill(ms)
  BY <1>4 DEF ColdBatch, ColdTrim
<1> HIDE DEF d, s
<1>6. CASE sess' = s
  BY <1>2, <1>6
<1>7. CASE Prefill(ms)
  <2>1. sess' = Fresh(ms) \/ sess' = NoSession
    BY <1>7 DEF Prefill, Attach, Refuse
  <2>2. sess'.messages = ms
    BY <2>1 DEF Fresh, NoSession
  <2> QED BY <1>3, <2>2
<1> QED BY <1>5, <1>6, <1>7

\* Truncation of a new session never separates a call from its result
\* (drop_oldest_round, truncate.rs:180-184).
THEOREM RoundsStayWhole == Spec => DropsWholeRounds
<1>1. Inv /\ [Next]_vars =>
         [live = "starting" =>
             \A i, j \in DOMAIN sess.messages :
                (Paired(sess.messages, i, j) /\ sess'.messages # <<>>) =>
                   (sess.messages[i] \in ToSet(sess'.messages)
                      <=> sess.messages[j] \in ToSet(sess'.messages))]_vars
  BY StepDrops
<1> QED BY <1>1, Invariance, PTL DEF Spec, DropsWholeRounds

LEMMA WithinIs == ASSUME Inv PROVE StoreWithinBudget <=> Within(disk)
<1>1. DOMAIN disk = 1 .. Len(disk)
  BY DEF Inv, Types
<1> QED BY <1>1 DEF StoreWithinBudget, Within

\* A step that saves ends with a sweep, any other leaves the store as it is.
LEMMA StepStores ==
    ASSUME Inv, [Next]_vars
    PROVE  \/ Within(disk')
           \/ UNCHANGED disk /\ count'.saves = count.saves
<1>1. CASE \/ \E m \in Models : Load(m)
           \/ Unload
  BY <1>1, SaveAllInv DEF Load, Unload
<1>2. CASE ~ \/ \E m \in Models : Load(m)
             \/ Unload
  <2> DEFINE Kept == UNCHANGED disk /\ count'.saves = count.saves
  <2>1. count \in [ids : Nat, edits : Nat, saves : Nat]
    BY DEF Inv, Types
  <2>2. ASSUME UNCHANGED vars PROVE Kept
    BY <2>2 DEF vars
  <2>3. ASSUME NEW size \in Sizes, Say(size) \/ Answer(size) PROVE Kept
    BY <2>1, <2>3 DEF Say, Answer, NextId
  <2>4. ASSUME Edit PROVE Kept
    BY <2>1, <2>4 DEF Edit
  <2>5. ASSUME Evict \/ Start \/ ColdBatch \/ ColdTrim \/ Continue PROVE Kept
    BY <2>5 DEF Evict, Start, ColdBatch, ColdTrim, Continue
  <2>6. ASSUME NEW n, NEW c, PullEnd(n, c) PROVE Kept
    BY <2>1, <2>6 DEF PullEnd, NextId
  <2> HIDE DEF Kept
  <2>7. Kept
    BY <1>2, <2>2, <2>3, <2>4, <2>5, <2>6 DEF Next
  <2> QED BY <2>7 DEF Kept
<1> QED BY <1>1, <1>2

\* Every pass that saves leaves the store within its budget, however it was before
\* (enforce_budget, store.rs:86-101).
THEOREM SweepsKeepBudget == Spec => [][count'.saves # count.saves => StoreWithinBudget']_vars
<1>1. Inv /\ [Next]_vars /\ Inv' => [count'.saves # count.saves => StoreWithinBudget']_vars
  <2> SUFFICES ASSUME Inv, Next, Inv', count'.saves # count.saves PROVE StoreWithinBudget'
    OBVIOUS
  <2>1. Within(disk')
    BY StepStores
  <2>2. DOMAIN disk' = 1 .. Len(disk')
    BY DEF Inv, Types
  <2> QED BY <2>1, <2>2 DEF StoreWithinBudget, Within
<1> QED BY <1>1, Invariance, PTL DEF Spec

\* A store that is within its budget when the program begins stays so.
THEOREM StoreKeepsBudget == Spec /\ StoreWithinBudget => []StoreWithinBudget
<1>1. Inv /\ Inv' /\ [Next]_vars /\ StoreWithinBudget => StoreWithinBudget'
  <2> SUFFICES ASSUME Inv, Inv', [Next]_vars, StoreWithinBudget PROVE StoreWithinBudget'
    OBVIOUS
  <2>1. CASE Within(disk')
    <3>1. DOMAIN disk' = 1 .. Len(disk')
      BY DEF Inv, Types
    <3> QED BY <2>1, <3>1 DEF StoreWithinBudget, Within
  <2>2. CASE UNCHANGED disk
    BY <2>2 DEF StoreWithinBudget
  <2> QED BY <2>1, <2>2, StepStores
<1> QED BY <1>1, Invariance, PTL DEF Spec
=============================================================================
