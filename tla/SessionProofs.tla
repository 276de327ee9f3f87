--------------------------- MODULE SessionProofs ---------------------------
(***************************************************************************)
(* Theorems about module ApiSession: the session its owner edits and runs  *)
(* on several engines is at every step what its event log says, and a turn *)
(* an engine accepts runs on the transcript it was dispatched with.        *)
(***************************************************************************)
EXTENDS ApiSession, SequenceTheorems, FiniteSetTheorems, WellFoundedInduction, TLAPS

-----------------------------------------------------------------------------
(* Sequences and values that are built element by element.                 *)

LEMMA LeastNat ==
    ASSUME NEW T \in SUBSET Nat, T # {}
    PROVE  \E n \in T : \A m \in T : n <= m
<1> DEFINE R == OpToRel(<, Nat)
<1>1. IsWellFoundedOn(R, Nat)
  BY NatLessThanWellFounded
<1>2. \E x \in T : \A y \in T : ~ (<<y, x>> \in R)
  <2> HIDE DEF R
  <2> QED BY <1>1, WFMin
<1>3. \A x, y \in Nat : y < x => <<y, x>> \in R
  BY DEF OpToRel
<1> HIDE DEF R
<1>4. PICK x \in T : \A y \in T : ~ (<<y, x>> \in R)
  BY <1>2
<1>5. \A y \in T : ~ (y < x)
  BY <1>3, <1>4
<1> QED BY <1>4, <1>5

\* What holds of 0 and is handed on by each number below n holds up to n.
LEMMA UpTo ==
    ASSUME NEW n \in Nat, NEW T, 0 \in T, \A k \in 1 .. n : k - 1 \in T => k \in T
    PROVE  \A k \in 0 .. n : k \in T
<1> DEFINE U == {k \in 0 .. n : k \notin T}
<1> SUFFICES ASSUME U # {} PROVE FALSE
  OBVIOUS
<1>1. PICK k \in U : \A m \in U : k <= m
  <2>1. U \in SUBSET Nat
    OBVIOUS
  <2> HIDE DEF U
  <2> QED BY <2>1, LeastNat
<1>2. k \in 1 .. n /\ k - 1 \in 0 .. n /\ ~(k <= k - 1)
  OBVIOUS
<1>3. k - 1 \notin U
  <2> HIDE DEF U
  <2> QED BY <1>1, <1>2
<1> QED BY <1>2, <1>3

\* What holds of the empty sequence and is kept by Append holds of every sequence.
LEMMA BySequence ==
    ASSUME NEW X, NEW T, <<>> \in T,
           \A w \in Seq(X), x \in X : w \in T => Append(w, x) \in T
    PROVE  Seq(X) \subseteq T
<1> SUFFICES ASSUME NEW w \in Seq(X) PROVE w \in T
  OBVIOUS
<1> DEFINE n == Len(w)
           P == {k \in 0 .. n : SubSeq(w, 1, k) \in T}
<1>1. n \in Nat
  OBVIOUS
<1>2. 0 \in P
  <2>1. SubSeq(w, 1, 0) = <<>>
    OBVIOUS
  <2>2. 0 \in 0 .. n
    BY <1>1
  <2>3. SubSeq(w, 1, 0) \in T
    BY <2>1
  <2> HIDE DEF n
  <2> QED BY <2>2, <2>3
<1>3. ASSUME NEW k \in 1 .. n, k - 1 \in P PROVE k \in P
  <2>1. /\ SubSeq(w, 1, k - 1) \in Seq(X) /\ w[k] \in X
        /\ SubSeq(w, 1, k) = Append(SubSeq(w, 1, k - 1), w[k])
    BY <1>1
  <2>2. SubSeq(w, 1, k - 1) \in T /\ k \in 0 .. n
    BY <1>1, <1>3
  <2>3. Append(SubSeq(w, 1, k - 1), w[k]) \in T
    BY <2>1, <2>2
  <2> QED BY <2>1, <2>2, <2>3
<1>4. \A k \in 0 .. n : k \in P
  <2> HIDE DEF P, n
  <2> QED BY <1>1, <1>2, <1>3, UpTo
<1>5. n \in P
  <2>1. n \in 0 .. n
    BY <1>1
  <2> HIDE DEF P, n
  <2> QED BY <1>4, <2>1
<1>6. SubSeq(w, 1, n) = w
  OBVIOUS
<1> QED BY <1>5, <1>6

\* w starts at z and each of its first k steps is the one that `step` tells.
Follows(w, k, z, step) == w[0] = z /\ \A i \in 1 .. k : w[i] = step[i][w[i - 1]]

\* Whatever the steps, there is a course of any length that follows them.
LEMMA CourseExists ==
    ASSUME NEW A, NEW z \in A, NEW n \in Nat, NEW step \in [1 .. n -> [A -> A]]
    PROVE  \E w \in [0 .. n -> A] : Follows(w, n, z, step)
<1> DEFINE T == {k \in 0 .. n : \E w \in [0 .. k -> A] : Follows(w, k, z, step)}
<1>1. 0 \in T
  <2> DEFINE w == [i \in 0 .. 0 |-> z]
  <2>1. w \in [0 .. 0 -> A] /\ Follows(w, 0, z, step)
    BY DEF Follows
  <2> HIDE DEF w
  <2> QED BY <2>1
<1>2. ASSUME NEW k \in 1 .. n, k - 1 \in T PROVE k \in T
  <2>1. PICK w \in [0 .. k - 1 -> A] : Follows(w, k - 1, z, step)
    BY <1>2
  <2> DEFINE g == [i \in 0 .. k |-> IF i = k THEN step[k][w[k - 1]] ELSE w[i]]
  <2>2. step[k] \in [A -> A] /\ w[k - 1] \in A
    OBVIOUS
  <2>3. g \in [0 .. k -> A]
    BY <2>2
  <2>4. g[0] = z
    BY <2>1 DEF Follows
  <2>5. ASSUME NEW i \in 1 .. k PROVE g[i] = step[i][g[i - 1]]
    <3>1. CASE i = k
      BY <3>1
    <3>2. CASE i # k
      <4>1. i \in 1 .. k - 1 /\ g[i] = w[i] /\ g[i - 1] = w[i - 1]
        BY <3>2
      <4> QED BY <4>1, <2>1 DEF Follows
    <3> QED BY <3>1, <3>2
  <2>6. Follows(g, k, z, step)
    <3> HIDE DEF g
    <3> QED BY <2>4, <2>5 DEF Follows
  <2> HIDE DEF g
  <2> QED BY <2>3, <2>6
<1>3. \A k \in 0 .. n : k \in T
  <2> HIDE DEF T
  <2> QED BY <1>1, <1>2, UpTo
<1> QED BY <1>3

\* Two courses agree as far as their steps do.
LEMMA CoursesAgree ==
    ASSUME NEW n \in Nat, NEW z, NEW a, NEW b, NEW st, NEW su,
           Follows(a, n, z, st), Follows(b, n, z, su),
           \A i \in 1 .. n : st[i] = su[i]
    PROVE  \A i \in 0 .. n : a[i] = b[i]
<1> DEFINE T == {k \in 0 .. n : a[k] = b[k]}
<1>1. 0 \in T
  BY DEF Follows
<1>2. ASSUME NEW k \in 1 .. n, k - 1 \in T PROVE k \in T
  BY <1>2 DEF Follows
<1>3. \A k \in 0 .. n : k \in T
  <2> HIDE DEF T
  <2> QED BY <1>1, <1>2, UpTo
<1> QED BY <1>3

-----------------------------------------------------------------------------
(* What of a list is in a set.                                             *)

\* What each element does to the selection.
Selections(X, w, S) ==
    [i \in 1 .. Len(w) |-> [q \in Seq(X) |-> IF w[i] \in S THEN Append(q, w[i]) ELSE q]]

LEMMA AmongIs ==
    ASSUME NEW X, NEW S, NEW w \in Seq(X)
    PROVE  \E f : /\ f \in [0 .. Len(w) -> Seq(X)]
                  /\ Follows(f, Len(w), <<>>, Selections(X, w, S)) /\ Among(w, S) = f[Len(w)]
<1> DEFINE n == Len(w)
           step == Selections(X, w, S)
           After(q, i) == IF w[i] \in S THEN Append(q, w[i]) ELSE q
           upTo[i \in 0 .. n] ==
              IF i = 0 THEN <<>>
              ELSE IF w[i] \in S THEN Append(upTo[i - 1], w[i]) ELSE upTo[i - 1]
<1>1. n \in Nat /\ \A i \in 1 .. n : w[i] \in X
  OBVIOUS
<1>2. step \in [1 .. n -> [Seq(X) -> Seq(X)]]
  BY <1>1 DEF Selections
<1>3. PICK f \in [0 .. n -> Seq(X)] : Follows(f, n, <<>>, step)
  <2>1. <<>> \in Seq(X)
    OBVIOUS
  <2> HIDE DEF n, step
  <2> QED BY <1>1, <1>2, <2>1, CourseExists
<1>4. \A i \in 1 .. n : f[i] = After(f[i - 1], i)
  <2> SUFFICES ASSUME NEW i \in 1 .. n PROVE f[i] = After(f[i - 1], i)
    OBVIOUS
  <2>1. f[i - 1] \in Seq(X)
    BY <1>1
  <2>2. step[i] = [q \in Seq(X) |-> After(q, i)]
    BY DEF Selections
  <2>3. f[i] = step[i][f[i - 1]]
    BY <1>3 DEF Follows
  <2> HIDE DEF step, After
  <2> QED BY <2>1, <2>2, <2>3
<1>5. f = [i \in 0 .. n |-> IF i = 0 THEN <<>>
                            ELSE IF w[i] \in S THEN Append(f[i - 1], w[i]) ELSE f[i - 1]]
  <2>1. \A i \in 0 .. n : f[i] = IF i = 0 THEN <<>>
                                 ELSE IF w[i] \in S THEN Append(f[i - 1], w[i]) ELSE f[i - 1]
    <3> SUFFICES ASSUME NEW i \in 0 .. n
                 PROVE f[i] = IF i = 0 THEN <<>> ELSE After(f[i - 1], i)
      OBVIOUS
    <3>1. f[0] = <<>> /\ (i # 0 => i \in 1 .. n)
      BY <1>1, <1>3 DEF Follows
    <3> HIDE DEF After
    <3> QED BY <1>4, <3>1
  <2> HIDE DEF n
  <2> QED BY <2>1
<1>6. upTo = [i \in 0 .. n |-> IF i = 0 THEN <<>>
                               ELSE IF w[i] \in S THEN Append(upTo[i - 1], w[i]) ELSE upTo[i - 1]]
  BY <1>5 DEF upTo
<1>7. Among(w, S) = upTo[n]
  BY DEF Among
<1> HIDE DEF upTo
<1>8. upTo[0] = <<>> /\ \A i \in 1 .. n : upTo[i] = After(upTo[i - 1], i)
  <2>1. 0 \in 0 .. n /\ \A i \in 1 .. n : i \in 0 .. n /\ i # 0
    BY <1>1
  <2> HIDE DEF n
  <2> QED BY <1>6, <2>1
<1> DEFINE T == {k \in 0 .. n : upTo[k] = f[k]}
<1>9. \A k \in 0 .. n : upTo[k] = f[k]
  <2>1. 0 \in T
    BY <1>1, <1>3, <1>8 DEF Follows
  <2>2. ASSUME NEW k \in 1 .. n, k - 1 \in T PROVE k \in T
    <3>1. upTo[k - 1] = f[k - 1] /\ k \in 0 .. n
      BY <1>1, <2>2
    <3> HIDE DEF After
    <3> QED BY <1>4, <1>8, <3>1
  <2>3. \A k \in 0 .. n : k \in T
    <3> HIDE DEF T, n
    <3> QED BY <1>1, <2>1, <2>2, UpTo
  <2> QED BY <2>3
<1>10. n \in 0 .. n
  BY <1>1
<1> QED BY <1>3, <1>7, <1>9, <1>10

LEMMA AmongNone == ASSUME NEW S PROVE Among(<<>>, S) = <<>>
<1> DEFINE X == {}
<1>1. <<>> \in Seq(X) /\ Len(<<>>) = 0
  OBVIOUS
<1>2. PICK f : Follows(f, Len(<<>>), <<>>, Selections(X, <<>>, S)) /\ Among(<<>>, S) = f[Len(<<>>)]
  <2> HIDE DEF X
  <2> QED BY <1>1, AmongIs
<1> QED BY <1>1, <1>2 DEF Follows

\* Whether an element is in S or in R makes no difference where they agree on the elements.
LEMMA AmongAlike ==
    ASSUME NEW X, NEW w \in Seq(X), NEW S, NEW R, \A i \in 1 .. Len(w) : w[i] \in S <=> w[i] \in R
    PROVE  Among(w, S) = Among(w, R)
<1> DEFINE n == Len(w)
           st == Selections(X, w, S)
           su == Selections(X, w, R)
<1>1. n \in Nat
  OBVIOUS
<1>2. PICK f : Follows(f, n, <<>>, st) /\ Among(w, S) = f[n]
  BY AmongIs
<1>3. PICK g : Follows(g, n, <<>>, su) /\ Among(w, R) = g[n]
  BY AmongIs
<1>4. \A i \in 1 .. n : st[i] = su[i]
  BY DEF Selections
<1>5. \A i \in 0 .. n : f[i] = g[i]
  <2> HIDE DEF n, st, su
  <2> QED BY <1>1, <1>2, <1>3, <1>4, CoursesAgree
<1>6. n \in 0 .. n
  BY <1>1
<1> QED BY <1>2, <1>3, <1>5, <1>6

LEMMA AmongMore ==
    ASSUME NEW X, NEW S, NEW w \in Seq(X), NEW x \in X
    PROVE  /\ Among(w, S) \in Seq(X)
           /\ Among(Append(w, x), S) = IF x \in S THEN Append(Among(w, S), x) ELSE Among(w, S)
<1> DEFINE n == Len(w)
           more == Append(w, x)
           st == Selections(X, w, S)
           su == Selections(X, more, S)
<1>1. /\ n \in Nat /\ more \in Seq(X) /\ Len(more) = n + 1 /\ more[n + 1] = x
      /\ \A i \in 1 .. n : more[i] = w[i]
  OBVIOUS
<1>0. n \in Nat
  OBVIOUS
<1>2. PICK f : f \in [0 .. n -> Seq(X)] /\ Follows(f, n, <<>>, st) /\ Among(w, S) = f[n]
  BY AmongIs
<1>3. PICK g : Follows(g, n + 1, <<>>, su) /\ Among(more, S) = g[n + 1]
  <2>1. \E g : Follows(g, Len(more), <<>>, su) /\ Among(more, S) = g[Len(more)]
    <3> HIDE DEF more
    <3> QED BY <1>1, AmongIs
  <2> QED BY <1>1, <2>1
<1>4. Follows(g, n, <<>>, su)
  <2> HIDE DEF n, su, more
  <2> QED BY <1>0, <1>3 DEF Follows
<1>5. \A i \in 1 .. n : st[i] = su[i]
  BY <1>1 DEF Selections
<1>6. f[n] = g[n] /\ f[n] \in Seq(X)
  <2>1. \A i \in 0 .. n : f[i] = g[i]
    <3> HIDE DEF n, st, su, more
    <3> QED BY <1>0, <1>2, <1>4, <1>5, CoursesAgree
  <2> HIDE DEF n
  <2> QED BY <1>0, <1>2, <2>1
<1>7. g[n + 1] = IF x \in S THEN Append(g[n], x) ELSE g[n]
  <2>1. su[n + 1] = [q \in Seq(X) |-> IF x \in S THEN Append(q, x) ELSE q]
    <3>1. n + 1 \in 1 .. Len(more)
      BY <1>0, <1>1
    <3> HIDE DEF n, more
    <3> QED BY <1>1, <3>1 DEF Selections
  <2>2. n + 1 \in 1 .. n + 1 /\ (n + 1) - 1 = n
    BY <1>0
  <2>3. g[n + 1] = su[n + 1][g[n]]
    <3> HIDE DEF su, n, more
    <3> QED BY <1>3, <2>2 DEF Follows
  <2> HIDE DEF su, n, more
  <2> QED BY <1>6, <2>1, <2>3
<1> QED BY <1>2, <1>3, <1>6, <1>7

LEMMA AmongType ==
    ASSUME NEW X, NEW S, NEW w \in Seq(X)
    PROVE  Among(w, S) \in Seq(X)
<1>1. PICK f : /\ f \in [0 .. Len(w) -> Seq(X)]
               /\ Follows(f, Len(w), <<>>, Selections(X, w, S)) /\ Among(w, S) = f[Len(w)]
  BY AmongIs
<1>2. Len(w) \in 0 .. Len(w)
  OBVIOUS
<1> QED BY <1>1, <1>2

\* Names for two operators, by which the following fact can be cited.
Joined(p, q) == p \o q
More(p, x) == Append(p, x)

LEMMA JoinMore ==
    ASSUME NEW X, NEW p \in Seq(X), NEW q \in Seq(X), NEW x \in X
    PROVE  More(Joined(p, q), x) = Joined(p, More(q, x))
BY DEF Joined, More

LEMMA AmongJoinMore ==
    ASSUME NEW X, NEW S, NEW p \in Seq(X), NEW q \in Seq(X), NEW x \in X,
           Among(p \o q, S) = Among(p, S) \o Among(q, S)
    PROVE  Among(p \o Append(q, x), S) = Among(p, S) \o Among(Append(q, x), S)
<1>1. p \o q \in Seq(X) /\ Append(p \o q, x) = p \o Append(q, x)
  <2>1. More(Joined(p, q), x) = Joined(p, More(q, x))
    BY JoinMore
  <2>2. Append(p \o q, x) = p \o Append(q, x)
    BY <2>1, Zenon DEF Joined, More
  <2>3. p \o q \in Seq(X)
    OBVIOUS
  <2> QED BY <2>2, <2>3
<1> DEFINE r == p \o q
<1>2. r \in Seq(X)
  BY <1>1
<1>3. Among(Append(r, x), S) = IF x \in S THEN Append(Among(r, S), x) ELSE Among(r, S)
  <2> HIDE DEF r
  <2> QED BY <1>2, AmongMore
<1>4. Among(Append(q, x), S) = IF x \in S THEN Append(Among(q, S), x) ELSE Among(q, S)
  BY AmongMore
<1> DEFINE u == Among(p, S)
           v == Among(q, S)
<1>5. u \in Seq(X) /\ v \in Seq(X)
  BY AmongType
<1>6. Append(u \o v, x) = u \o Append(v, x)
  <2> HIDE DEF u, v
  <2>1. More(Joined(u, v), x) = Joined(u, More(v, x))
    BY <1>5, JoinMore
  <2> QED BY <2>1, Zenon DEF Joined, More
<1>7. Among(p \o Append(q, x), S) = IF x \in S THEN Append(u \o v, x) ELSE u \o v
  BY <1>1, <1>3
<1> QED BY <1>4, <1>6, <1>7

LEMMA AmongJoin ==
    ASSUME NEW X, NEW S, NEW a \in Seq(X), NEW b \in Seq(X)
    PROVE  Among(a \o b, S) = Among(a, S) \o Among(b, S)
<1> DEFINE T == {t \in Seq(X) : Among(a \o t, S) = Among(a, S) \o Among(t, S)}
<1>1. <<>> \in T
  <2>1. a \o <<>> = a /\ Among(a, S) \in Seq(X) /\ Among(<<>>, S) = <<>>
    BY AmongType, AmongNone
  <2> QED BY <2>1
<1>2. ASSUME NEW w \in Seq(X), NEW x \in X, w \in T PROVE Append(w, x) \in T
  <2>1. Among(a \o w, S) = Among(a, S) \o Among(w, S)
    BY <1>2
  <2>2. Among(a \o Append(w, x), S) = Among(a, S) \o Among(Append(w, x), S)
    <3> HIDE DEF T
    <3> QED BY <2>1, AmongJoinMore
  <2>3. Append(w, x) \in Seq(X)
    OBVIOUS
  <2> QED BY <2>2, <2>3
<1>3. b \in T
  <2> HIDE DEF T
  <2> QED BY <1>1, <1>2, BySequence
<1> QED BY <1>3

LEMMA AmongAll ==
    ASSUME NEW S, NEW w \in Seq(S)
    PROVE  Among(w, S) = w
<1> DEFINE T == {t \in Seq(S) : Among(t, S) = t}
<1>1. <<>> \in T
  BY AmongNone
<1>2. ASSUME NEW t \in Seq(S), NEW x \in S, t \in T PROVE Append(t, x) \in T
  BY <1>2, AmongMore
<1>3. w \in T
  <2> HIDE DEF T
  <2> QED BY <1>1, <1>2, BySequence
<1> QED BY <1>3

\* A selection holds what the set holds.
LEMMA AmongIn ==
    ASSUME NEW X, NEW S, NEW w \in Seq(X)
    PROVE  Among(w, S) \in Seq(X \cap S)
<1> DEFINE T == {t \in Seq(X) : Among(t, S) \in Seq(X \cap S)}
<1>1. <<>> \in T
  <2>1. <<>> \in Seq(X) /\ <<>> \in Seq(X \cap S)
    OBVIOUS
  <2> QED BY <2>1, AmongNone
<1>2. ASSUME NEW t \in Seq(X), NEW x \in X, t \in T PROVE Append(t, x) \in T
  <2>1. Among(Append(t, x), S) = IF x \in S THEN Append(Among(t, S), x) ELSE Among(t, S)
    BY AmongMore
  <2>2. Among(t, S) \in Seq(X \cap S) /\ Append(t, x) \in Seq(X)
    BY <1>2
  <2>3. Among(Append(t, x), S) \in Seq(X \cap S)
    BY <2>1, <2>2
  <2> QED BY <2>2, <2>3
<1>3. w \in T
  <2> HIDE DEF T
  <2> QED BY <1>1, <1>2, BySequence
<1> QED BY <1>3

-----------------------------------------------------------------------------
(* Sequences without repetition.                                           *)

LEMMA Injective ==
    ASSUME NEW X, NEW w \in Seq(X)
    PROVE  /\ IsInjective(w) <=> \A i, j \in 1 .. Len(w) : w[i] = w[j] => i = j
           /\ DOMAIN w = 1 .. Len(w)
           /\ \A v : v \in Range(w) <=> \E i \in 1 .. Len(w) : v = w[i]
BY DEF IsInjective, Range

\* A selection repeats nothing that the list did not, and adds nothing.
LEMMA AmongKeeps ==
    ASSUME NEW X, NEW S, NEW w \in Seq(X)
    PROVE  /\ Range(Among(w, S)) \subseteq Range(w)
           /\ IsInjective(w) => IsInjective(Among(w, S))
<1> DEFINE T == {t \in Seq(X) : /\ Range(Among(t, S)) \subseteq Range(t)
                                /\ IsInjective(t) => IsInjective(Among(t, S))}
<1>1. <<>> \in T
  <2>1. Among(<<>>, S) = <<>> /\ <<>> \in Seq(X)
    BY AmongNone
  <2> QED BY <2>1
<1>2. ASSUME NEW t \in Seq(X), NEW x \in X, t \in T PROVE Append(t, x) \in T
  <2> DEFINE u == Append(t, x)
             a == Among(t, S)
             b == Among(u, S)
  <2>1. /\ u \in Seq(X) /\ a \in Seq(X) /\ b \in Seq(X)
        /\ b = IF x \in S THEN Append(a, x) ELSE a
    BY AmongMore, AmongType
  <2>2. /\ Len(u) = Len(t) + 1 /\ u[Len(t) + 1] = x /\ \A i \in 1 .. Len(t) : u[i] = t[i]
        /\ Len(t) \in Nat
    OBVIOUS
  <2>3. \A v \in Range(t) : v \in Range(u)
    <3> HIDE DEF u
    <3> QED BY <2>1, <2>2, Injective
  <2>4. x \in Range(u)
    <3>1. Len(t) + 1 \in 1 .. Len(u) /\ x = u[Len(t) + 1]
      BY <2>2
    <3> HIDE DEF u
    <3> QED BY <2>1, <3>1, Injective
  <2>5. IsInjective(u) => IsInjective(t) /\ x \notin Range(t)
    <3> SUFFICES ASSUME IsInjective(u) PROVE IsInjective(t) /\ x \notin Range(t)
      OBVIOUS
    <3> HIDE DEF u
    <3>1. \A i, j \in 1 .. Len(u) : u[i] = u[j] => i = j
      BY <2>1, Injective
    <3>2. \A i, j \in 1 .. Len(t) : t[i] = t[j] => i = j
      BY <2>2, <3>1
    <3>3. \A i \in 1 .. Len(t) : x # t[i]
      BY <2>2, <3>1
    <3> QED BY <3>2, <3>3, Injective
  <2>6. Range(a) \subseteq Range(t) /\ (IsInjective(t) => IsInjective(a))
    BY <1>2
  <2>7. CASE x \notin S
    <3>1. b = a
      BY <2>1, <2>7
    <3> HIDE DEF a, b, u
    <3>2. Range(b) \subseteq Range(u) /\ (IsInjective(u) => IsInjective(b))
      BY <2>3, <2>5, <2>6, <3>1
    <3> QED BY <2>1, <3>2 DEF u, b
  <2>8. CASE x \in S
    <3>1. b = Append(a, x)
      BY <2>1, <2>8
    <3> HIDE DEF a
    <3>2. /\ Len(b) = Len(a) + 1 /\ b[Len(a) + 1] = x /\ \A i \in 1 .. Len(a) : b[i] = a[i]
          /\ Len(a) \in Nat
      BY <2>1, <3>1
    <3> HIDE DEF b, u
    <3>3. Range(b) \subseteq Range(u)
      <4> SUFFICES ASSUME NEW v \in Range(b) PROVE v \in Range(u)
        OBVIOUS
      <4>0. PICK i \in 1 .. Len(b) : v = b[i]
        <5>1. DOMAIN b = 1 .. Len(b)
          BY <2>1
        <5> QED BY <5>1 DEF Range
      <4>1. CASE i = Len(a) + 1
        BY <2>4, <3>2, <4>0, <4>1
      <4>2. CASE i # Len(a) + 1
        <5>1. i \in 1 .. Len(a) /\ b[i] = a[i]
          BY <3>2, <4>2
        <5>2. a[i] \in Range(a)
          BY <2>1, <5>1, Injective
        <5> QED BY <2>3, <2>6, <4>0, <5>1, <5>2
      <4> QED BY <4>1, <4>2
    <3>4. ASSUME IsInjective(u) PROVE IsInjective(b)
      <4>1. IsInjective(a) /\ x \notin Range(a)
        BY <2>5, <2>6, <3>4
      <4>2. ASSUME NEW i \in 1 .. Len(b), NEW j \in 1 .. Len(b), b[i] = b[j] PROVE i = j
        <5>1. /\ \A k, l \in 1 .. Len(a) : a[k] = a[l] => k = l
              /\ \A k \in 1 .. Len(a) : a[k] # x
          BY <2>1, <4>1, Injective
        <5> QED BY <3>2, <4>2, <5>1
      <4> QED BY <2>1, <4>2, Injective
    <3> QED BY <2>1, <3>3, <3>4 DEF u, b
  <2> QED BY <2>7, <2>8
<1>3. w \in T
  <2> HIDE DEF T
  <2> QED BY <1>1, <1>2, BySequence
<1> QED BY <1>3

\* To select all but one of a list without repetition is to remove it.
LEMMA AmongDrop ==
    ASSUME NEW X, NEW w \in Seq(X), IsInjective(w), NEW k \in 1 .. Len(w)
    PROVE  Among(w, Range(w) \ {w[k]}) = RemoveAt(w, k)
<1> DEFINE S == Range(w) \ {w[k]}
           a == SubSeq(w, 1, k - 1)
           b == SubSeq(w, k + 1, Len(w))
           m == <<w[k]>>
<1>1. /\ Len(w) \in Nat /\ Len(a) = k - 1 /\ Len(b) = Len(w) - k
      /\ \A i \in 1 .. Len(a) : a[i] = w[i]
      /\ \A i \in 1 .. Len(b) : b[i] = w[k + i]
      /\ a \in Seq(X) /\ b \in Seq(X) /\ m \in Seq(X)
  OBVIOUS
<1>2. \A i \in 1 .. Len(w) : i # k => w[i] \in S
  BY Injective
<1>3. a \in Seq(S)
  <2>1. \A i \in 1 .. Len(a) : a[i] \in S
    BY <1>1, <1>2
  <2> HIDE DEF S, a
  <2> QED BY <1>1, <2>1
<1>4. b \in Seq(S)
  <2>1. \A i \in 1 .. Len(b) : b[i] \in S
    BY <1>1, <1>2
  <2> HIDE DEF S, b
  <2> QED BY <1>1, <2>1
<1>5. w = (a \o m) \o b
  <2> DEFINE v == (a \o m) \o b
  <2>1. /\ v \in Seq(X) /\ Len(v) = Len(w)
        /\ \A i \in 1 .. Len(w) : v[i] = IF i < k THEN a[i] ELSE IF i = k THEN w[k] ELSE b[i - k]
    <3>1. a \o m \in Seq(X) /\ Len(a \o m) = k
          /\ \A i \in 1 .. k : (a \o m)[i] = IF i < k THEN a[i] ELSE w[k]
      BY <1>1
    <3> DEFINE am == a \o m
    <3> HIDE DEF a, b, m, am
    <3> QED BY <1>1, <3>1 DEF am
  <2>2. \A i \in 1 .. Len(w) : v[i] = w[i]
    <3> HIDE DEF a, b, v
    <3> QED BY <1>1, <2>1
  <2> HIDE DEF v
  <2> QED BY <2>1, <2>2, SeqEqual DEF v
<1>6. Among(m, S) = <<>>
  <2>1. m = Append(<<>>, w[k]) /\ w[k] \notin S /\ w[k] \in X
    OBVIOUS
  <2>2. Among(<<>>, S) = <<>> /\ <<>> \in Seq(X)
    BY AmongNone
  <2> HIDE DEF S, m
  <2> DEFINE e == <<>>
             x == w[k]
  <2>3. e \in Seq(X) /\ x \in X /\ x \notin S
    BY <2>1, <2>2
  <2> HIDE DEF e, x
  <2>4. Among(Append(e, x), S) = Among(e, S)
    BY <2>3, AmongMore
  <2> QED BY <2>1, <2>2, <2>4 DEF e, x
<1>7. Among(a, S) = a /\ Among(b, S) = b
  BY <1>3, <1>4, AmongAll
<1>8. Among((a \o m) \o b, S) = (Among(a, S) \o Among(m, S)) \o Among(b, S)
  <2>1. a \o m \in Seq(X)
    BY <1>1
  <2> HIDE DEF a, b, m, S
  <2>2. Among(a \o m, S) = Among(a, S) \o Among(m, S)
    BY <1>1, AmongJoin
  <2> DEFINE am == a \o m
  <2>3. Among(am \o b, S) = Among(am, S) \o Among(b, S)
    <3>1. am \in Seq(X)
      BY <2>1
    <3> HIDE DEF am
    <3> QED BY <1>1, <3>1, AmongJoin
  <2> QED BY <2>2, <2>3
<1>9. a \o <<>> = a
  BY <1>1
<1>10. RemoveAt(w, k) = a \o b
  BY DEF RemoveAt
<1> HIDE DEF a, b, m, S
<1>11. Among(w, S) = a \o b
  BY <1>5, <1>6, <1>7, <1>8, <1>9
<1> QED BY <1>10, <1>11 DEF S

-----------------------------------------------------------------------------
(* The event log.                                                          *)

\* f[n] is what the first n of the events make of the log.
Replays(f, log, es) ==
    f[0] = log /\ \A i \in 1 .. Len(es) : f[i] = Replayed(f[i - 1], es[i])

LEMMA ReplayIs ==
    ASSUME NEW X, NEW log, NEW es \in Seq(X)
    PROVE  \E f : Replays(f, log, es) /\ Replay(log, es) = f[Len(es)]
<1> DEFINE n == Len(es)
           Along(g, k) == g = [i \in 0 .. k |-> IF i = 0 THEN log ELSE Replayed(g[i - 1], es[i])]
           upTo[i \in 0 .. n] == IF i = 0 THEN log ELSE Replayed(upTo[i - 1], es[i])
           T == {k \in 0 .. n : \E g : Along(g, k)}
<1>1. n \in Nat
  OBVIOUS
<1>2. 0 \in T
  <2> DEFINE g == [i \in 0 .. 0 |-> log]
  <2>1. Along(g, 0)
    OBVIOUS
  <2> HIDE DEF g, Along
  <2> QED BY <1>1, <2>1
<1>3. ASSUME NEW k \in 1 .. n, k - 1 \in T PROVE k \in T
  <2>1. PICK f : Along(f, k - 1)
    BY <1>3
  <2> DEFINE g == [i \in 0 .. k |-> IF i = k THEN Replayed(f[k - 1], es[k]) ELSE f[i]]
  <2>2. \A i \in 0 .. k - 1 : g[i] = f[i]
    BY <1>1
  <2>3. \A i \in 0 .. k : g[i] = IF i = 0 THEN log ELSE Replayed(g[i - 1], es[i])
    <3> SUFFICES ASSUME NEW i \in 0 .. k
                 PROVE g[i] = IF i = 0 THEN log ELSE Replayed(g[i - 1], es[i])
      OBVIOUS
    <3>1. CASE i = k
      <4>1. g[k] = Replayed(f[k - 1], es[k]) /\ g[k - 1] = f[k - 1] /\ k # 0
        BY <1>1, <2>2
      <4> QED BY <3>1, <4>1
    <3>2. CASE i # k
      <4>1. i \in 0 .. k - 1 /\ (i # 0 => i - 1 \in 0 .. k - 1)
        BY <1>1, <3>2
      <4>2. f[i] = IF i = 0 THEN log ELSE Replayed(f[i - 1], es[i])
        BY <2>1, <4>1
      <4> HIDE DEF g
      <4> QED BY <2>2, <4>1, <4>2
    <3> QED BY <3>1, <3>2
  <2>4. g = [i \in 0 .. k |-> g[i]]
    OBVIOUS
  <2> HIDE DEF g
  <2>5. Along(g, k)
    BY <2>3, <2>4
  <2> HIDE DEF Along
  <2> QED BY <1>1, <2>5
<1>4. \A k \in 0 .. n : k \in T
  <2> HIDE DEF T, n
  <2> QED BY <1>1, <1>2, <1>3, UpTo
<1>5. PICK f : Along(f, n)
  <2>1. n \in T
    <3>1. n \in 0 .. n
      BY <1>1
    <3> HIDE DEF T, n
    <3> QED BY <1>4, <3>1
  <2> HIDE DEF Along
  <2> QED BY <2>1
<1>6. upTo = [i \in 0 .. n |-> IF i = 0 THEN log ELSE Replayed(upTo[i - 1], es[i])]
  BY <1>5 DEF upTo
<1>7. Replay(log, es) = upTo[n]
  BY DEF Replay
<1> HIDE DEF upTo
<1>8. upTo[0] = log
  <2>1. 0 \in 0 .. n
    BY <1>1
  <2> HIDE DEF n
  <2> QED BY <1>6, <2>1
<1>9. \A i \in 1 .. n : upTo[i] = Replayed(upTo[i - 1], es[i])
  <2>1. \A i \in 1 .. n : i \in 0 .. n /\ i # 0
    BY <1>1
  <2> HIDE DEF n
  <2> QED BY <1>6, <2>1
<1> QED BY <1>7, <1>8, <1>9 DEF Replays

LEMMA ReplayNone == ASSUME NEW log PROVE Replay(log, <<>>) = log
<1> DEFINE X == {}
           e == <<>>
<1>1. e \in Seq(X) /\ Len(e) = 0
  OBVIOUS
<1> HIDE DEF e, X
<1>2. PICK f : Replays(f, log, e) /\ Replay(log, e) = f[Len(e)]
  BY <1>1, ReplayIs
<1> QED BY <1>1, <1>2 DEF Replays, e

LEMMA ReplayMore ==
    ASSUME NEW log, NEW X, NEW es \in Seq(X), NEW ev \in X
    PROVE  Replay(log, Append(es, ev)) = Replayed(Replay(log, es), ev)
<1> DEFINE n == Len(es)
           more == Append(es, ev)
<1>1. /\ n \in Nat /\ more \in Seq(X) /\ Len(more) = n + 1 /\ more[n + 1] = ev
      /\ \A i \in 1 .. n : more[i] = es[i]
  OBVIOUS
<1>2. PICK f : Replays(f, log, es) /\ Replay(log, es) = f[n]
  BY ReplayIs
<1>3. PICK g : Replays(g, log, more) /\ Replay(log, more) = g[n + 1]
  <2> HIDE DEF more
  <2> QED BY <1>1, ReplayIs
<1> DEFINE T == {k \in 0 .. n : f[k] = g[k]}
<1>4. 0 \in T
  BY <1>1, <1>2, <1>3 DEF Replays
<1>5. ASSUME NEW k \in 1 .. n, k - 1 \in T PROVE k \in T
  <2>1. f[k - 1] = g[k - 1] /\ k \in 0 .. n /\ k \in 1 .. n + 1
    BY <1>1, <1>5
  <2>2. f[k] = Replayed(f[k - 1], es[k])
    BY <1>2 DEF Replays
  <2>3. g[k] = Replayed(g[k - 1], es[k])
    <3> HIDE DEF more, n
    <3> QED BY <1>1, <1>3, <2>1 DEF Replays
  <2> QED BY <2>1, <2>2, <2>3
<1>6. n \in T
  <2>1. n \in 0 .. n
    BY <1>1
  <2> HIDE DEF T, n
  <2>2. \A k \in 0 .. n : k \in T
    BY <1>1, <1>4, <1>5, UpTo
  <2> QED BY <2>1, <2>2
<1>7. g[n + 1] = Replayed(g[n], ev)
  <2>1. n + 1 \in 1 .. n + 1 /\ (n + 1) - 1 = n
    BY <1>1
  <2> HIDE DEF more, n
  <2> QED BY <1>1, <1>3, <2>1 DEF Replays
<1> QED BY <1>2, <1>3, <1>6, <1>7

LEMMA ReplayOne == ASSUME NEW log, NEW ev PROVE Replay(log, <<ev>>) = Replayed(log, ev)
<1> DEFINE e == <<>>
           X == {ev}
<1>1. e \in Seq(X) /\ ev \in X /\ <<ev>> = Append(e, ev)
  OBVIOUS
<1>2. Replay(log, e) = log
  BY ReplayNone
<1> HIDE DEF e, X
<1>3. Replay(log, Append(e, ev)) = Replayed(Replay(log, e), ev)
  BY <1>1, ReplayMore
<1> QED BY <1>1, <1>2, <1>3

LEMMA ReplayTwo ==
    ASSUME NEW log, NEW a, NEW b
    PROVE  Replay(log, <<a, b>>) = Replayed(Replayed(log, a), b)
<1> DEFINE X == {a, b}
           e == <<a>>
<1>1. e \in Seq(X) /\ b \in X /\ <<a, b>> = Append(e, b)
  OBVIOUS
<1>2. Replay(log, e) = Replayed(log, a)
  BY ReplayOne
<1> HIDE DEF e, X
<1>3. Replay(log, Append(e, b)) = Replayed(Replay(log, e), b)
  BY <1>1, ReplayMore
<1> QED BY <1>1, <1>2, <1>3

-----------------------------------------------------------------------------
(* The values of the variables.                                            *)

\* Messages a session stores, and those a transcript shows.
Texts == {"ask", "rewritten", "audio", "answer", "partial", "call", "result"}
Stored == [role : {"user", "tool", "assistant"}, text : Texts, calls : Seq(Nat), answers : Int]
Prompts == {Message("system", x, <<>>, NoCall) : x \in {1, Override}}
Msgs == Stored \cup Prompts

Logs == [system : Systems, tools : Tools, records : Seq(Stored), active : Seq(Nat)]
\* A log whose projection names its records, each at most once.
Sound(x) ==
    /\ x \in Logs
    /\ \A i \in 1 .. Len(x.active) : x.active[i] \in 1 .. Len(x.records)
    /\ IsInjective(x.active)

-----------------------------------------------------------------------------
(* What the operations on a session log.                                   *)

LEMMA Sentences ==
    /\ {Ask, Rewritten, Recording, Answer, Partial} \subseteq Stored
    /\ \A c \in Int : ToolResult(c) \in Stored
    /\ \A c \in Nat : CallOf(c) \in Stored
    /\ Pushed \subseteq Stored
    /\ Ask.role = "user" /\ Rewritten.role = "user" /\ Recording.role = "user"
    /\ Answer.role = "assistant" /\ Partial.role = "assistant"
    /\ \A c \in Nat : CallOf(c).role = "assistant"
<1>1. \A c \in Nat : <<c>> \in Seq(Nat)
  OBVIOUS
<1>2. <<>> \in Seq(Nat) /\ NoCall \in Int
  BY DEF NoCall
<1>3. {Ask, Rewritten, Recording, Answer, Partial} \subseteq Stored
  BY <1>2 DEF Ask, Rewritten, Recording, Answer, Partial, User, Assistant, Message, Stored, Texts
<1>4. \A c \in Int : ToolResult(c) \in Stored
  BY <1>2 DEF ToolResult, Message, Stored, Texts
<1>5. \A c \in Nat : CallOf(c) \in Stored
  BY <1>1, <1>2 DEF CallOf, Calling, Message, Stored, Texts
<1>6. Pushed \subseteq Stored
  <2>1. \A c \in 1 .. MaxRecords : c \in Int
    BY BoundsAssumption
  <2> QED BY <1>3, <1>4, <2>1 DEF Pushed
<1>7. /\ Ask.role = "user" /\ Rewritten.role = "user" /\ Recording.role = "user"
      /\ Answer.role = "assistant" /\ Partial.role = "assistant"
      /\ \A c \in Nat : CallOf(c).role = "assistant"
  BY DEF Ask, Rewritten, Recording, Answer, Partial, CallOf, Calling, User, Assistant, Message
<1> QED BY <1>3, <1>4, <1>5, <1>6, <1>7

\* A log is its four parts.
LEMMA LogIs ==
    /\ \A x \in Logs :
          /\ x = [system |-> x.system, tools |-> x.tools, records |-> x.records,
                  active |-> x.active]
          /\ x.system \in Systems /\ x.tools \in Tools
          /\ x.records \in Seq(Stored) /\ x.active \in Seq(Nat)
    /\ \A x, y \in Logs : /\ x.system = y.system /\ x.tools = y.tools
                          /\ x.records = y.records /\ x.active = y.active
                          => x = y
<1>1. \A x \in Logs :
          /\ x = [system |-> x.system, tools |-> x.tools, records |-> x.records,
                  active |-> x.active]
          /\ x.system \in Systems /\ x.tools \in Tools
          /\ x.records \in Seq(Stored) /\ x.active \in Seq(Nat)
  BY DEF Logs
<1>2. \A x, y \in Logs : /\ x.system = y.system /\ x.tools = y.tools
                          /\ x.records = y.records /\ x.active = y.active
                          => x = y
  BY <1>1
<1> QED BY <1>1, <1>2

\* The parts of a log with one or several messages added.
LEMMA AddedIs ==
    ASSUME NEW x \in Logs, NEW m \in Stored
    PROVE  LET y == Added(x, m) IN
           /\ y \in Logs /\ y.system = x.system /\ y.tools = x.tools
           /\ y.records = Append(x.records, m)
           /\ y.active = Append(x.active, Len(x.records) + 1)
<1>1. x.records \in Seq(Stored) /\ x.active \in Seq(Nat) /\ Len(x.records) + 1 \in Nat
  BY DEF Logs
<1>2. Append(x.records, m) \in Seq(Stored) /\ Append(x.active, Len(x.records) + 1) \in Seq(Nat)
  BY <1>1
<1> QED BY <1>2 DEF Added, Logs

Fresh(x, n) == [k \in 1 .. n |-> Len(x.records) + k]

LEMMA AddedAllIs ==
    ASSUME NEW x \in Logs, NEW ms \in Seq(Stored)
    PROVE  LET y == AddedAll(x, ms) IN
           /\ y \in Logs /\ y.system = x.system /\ y.tools = x.tools
           /\ y.records = x.records \o ms
           /\ y.active = x.active \o Fresh(x, Len(ms))
           /\ Fresh(x, Len(ms)) \in Seq(Nat) /\ Len(Fresh(x, Len(ms))) = Len(ms)
<1>1. /\ x.records \in Seq(Stored) /\ x.active \in Seq(Nat) /\ Len(x.records) \in Nat
      /\ Len(ms) \in Nat /\ DOMAIN ms = 1 .. Len(ms)
  BY DEF Logs
<1>2. Fresh(x, Len(ms)) \in Seq(Nat) /\ Len(Fresh(x, Len(ms))) = Len(ms)
  BY <1>1 DEF Fresh
<1>3. /\ AddedAll(x, ms) = [x EXCEPT !.records = @ \o ms, !.active = @ \o Fresh(x, Len(ms))]
  BY <1>1 DEF AddedAll, Fresh
<1>4. x.records \o ms \in Seq(Stored) /\ x.active \o Fresh(x, Len(ms)) \in Seq(Nat)
  BY <1>1, <1>2
<1> QED BY <1>2, <1>3, <1>4 DEF Logs

LEMMA AddedAllMore ==
    ASSUME NEW x \in Logs, NEW ms \in Seq(Stored), NEW m \in Stored
    PROVE  AddedAll(x, Append(ms, m)) = Added(AddedAll(x, ms), m)
<1> DEFINE y == AddedAll(x, ms)
           z == Added(y, m)
           v == AddedAll(x, Append(ms, m))
           n == Len(ms)
<1>1. /\ x.records \in Seq(Stored) /\ x.active \in Seq(Nat) /\ Len(x.records) \in Nat /\ n \in Nat
      /\ Append(ms, m) \in Seq(Stored) /\ Len(Append(ms, m)) = n + 1
  BY DEF Logs
<1>2. /\ y \in Logs /\ y.system = x.system /\ y.tools = x.tools /\ y.records = x.records \o ms
      /\ y.active = x.active \o Fresh(x, n) /\ Fresh(x, n) \in Seq(Nat) /\ Len(Fresh(x, n)) = n
  BY AddedAllIs
<1>3. /\ v \in Logs /\ v.system = x.system /\ v.tools = x.tools
      /\ v.records = x.records \o Append(ms, m)
      /\ v.active = x.active \o Fresh(x, n + 1)
  <2> DEFINE q == Append(ms, m)
  <2>1. q \in Seq(Stored) /\ Len(q) = n + 1
    BY <1>1
  <2> HIDE DEF q
  <2>2. /\ AddedAll(x, q) \in Logs /\ AddedAll(x, q).system = x.system
        /\ AddedAll(x, q).tools = x.tools
        /\ AddedAll(x, q).records = x.records \o q
        /\ AddedAll(x, q).active = x.active \o Fresh(x, Len(q))
    BY <2>1, AddedAllIs
  <2> QED BY <2>1, <2>2 DEF q
<1>4. /\ z \in Logs /\ z.system = y.system /\ z.tools = y.tools
      /\ z.records = Append(y.records, m) /\ z.active = Append(y.active, Len(y.records) + 1)
  BY <1>2, AddedIs
<1>5. x.records \o Append(ms, m) = Append(x.records \o ms, m)
  <2>1. More(Joined(x.records, ms), m) = Joined(x.records, More(ms, m))
    BY <1>1, JoinMore
  <2> QED BY <2>1, Zenon DEF Joined, More
<1>6. Len(y.records) = Len(x.records) + n
  BY <1>1, <1>2
<1>7. Fresh(x, n + 1) = Append(Fresh(x, n), Len(x.records) + n + 1)
  <2> DEFINE a == Fresh(x, n + 1)
             b == Append(Fresh(x, n), Len(x.records) + n + 1)
  <2>1. a \in Seq(Nat) /\ Len(a) = n + 1 /\ \A i \in 1 .. n + 1 : a[i] = Len(x.records) + i
    BY <1>1 DEF Fresh
  <2>2. b \in Seq(Nat) /\ Len(b) = n + 1 /\ \A i \in 1 .. n + 1 : b[i] = Len(x.records) + i
    <3> DEFINE w == Fresh(x, n)
               l == Len(x.records) + n + 1
    <3>1. \A i \in 1 .. n : w[i] = Len(x.records) + i
      BY <1>1 DEF Fresh
    <3>2. w \in Seq(Nat) /\ Len(w) = n /\ l \in Nat
      BY <1>1, <1>2
    <3> HIDE DEF w
    <3>3. /\ Append(w, l) \in Seq(Nat) /\ Len(Append(w, l)) = n + 1
          /\ \A i \in 1 .. n : Append(w, l)[i] = w[i]
          /\ Append(w, l)[n + 1] = l
      BY <3>2
    <3> HIDE DEF l
    <3>4. \A i \in 1 .. n + 1 : Append(w, l)[i] = Len(x.records) + i
      <4> SUFFICES ASSUME NEW i \in 1 .. n + 1 PROVE Append(w, l)[i] = Len(x.records) + i
        OBVIOUS
      <4>1. CASE i = n + 1
        <5>0. Len(x.records) \in Nat /\ n \in Nat
          BY <1>1
        <5>1. \A r, k \in Nat : r + k + 1 = r + (k + 1)
          OBVIOUS
        <5>2. l = Len(x.records) + i
          BY <5>0, <5>1, <4>1, Zenon DEF l
        <5> QED BY <3>3, <4>1, <5>2
      <4>2. CASE i # n + 1
        <5>1. i \in 1 .. n
          BY <1>1, <4>2
        <5> QED BY <3>1, <3>3, <5>1
      <4> QED BY <4>1, <4>2
    <3> QED BY <3>3, <3>4 DEF w, l
  <2> HIDE DEF a, b
  <2>3. Len(a) = Len(b) /\ \A i \in 1 .. Len(a) : a[i] = b[i]
    BY <1>1, <2>1, <2>2
  <2>4. a = b
    BY <2>1, <2>2, <2>3, SeqEqual
  <2> QED BY <2>4 DEF a, b
<1>8. x.active \o Fresh(x, n + 1) = Append(y.active, Len(y.records) + 1)
  <2> DEFINE w == Fresh(x, n)
             k == Len(x.records) + n + 1
  <2>1. w \in Seq(Nat) /\ k \in Nat
    BY <1>1, <1>2
  <2> HIDE DEF w, k
  <2>2. More(Joined(x.active, w), k) = Joined(x.active, More(w, k))
    BY <1>1, <2>1, JoinMore
  <2>3. x.active \o Append(w, k) = Append(x.active \o w, k)
    BY <2>2, Zenon DEF Joined, More
  <2> QED BY <1>2, <1>6, <1>7, <2>3 DEF w, k
<1> HIDE DEF y, z, v
<1>9. v.records = z.records /\ v.active = z.active /\ v.system = z.system /\ v.tools = z.tools
  BY <1>2, <1>3, <1>4, <1>5, <1>8
<1>10. v = z
  BY <1>3, <1>4, <1>9, LogIs
<1> QED BY <1>10 DEF v, z, y

\* What Added logs, and what AddedAll does.
LEMMA ReplayAdded ==
    ASSUME NEW x, NEW m
    PROVE  Replay(x, <<MessageAdded(m)>>) = Added(x, m)
<1>1. Replayed(x, MessageAdded(m)) = Added(x, m)
  BY DEF Replayed, MessageAdded, Added
<1> QED BY <1>1, ReplayOne

LEMMA ReplayAdditions ==
    ASSUME NEW x \in Logs, NEW ms \in Seq(Stored)
    PROVE  Replay(x, Additions(ms)) = AddedAll(x, ms)
<1> DEFINE T == {q \in Seq(Stored) : Replay(x, Additions(q)) = AddedAll(x, q)}
           Adds == {MessageAdded(m) : m \in Stored}
<1>1. <<>> \in T
  <2>1. Additions(<<>>) = <<>>
    BY DEF Additions
  <2>2. AddedAll(x, <<>>) = x
    <3> DEFINE e == <<>>
               y == AddedAll(x, e)
    <3>1. e \in Seq(Stored) /\ Len(e) = 0
      OBVIOUS
    <3>2. x.records \in Seq(Stored) /\ x.active \in Seq(Nat)
      BY DEF Logs
    <3>3. x.records \o e = x.records /\ x.active \o e = x.active
      BY <3>2
    <3>4. Fresh(x, 0) = <<>>
      BY DEF Fresh
    <3>5. y \in Logs /\ y.system = x.system /\ y.tools = x.tools
          /\ y.records = x.records \o e /\ y.active = x.active \o Fresh(x, Len(e))
      <4> HIDE DEF e
      <4> QED BY <3>1, AddedAllIs
    <3>6. y.records = x.records /\ y.active = x.active
      BY <3>1, <3>3, <3>4, <3>5
    <3> HIDE DEF y
    <3>7. y = x
      BY <3>5, <3>6, LogIs
    <3> QED BY <3>7 DEF y
  <2>3. <<>> \in Seq(Stored)
    OBVIOUS
  <2> QED BY <2>1, <2>2, <2>3, ReplayNone
<1>2. ASSUME NEW q \in Seq(Stored), NEW m \in Stored, q \in T PROVE Append(q, m) \in T
  <2>1. Additions(q) \in Seq(Adds) /\ MessageAdded(m) \in Adds
    BY DEF Additions
  <2>2. Additions(Append(q, m)) = Append(Additions(q), MessageAdded(m))
    <3> DEFINE a == Additions(Append(q, m))
               b == Append(Additions(q), MessageAdded(m))
    <3>1. /\ a \in Seq(Adds) /\ Len(a) = Len(q) + 1
          /\ \A i \in 1 .. Len(q) + 1 :
                a[i] = IF i = Len(q) + 1 THEN MessageAdded(m) ELSE MessageAdded(q[i])
      BY DEF Additions
    <3>2. /\ b \in Seq(Adds) /\ Len(b) = Len(q) + 1
          /\ \A i \in 1 .. Len(q) + 1 :
                b[i] = IF i = Len(q) + 1 THEN MessageAdded(m) ELSE MessageAdded(q[i])
      <4>1. Len(Additions(q)) = Len(q) /\ \A i \in 1 .. Len(q) : Additions(q)[i] = MessageAdded(q[i])
        BY DEF Additions
      <4> HIDE DEF Adds
      <4> QED BY <2>1, <4>1
    <3> HIDE DEF a, b, Adds
    <3>3. a = b
      BY <3>1, <3>2, SeqEqual
    <3> QED BY <3>3 DEF a, b
  <2>3. Replay(x, Append(Additions(q), MessageAdded(m)))
           = Replayed(Replay(x, Additions(q)), MessageAdded(m))
    <3> HIDE DEF Adds
    <3> QED BY <2>1, ReplayMore
  <2>4. \A y : Replayed(y, MessageAdded(m)) = Added(y, m)
    BY DEF Replayed, MessageAdded, Added
  <2>5. AddedAll(x, Append(q, m)) = Added(AddedAll(x, q), m)
    BY AddedAllMore
  <2>6. Replay(x, Additions(q)) = AddedAll(x, q)
    BY <1>2
  <2>7. Append(q, m) \in Seq(Stored)
    OBVIOUS
  <2>8. Replay(x, Additions(Append(q, m))) = AddedAll(x, Append(q, m))
    BY <2>2, <2>3, <2>4, <2>5, <2>6, Zenon
  <2> QED BY <2>7, <2>8
<1>3. ms \in T
  <2> HIDE DEF T
  <2> QED BY <1>1, <1>2, BySequence
<1> QED BY <1>3

LEMMA Sequences ==
    ASSUME NEW X
    PROVE  /\ <<>> \in Seq(X) /\ Len(<<>>) = 0
           /\ \A w \in Seq(X) : Len(w) \in Nat /\ DOMAIN w = 1 .. Len(w)
           /\ \A w \in Seq(X) : \A i \in 1 .. Len(w) : w[i] \in X
           /\ \A w \in Seq(X), v \in X :
                 /\ Append(w, v) \in Seq(X) /\ Len(Append(w, v)) = Len(w) + 1
                 /\ Append(w, v)[Len(w) + 1] = v
                 /\ \A i \in 1 .. Len(w) : Append(w, v)[i] = w[i]
           /\ \A w, v \in Seq(X) :
                 /\ w \o v \in Seq(X) /\ Len(w \o v) = Len(w) + Len(v)
                 /\ \A i \in 1 .. Len(w) : (w \o v)[i] = w[i]
                 /\ \A i \in 1 .. Len(v) : (w \o v)[Len(w) + i] = v[i]
           /\ \A w, v \in Seq(X) :
                 Len(w) = Len(v) /\ (\A i \in 1 .. Len(w) : w[i] = v[i]) => w = v
<1>1. \A w, v \in Seq(X) : Len(w) = Len(v) /\ (\A i \in 1 .. Len(w) : w[i] = v[i]) => w = v
  BY SeqEqual
<1> QED BY <1>1

\* What replace, remove and restore log.
LEMMA ReplayReplaced ==
    ASSUME NEW x, Sound(x), NEW k \in 1 .. Len(x.active), NEW m
    PROVE  Replay(x, <<MessageReplaced(x.active[k], m)>>)
              = [x EXCEPT !.records = Append(x.records, m),
                          !.active = [x.active EXCEPT ![k] = Len(x.records) + 1]]
<1> DEFINE new == Len(x.records) + 1
           old == x.active[k]
<1>1. x.active \in Seq(Nat) /\ IsInjective(x.active) /\ DOMAIN x.active = 1 .. Len(x.active)
  BY DEF Sound, Logs
<1>2. InSlot(x.active, old, new) = [x.active EXCEPT ![k] = new]
  <2> HIDE DEF new
  <2> QED BY <1>1 DEF InSlot, IsInjective
<1>3. Replayed(x, MessageReplaced(old, m))
         = [x EXCEPT !.records = Append(x.records, m), !.active = InSlot(x.active, old, new)]
  <2> HIDE DEF old
  <2> QED BY DEF Replayed, MessageReplaced
<1> HIDE DEF old
<1>4. Replay(x, <<MessageReplaced(old, m)>>) = Replayed(x, MessageReplaced(old, m))
  BY ReplayOne
<1> QED BY <1>2, <1>3, <1>4 DEF old

LEMMA ReplayRemoved ==
    ASSUME NEW x, Sound(x), NEW k \in 1 .. Len(x.active)
    PROVE  Replay(x, <<MessageRemoved(x.active[k])>>) = [x EXCEPT !.active = RemoveAt(x.active, k)]
<1> DEFINE old == x.active[k]
<1>1. x.active \in Seq(Nat) /\ IsInjective(x.active)
  BY DEF Sound, Logs
<1>2. Among(x.active, Range(x.active) \ {old}) = RemoveAt(x.active, k)
  BY <1>1, AmongDrop
<1> HIDE DEF old
<1>3. Replayed(x, MessageRemoved(old)) = [x EXCEPT !.active = Among(@, Range(@) \ {old})]
  BY DEF Replayed, MessageRemoved
<1>4. Replay(x, <<MessageRemoved(old)>>) = Replayed(x, MessageRemoved(old))
  BY ReplayOne
<1> QED BY <1>2, <1>3, <1>4 DEF old

LEMMA ReplayedContext ==
    ASSUME NEW x \in Logs, NEW ids \in Seq(1 .. Len(x.records))
    PROVE  Replayed(x, ContextReplaced(ids)) = [x EXCEPT !.active = ids]
<1>1. DOMAIN x.records = 1 .. Len(x.records)
  BY DEF Logs
<1>2. Among(ids, DOMAIN x.records) = ids
  BY <1>1, AmongAll
<1>3. Replayed(x, ContextReplaced(ids)) = [x EXCEPT !.active = Among(ids, DOMAIN x.records)]
  BY DEF Replayed, ContextReplaced
<1> QED BY <1>2, <1>3

LEMMA ReplayForked ==
    ASSUME NEW x, Sound(x)
    PROVE  /\ Replay(x, <<Forked(0)>>) = x
           /\ \A k \in 1 .. Len(x.active) :
                 Replay(x, <<Forked(x.active[k])>>) = [x EXCEPT !.active = SubSeq(x.active, 1, k)]
<1>1. /\ x.active \in Seq(Nat) /\ IsInjective(x.active) /\ DOMAIN x.active = 1 .. Len(x.active)
      /\ \A i \in 1 .. Len(x.active) : x.active[i] # 0
  BY DEF Sound, Logs
<1>2. Replayed(x, Forked(0)) = x
  <2>1. ~Contains(x.active, 0)
    BY <1>1 DEF Contains
  <2> QED BY <2>1 DEF Replayed, Forked
<1>3. ASSUME NEW k \in 1 .. Len(x.active)
      PROVE Replay(x, <<Forked(x.active[k])>>) = [x EXCEPT !.active = SubSeq(x.active, 1, k)]
  <2> DEFINE at == x.active[k]
             slot == CHOOSE i \in DOMAIN x.active : x.active[i] = at
  <2>1. Contains(x.active, at)
    BY <1>1 DEF Contains
  <2>2. slot = k
    BY <1>1 DEF IsInjective
  <2> HIDE DEF at
  <2>3. Replayed(x, Forked(at)) = [x EXCEPT !.active = SubSeq(x.active, 1, slot)]
    BY <2>1 DEF Replayed, Forked
  <2>4. Replay(x, <<Forked(at)>>) = Replayed(x, Forked(at))
    BY ReplayOne
  <2> HIDE DEF slot
  <2> QED BY <2>2, <2>3, <2>4 DEF at
<1>4. Replay(x, <<Forked(0)>>) = Replayed(x, Forked(0))
  BY ReplayOne
<1> QED BY <1>2, <1>3, <1>4

\* Messages recorded, as edit logs them.
RecordedAll(ms) == [k \in DOMAIN ms |-> MessageRecorded(ms[k])]

LEMMA ReplayRecorded ==
    ASSUME NEW x \in Logs, NEW ms \in Seq(Stored)
    PROVE  Replay(x, RecordedAll(ms)) = [x EXCEPT !.records = x.records \o ms]
<1> DEFINE T == {q \in Seq(Stored) :
                    Replay(x, RecordedAll(q)) = [x EXCEPT !.records = x.records \o q]}
           Evs == {MessageRecorded(m) : m \in Stored}
<1>0. x.records \in Seq(Stored)
  BY DEF Logs
<1>1. <<>> \in T
  <2>1. RecordedAll(<<>>) = <<>>
    BY DEF RecordedAll
  <2>2. x.records \o <<>> = x.records
    BY <1>0
  <2>3. [x EXCEPT !.records = x.records] = x
    BY LogIs
  <2>4. <<>> \in Seq(Stored)
    OBVIOUS
  <2> QED BY <2>1, <2>2, <2>3, <2>4, ReplayNone
<1>2. ASSUME NEW q \in Seq(Stored), NEW m \in Stored, q \in T PROVE Append(q, m) \in T
  <2>1. RecordedAll(q) \in Seq(Evs) /\ MessageRecorded(m) \in Evs
    BY DEF RecordedAll
  <2>2. RecordedAll(Append(q, m)) = Append(RecordedAll(q), MessageRecorded(m))
    <3> DEFINE a == RecordedAll(Append(q, m))
               b == Append(RecordedAll(q), MessageRecorded(m))
    <3>1. /\ a \in Seq(Evs) /\ Len(a) = Len(q) + 1
          /\ \A i \in 1 .. Len(q) + 1 :
                a[i] = IF i = Len(q) + 1 THEN MessageRecorded(m) ELSE MessageRecorded(q[i])
      BY DEF RecordedAll
    <3>2. /\ b \in Seq(Evs) /\ Len(b) = Len(q) + 1
          /\ \A i \in 1 .. Len(q) + 1 :
                b[i] = IF i = Len(q) + 1 THEN MessageRecorded(m) ELSE MessageRecorded(q[i])
      <4>1. /\ Len(RecordedAll(q)) = Len(q)
            /\ \A i \in 1 .. Len(q) : RecordedAll(q)[i] = MessageRecorded(q[i])
        BY DEF RecordedAll
      <4> HIDE DEF Evs
      <4> QED BY <2>1, <4>1
    <3> HIDE DEF a, b, Evs
    <3>3. a = b
      BY <3>1, <3>2, SeqEqual
    <3> QED BY <3>3 DEF a, b
  <2>3. Replay(x, Append(RecordedAll(q), MessageRecorded(m)))
           = Replayed(Replay(x, RecordedAll(q)), MessageRecorded(m))
    <3> HIDE DEF Evs
    <3> QED BY <2>1, ReplayMore
  <2> DEFINE y == [x EXCEPT !.records = x.records \o q]
  <2>4. Replayed(y, MessageRecorded(m)) = [y EXCEPT !.records = Append(y.records, m)]
    <3> HIDE DEF y
    <3> QED BY DEF Replayed, MessageRecorded
  <2>5. x.records \o Append(q, m) = Append(x.records \o q, m)
    <3>1. More(Joined(x.records, q), m) = Joined(x.records, More(q, m))
      BY <1>0, JoinMore
    <3> QED BY <3>1, Zenon DEF Joined, More
  <2>6. y.records = x.records \o q
    BY DEF Logs
  <2>7. [y EXCEPT !.records = Append(y.records, m)] = [x EXCEPT !.records = x.records \o Append(q, m)]
    BY <2>5, <2>6 DEF Logs
  <2>8. Replay(x, RecordedAll(q)) = y
    BY <1>2
  <2>9. Append(q, m) \in Seq(Stored)
    OBVIOUS
  <2> HIDE DEF y
  <2> QED BY <2>2, <2>3, <2>4, <2>7, <2>8, <2>9
<1>3. ms \in T
  <2> HIDE DEF T
  <2> QED BY <1>1, <1>2, BySequence
<1> QED BY <1>3

-----------------------------------------------------------------------------
(* Trimming and editing.                                                   *)

\* Some of the ids of a list, none of them twice if none was.
Part(ids) == {q \in Seq(Range(ids)) : IsInjective(ids) => IsInjective(q)}
Passes(ids, records) ==
    [i \in 1 .. Len(ids) |->
        [q \in Part(ids) |-> Among(q, Range(q) \ Dropped(q, records))]]

LEMMA PartKeeps ==
    ASSUME NEW ids, NEW q \in Part(ids), NEW S
    PROVE  Among(q, S) \in Part(ids)
<1>1. q \in Seq(Range(ids)) /\ (IsInjective(ids) => IsInjective(q))
  BY DEF Part
<1>2. Among(q, S) \in Seq(Range(ids))
  BY <1>1, AmongType
<1>3. IsInjective(q) => IsInjective(Among(q, S))
  BY <1>1, AmongKeeps
<1> QED BY <1>1, <1>2, <1>3 DEF Part

\* What a round boundary leaves is part of what there was.
LEMMA TrimKeeps ==
    ASSUME NEW X, NEW ids \in Seq(X), NEW records
    PROVE  Trim(ids, records) \in Part(ids)
<1> DEFINE n == Len(ids)
           step == Passes(ids, records)
           After(q) == Among(q, Range(q) \ Dropped(q, records))
           left[i \in 0 .. n] ==
              IF i = 0 THEN ids
              ELSE Among(left[i - 1], Range(left[i - 1]) \ Dropped(left[i - 1], records))
<1>1. n \in Nat /\ ids \in Part(ids)
  BY SeqOfRange DEF Part
<1>2. step \in [1 .. n -> [Part(ids) -> Part(ids)]]
  <2>1. \A q \in Part(ids) : Among(q, Range(q) \ Dropped(q, records)) \in Part(ids)
    BY PartKeeps
  <2> QED BY <2>1 DEF Passes
<1>3. PICK f \in [0 .. n -> Part(ids)] : Follows(f, n, ids, step)
  <2> HIDE DEF n, step
  <2> QED BY <1>1, <1>2, CourseExists
<1>4. \A i \in 1 .. n : f[i] = After(f[i - 1])
  <2> SUFFICES ASSUME NEW i \in 1 .. n PROVE f[i] = After(f[i - 1])
    OBVIOUS
  <2>1. f[i - 1] \in Part(ids)
    BY <1>1
  <2>2. step[i] = [q \in Part(ids) |-> After(q)]
    BY DEF Passes
  <2>3. f[i] = step[i][f[i - 1]]
    BY <1>3 DEF Follows
  <2> HIDE DEF step, After
  <2> QED BY <2>1, <2>2, <2>3
<1>5. f = [i \in 0 .. n |-> IF i = 0 THEN ids
              ELSE Among(f[i - 1], Range(f[i - 1]) \ Dropped(f[i - 1], records))]
  <2>1. \A i \in 0 .. n : f[i] = IF i = 0 THEN ids ELSE After(f[i - 1])
    <3> SUFFICES ASSUME NEW i \in 0 .. n PROVE f[i] = IF i = 0 THEN ids ELSE After(f[i - 1])
      OBVIOUS
    <3>1. f[0] = ids /\ (i # 0 => i \in 1 .. n)
      BY <1>1, <1>3 DEF Follows
    <3> HIDE DEF After
    <3> QED BY <1>4, <3>1
  <2> HIDE DEF n
  <2> QED BY <2>1
<1>6. left = [i \in 0 .. n |-> IF i = 0 THEN ids
              ELSE Among(left[i - 1], Range(left[i - 1]) \ Dropped(left[i - 1], records))]
  BY <1>5 DEF left
<1>7. Trim(ids, records) = left[n]
  BY DEF Trim
<1> HIDE DEF left
<1> DEFINE T == {k \in 0 .. n : left[k] \in Part(ids)}
<1>8. left[0] = ids /\ \A i \in 1 .. n : left[i] = After(left[i - 1])
  <2>1. 0 \in 0 .. n /\ \A i \in 1 .. n : i \in 0 .. n /\ i # 0
    BY <1>1
  <2> HIDE DEF n
  <2> QED BY <1>6, <2>1
<1>9. \A k \in 0 .. n : k \in T
  <2>1. 0 \in T
    BY <1>1, <1>8
  <2>2. ASSUME NEW k \in 1 .. n, k - 1 \in T PROVE k \in T
    <3>1. left[k - 1] \in Part(ids) /\ k \in 0 .. n
      BY <1>1, <2>2
    <3>2. After(left[k - 1]) \in Part(ids)
      BY <3>1, PartKeeps
    <3> HIDE DEF After
    <3> QED BY <1>8, <3>1, <3>2
  <2> HIDE DEF T, n
  <2> QED BY <1>1, <2>1, <2>2, UpTo
<1>10. n \in 0 .. n
  BY <1>1
<1> HIDE DEF n, After
<1> QED BY <1>7, <1>9, <1>10

LEMMA TrimSound ==
    ASSUME NEW n, NEW ids \in Seq(1 .. n), IsInjective(ids), NEW records
    PROVE  Trim(ids, records) \in Seq(1 .. n) /\ IsInjective(Trim(ids, records))
<1>1. Trim(ids, records) \in Part(ids)
  BY TrimKeeps
<1>2. Range(ids) \subseteq 1 .. n
  BY RangeOfSeq
<1>3. Trim(ids, records) \in Seq(Range(ids)) /\ IsInjective(Trim(ids, records))
  BY <1>1 DEF Part
<1> QED BY <1>2, <1>3, SeqMonotonic

-----------------------------------------------------------------------------

\* The parts of an edit on its way: ids of the active list up to the cursor, in order,
\* and ids of messages recorded since.
Editing(active, records, e) ==
    /\ e.ids \in Seq(Nat) /\ e.records \in Seq(Stored)
    /\ e.cursor \in 0 .. Len(active)
    /\ Len(records) <= Len(e.records)
    /\ \A i \in 1 .. Len(records) : e.records[i] = records[i]
    /\ \A i \in 1 .. Len(e.ids) :
          \/ e.ids[i] \in Len(records) + 1 .. Len(e.records)
          \/ \E k \in 1 .. e.cursor : e.ids[i] = active[k]
    /\ IsInjective(e.ids)

LEMMA EditStepFound ==
    ASSUME NEW active \in Seq(Nat), NEW records \in Seq(Stored), IsInjective(active),
           \A k \in 1 .. Len(active) : active[k] \in 1 .. Len(records),
           NEW e, Editing(active, records, e), NEW first \in e.cursor + 1 .. Len(active),
           NEW f, f.ids = Append(e.ids, active[first]), f.cursor = first, f.records = e.records
    PROVE  Editing(active, records, f)
<1> DEFINE n == Len(records)
           c == e.cursor
           w == e.ids
           v == f.ids
           x == active[first]
           r == Len(e.records)
<1>1. /\ w \in Seq(Nat) /\ c \in 0 .. Len(active) /\ IsInjective(w) /\ Len(active) \in Nat
      /\ \A i \in 1 .. Len(w) : w[i] \in n + 1 .. r \/ \E k \in 1 .. c : w[i] = active[k]
      /\ n \in Nat /\ e.records \in Seq(Stored) /\ n <= r
      /\ \A i \in 1 .. Len(records) : e.records[i] = records[i]
  BY DEF Editing
<1>2. r \in Nat
  BY <1>1
<1>3. first \in 1 .. Len(active) /\ x \in 1 .. n /\ x \in Nat /\ c < first
  BY <1>1
<1>4. /\ v \in Seq(Nat) /\ Len(v) = Len(w) + 1 /\ Len(w) \in Nat /\ v[Len(w) + 1] = x
      /\ \A i \in 1 .. Len(w) : v[i] = w[i]
  BY <1>1, <1>3
<1>5. \A i \in 1 .. Len(w) : w[i] # x
  <2> SUFFICES ASSUME NEW i \in 1 .. Len(w), w[i] = x PROVE FALSE
    OBVIOUS
  <2>1. ~(x \in n + 1 .. r)
    <3> HIDE DEF n, x, r
    <3> QED BY <1>1, <1>2, <1>3
  <2>2. PICK k \in 1 .. c : w[i] = active[k]
    BY <1>1, <2>1
  <2>3. k \in DOMAIN active /\ first \in DOMAIN active /\ k # first
    <3>1. DOMAIN active = 1 .. Len(active)
      OBVIOUS
    <3> HIDE DEF c
    <3>2. k \in 1 .. Len(active) /\ k # first
      BY <1>1, <1>3
    <3> QED BY <1>3, <3>1, <3>2
  <2> QED BY <2>2, <2>3 DEF IsInjective
<1>6. IsInjective(v)
  <2>1. \A i, j \in 1 .. Len(w) : w[i] = w[j] => i = j
    BY <1>1, Injective
  <2> HIDE DEF v, w, x
  <2>2. ASSUME NEW i \in 1 .. Len(v), NEW j \in 1 .. Len(v), v[i] = v[j] PROVE i = j
    <3>1. \A k \in 1 .. Len(v) : k = Len(w) + 1 \/ k \in 1 .. Len(w)
      BY <1>4
    <3>2. CASE i = Len(w) + 1 /\ j = Len(w) + 1
      BY <3>2
    <3>3. CASE i \in 1 .. Len(w) /\ j \in 1 .. Len(w)
      BY <1>4, <2>1, <2>2, <3>3
    <3>4. CASE i = Len(w) + 1 /\ j \in 1 .. Len(w)
      BY <1>4, <1>5, <2>2, <3>4
    <3>5. CASE i \in 1 .. Len(w) /\ j = Len(w) + 1
      BY <1>4, <1>5, <2>2, <3>5
    <3> QED BY <3>1, <3>2, <3>3, <3>4, <3>5
  <2> QED BY <1>4, <2>2, Injective
<1>7. \A i \in 1 .. Len(v) : v[i] \in n + 1 .. r \/ \E k \in 1 .. first : v[i] = active[k]
  <2> SUFFICES ASSUME NEW i \in 1 .. Len(v)
               PROVE  v[i] \in n + 1 .. r \/ \E k \in 1 .. first : v[i] = active[k]
    OBVIOUS
  <2>1. CASE i = Len(w) + 1
    <3>1. first \in 1 .. first /\ v[i] = active[first]
      BY <1>3, <1>4, <2>1
    <3> QED BY <3>1
  <2>2. CASE i # Len(w) + 1
    <3>1. i \in 1 .. Len(w) /\ v[i] = w[i]
      <4> HIDE DEF v, w
      <4> QED BY <1>4, <2>2
    <3>2. \A k \in 1 .. c : k \in 1 .. first
      BY <1>1, <1>3
    <3> HIDE DEF v, w, n, r, c
    <3> QED BY <1>1, <3>1, <3>2
  <2> QED BY <2>1, <2>2
<1>8. f.cursor \in 0 .. Len(active)
  BY <1>1, <1>3
<1> QED BY <1>1, <1>4, <1>6, <1>7, <1>8 DEF Editing

LEMMA EditStepRecorded ==
    ASSUME NEW active \in Seq(Nat), NEW records \in Seq(Stored), IsInjective(active),
           \A k \in 1 .. Len(active) : active[k] \in 1 .. Len(records),
           NEW e, Editing(active, records, e), NEW m \in Stored,
           NEW f, f.ids = Append(e.ids, Len(e.records) + 1), f.cursor = e.cursor,
           f.records = Append(e.records, m)
    PROVE  Editing(active, records, f)
<1> DEFINE n == Len(records)
           c == e.cursor
           w == e.ids
           v == f.ids
           old == e.records
           r == Len(old)
           x == r + 1
<1>1. /\ w \in Seq(Nat) /\ c \in 0 .. Len(active) /\ IsInjective(w) /\ Len(active) \in Nat
      /\ \A i \in 1 .. Len(w) : w[i] \in n + 1 .. r \/ \E k \in 1 .. c : w[i] = active[k]
      /\ n \in Nat /\ old \in Seq(Stored) /\ n <= r
      /\ \A i \in 1 .. Len(records) : old[i] = records[i]
  BY DEF Editing
<1>2. r \in Nat
  BY <1>1
<1>3. x \in Nat /\ n < x
  <2> HIDE DEF n, r
  <2> QED BY <1>1, <1>2
<1>4. /\ v \in Seq(Nat) /\ Len(v) = Len(w) + 1 /\ Len(w) \in Nat /\ v[Len(w) + 1] = x
      /\ \A i \in 1 .. Len(w) : v[i] = w[i]
  <2> HIDE DEF w, x
  <2> QED BY <1>1, <1>3 DEF x, w
<1>5. \A i \in 1 .. Len(w) : w[i] # x
  <2> SUFFICES ASSUME NEW i \in 1 .. Len(w), w[i] = x PROVE FALSE
    OBVIOUS
  <2>1. \A k \in 1 .. c : active[k] \in 1 .. n
    BY <1>1, SMTT(30)
  <2> HIDE DEF n, r, c, w
  <2>2. w[i] \in n + 1 .. r \/ w[i] \in 1 .. n
    BY <1>1, <2>1
  <2> QED BY <1>1, <1>2, <1>3, <2>2 DEF x
<1>6. IsInjective(v)
  <2>1. \A i, j \in 1 .. Len(w) : w[i] = w[j] => i = j
    BY <1>1, Injective
  <2> HIDE DEF v, w, x
  <2>2. ASSUME NEW i \in 1 .. Len(v), NEW j \in 1 .. Len(v), v[i] = v[j] PROVE i = j
    <3>1. \A k \in 1 .. Len(v) : k = Len(w) + 1 \/ k \in 1 .. Len(w)
      BY <1>4
    <3>2. CASE i = Len(w) + 1 /\ j = Len(w) + 1
      BY <3>2
    <3>3. CASE i \in 1 .. Len(w) /\ j \in 1 .. Len(w)
      BY <1>4, <2>1, <2>2, <3>3
    <3>4. CASE i = Len(w) + 1 /\ j \in 1 .. Len(w)
      BY <1>4, <1>5, <2>2, <3>4
    <3>5. CASE i \in 1 .. Len(w) /\ j = Len(w) + 1
      BY <1>4, <1>5, <2>2, <3>5
    <3> QED BY <3>1, <3>2, <3>3, <3>4, <3>5
  <2> QED BY <1>4, <2>2, Injective
<1>7. \A i \in 1 .. Len(v) : v[i] \in n + 1 .. x \/ \E k \in 1 .. c : v[i] = active[k]
  <2> SUFFICES ASSUME NEW i \in 1 .. Len(v)
               PROVE  v[i] \in n + 1 .. x \/ \E k \in 1 .. c : v[i] = active[k]
    OBVIOUS
  <2>0. x \in n + 1 .. x /\ \A y \in n + 1 .. r : y \in n + 1 .. x
    <3> HIDE DEF n, r
    <3> QED BY <1>1, <1>2, <1>3
  <2>1. CASE i = Len(w) + 1
    <3> HIDE DEF v, w, n, r, c, x
    <3> QED BY <1>4, <2>0, <2>1
  <2>2. CASE i # Len(w) + 1
    <3>1. i \in 1 .. Len(w) /\ v[i] = w[i]
      <4> HIDE DEF v, w
      <4> QED BY <1>4, <2>2
    <3> HIDE DEF v, w, n, r, c, x
    <3> QED BY <1>1, <2>0, <3>1
  <2> QED BY <2>1, <2>2
<1>8. /\ f.records \in Seq(Stored) /\ Len(f.records) = x
      /\ \A i \in 1 .. n : f.records[i] = records[i]
  <2> DEFINE new == f.records
  <2>1. /\ new \in Seq(Stored) /\ Len(new) = r + 1 /\ \A i \in 1 .. r : new[i] = old[i]
    <3> HIDE DEF old
    <3>1. old \in Seq(Stored)
      BY <1>1
    <3> QED BY <3>1, Sequences DEF old
  <2>2. \A i \in 1 .. n : i \in 1 .. r
    <3> HIDE DEF n, r
    <3> QED BY <1>1, <1>2
  <2> HIDE DEF new, old, r
  <2>3. \A i \in 1 .. n : new[i] = records[i]
    BY <1>1, <2>1, <2>2
  <2> QED BY <2>1, <2>3 DEF new, r
<1>9. n <= x
  <2> HIDE DEF n, x
  <2> QED BY <1>1, <1>3
<1> HIDE DEF x
<1> QED BY <1>1, <1>4, <1>6, <1>7, <1>8, <1>9 DEF Editing

LEMMA SeqInto ==
    ASSUME NEW X, NEW Y, NEW w \in Seq(X), \A i \in 1 .. Len(w) : w[i] \in Y
    PROVE  w \in Seq(Y)
OBVIOUS

EditStates == [ids : Seq(Nat), cursor : Nat, records : Seq(Stored)]
Edits0(active, records) == {e \in EditStates : Editing(active, records, e)}

LEMMA EditStepKeeps ==
    ASSUME NEW active \in Seq(Nat), NEW records \in Seq(Stored), IsInjective(active),
           \A k \in 1 .. Len(active) : active[k] \in 1 .. Len(records),
           NEW e \in Edits0(active, records), NEW m \in Stored
    PROVE  EditStep(active, e, m) \in Edits0(active, records)
<1> DEFINE found == {k \in e.cursor + 1 .. Len(active) : e.records[active[k]] = m}
           first == CHOOSE k \in found : \A j \in found : k <= j
           f == EditStep(active, e, m)
<1>1. e \in EditStates /\ Editing(active, records, e)
  BY DEF Edits0
<1>2. e.cursor \in Nat /\ e.ids \in Seq(Nat) /\ e.records \in Seq(Stored) /\ Len(active) \in Nat
  BY <1>1 DEF EditStates
<1>3. CASE found # {}
  <2>1. found \in SUBSET Nat
    BY <1>2
  <2>2. first \in found
    <3>1. \E k \in found : \A j \in found : k <= j
      <4> HIDE DEF found
      <4> QED BY <1>3, <2>1, LeastNat
    <3> HIDE DEF found
    <3> QED BY <3>1
  <2>3. f = [e EXCEPT !.ids = Append(e.ids, active[first]), !.cursor = first]
    BY <1>3 DEF EditStep
  <2>4. first \in e.cursor + 1 .. Len(active) /\ first \in Nat /\ active[first] \in Nat
    <3>1. first \in e.cursor + 1 .. Len(active)
      BY <2>2
    <3> HIDE DEF first
    <3> QED BY <1>2, <3>1
  <2> HIDE DEF first, f
  <2>5. Append(e.ids, active[first]) \in Seq(Nat)
    BY <1>2, <2>4
  <2>6. /\ f.ids = Append(e.ids, active[first]) /\ f.cursor = first /\ f.records = e.records
        /\ f \in EditStates
    BY <1>1, <2>3, <2>4, <2>5 DEF EditStates
  <2>7. Editing(active, records, f)
    BY <1>1, <2>4, <2>6, EditStepFound
  <2> QED BY <2>6, <2>7 DEF Edits0, f
<1>4. CASE found = {}
  <2>1. f = [e EXCEPT !.records = Append(e.records, m), !.ids = Append(e.ids, Len(e.records) + 1)]
    BY <1>4 DEF EditStep
  <2>2. Append(e.records, m) \in Seq(Stored) /\ Append(e.ids, Len(e.records) + 1) \in Seq(Nat)
    BY <1>2
  <2> HIDE DEF f
  <2>3. /\ f.ids = Append(e.ids, Len(e.records) + 1) /\ f.cursor = e.cursor
        /\ f.records = Append(e.records, m) /\ f \in EditStates
    BY <1>1, <2>1, <2>2 DEF EditStates
  <2>4. Editing(active, records, f)
    BY <1>1, <2>3, EditStepRecorded
  <2> QED BY <2>3, <2>4 DEF Edits0, f
<1> QED BY <1>3, <1>4

EditSteps(active, records, ms) ==
    [i \in 1 .. Len(ms) |->
        [e \in Edits0(active, records) |-> EditStep(active, e, ms[i])]]

LEMMA EditedKeeps ==
    ASSUME NEW active \in Seq(Nat), NEW records \in Seq(Stored), IsInjective(active),
           \A k \in 1 .. Len(active) : active[k] \in 1 .. Len(records),
           NEW ms \in Seq(Stored)
    PROVE  Editing(active, records, Edited(active, records, ms))
<1> DEFINE n == Len(ms)
           A == Edits0(active, records)
           z == EditStart(records)
           step == EditSteps(active, records, ms)
           upTo[i \in 0 .. n] == IF i = 0 THEN z ELSE EditStep(active, upTo[i - 1], ms[i])
<1>1. n \in Nat /\ \A i \in 1 .. n : ms[i] \in Stored
  OBVIOUS
<1>2. z \in A
  <2>1. z = [ids |-> <<>>, cursor |-> 0, records |-> records] /\ <<>> \in Seq(Nat) /\ Len(<<>>) = 0
    BY DEF EditStart
  <2>2. z \in EditStates
    BY <2>1 DEF EditStates
  <2>3. IsInjective(<<>>) /\ Len(active) \in Nat /\ Len(records) \in Nat
    BY DEF IsInjective
  <2>4. Editing(active, records, z)
    BY <2>1, <2>3 DEF Editing
  <2> QED BY <2>2, <2>4 DEF Edits0
<1>3. \A e \in A, i \in 1 .. n : EditStep(active, e, ms[i]) \in A
  <2> HIDE DEF A
  <2> SUFFICES ASSUME NEW e \in A, NEW i \in 1 .. n PROVE EditStep(active, e, ms[i]) \in A
    OBVIOUS
  <2> QED BY <1>1, EditStepKeeps DEF A
<1>4. step \in [1 .. n -> [A -> A]]
  <2> HIDE DEF n
  <2>1. step = [i \in 1 .. n |-> [e \in A |-> EditStep(active, e, ms[i])]]
    BY DEF EditSteps, n
  <2> HIDE DEF step, A
  <2> QED BY <1>3, <2>1
<1>5. PICK f \in [0 .. n -> A] : Follows(f, n, z, step)
  <2> HIDE DEF n, step, A, z
  <2> QED BY <1>1, <1>2, <1>4, CourseExists
<1>6. \A i \in 1 .. n : f[i] = EditStep(active, f[i - 1], ms[i])
  <2> SUFFICES ASSUME NEW i \in 1 .. n PROVE f[i] = EditStep(active, f[i - 1], ms[i])
    OBVIOUS
  <2>1. f[i - 1] \in A
    <3>1. i - 1 \in 0 .. n
      BY <1>1
    <3> HIDE DEF A, n
    <3> QED BY <3>1
  <2>2. step[i] = [e \in A |-> EditStep(active, e, ms[i])]
    BY DEF EditSteps
  <2>3. f[i] = step[i][f[i - 1]]
    BY <1>5 DEF Follows
  <2> HIDE DEF step, A
  <2> QED BY <2>1, <2>2, <2>3
<1>7. f = [i \in 0 .. n |-> IF i = 0 THEN z ELSE EditStep(active, f[i - 1], ms[i])]
  <2>1. \A i \in 0 .. n : f[i] = IF i = 0 THEN z ELSE EditStep(active, f[i - 1], ms[i])
    <3> SUFFICES ASSUME NEW i \in 0 .. n
                 PROVE f[i] = IF i = 0 THEN z ELSE EditStep(active, f[i - 1], ms[i])
      OBVIOUS
    <3>1. f[0] = z /\ (i # 0 => i \in 1 .. n)
      BY <1>1, <1>5 DEF Follows
    <3> HIDE DEF z
    <3> QED BY <1>6, <3>1
  <2> HIDE DEF n, A, z
  <2> QED BY <2>1
<1>8. upTo = [i \in 0 .. n |-> IF i = 0 THEN z ELSE EditStep(active, upTo[i - 1], ms[i])]
  BY <1>7 DEF upTo
<1>9. Edited(active, records, ms) = upTo[n]
  BY DEF Edited
<1> HIDE DEF upTo
<1>10. upTo[0] = z /\ \A i \in 1 .. n : upTo[i] = EditStep(active, upTo[i - 1], ms[i])
  <2>1. 0 \in 0 .. n /\ \A i \in 1 .. n : i \in 0 .. n /\ i # 0
    BY <1>1
  <2> HIDE DEF n, z
  <2> QED BY <1>8, <2>1
<1> DEFINE T == {k \in 0 .. n : upTo[k] \in A}
<1>11. \A k \in 0 .. n : k \in T
  <2>1. 0 \in T
    <3> HIDE DEF A, z
    <3> QED BY <1>1, <1>2, <1>10
  <2>2. ASSUME NEW k \in 1 .. n, k - 1 \in T PROVE k \in T
    <3>1. upTo[k - 1] \in A /\ k \in 0 .. n
      BY <1>1, <2>2
    <3> HIDE DEF A
    <3> QED BY <1>3, <1>10, <3>1
  <2> HIDE DEF T, n
  <2> QED BY <1>1, <2>1, <2>2, UpTo
<1>12. n \in 0 .. n
  BY <1>1
<1>13. upTo[n] \in A
  <2> HIDE DEF n, A
  <2> QED BY <1>11, <1>12
<1> QED BY <1>9, <1>13 DEF Edits0

\* y has what x has recorded.
Grows(x, y) ==
    /\ Len(x.records) <= Len(y.records)
    /\ \A i \in 1 .. Len(x.records) : y.records[i] = x.records[i]

\* What an edit makes of a session, and the events it logs.
EditedAll(x, ms) == Edited(x.active, x.records, ms)
EditIds(x, ms) == Trim(EditedAll(x, ms).ids, EditedAll(x, ms).records)
EditRecorded(x, ms) ==
    LET e == EditedAll(x, ms)
    IN  RecordedAll(SubSeq(e.records, Len(x.records) + 1, Len(e.records)))
EditTo(x, ms) == [x EXCEPT !.records = EditedAll(x, ms).records, !.active = EditIds(x, ms)]
EditEvents(x, ms) ==
    IF EditIds(x, ms) = x.active THEN EditRecorded(x, ms)
    ELSE Append(EditRecorded(x, ms), ContextReplaced(EditIds(x, ms)))

\* It is sound, and its events say so.
LEMMA EditIs ==
    ASSUME NEW x, Sound(x), NEW ms \in Seq(Stored)
    PROVE  /\ Sound(EditTo(x, ms)) /\ Grows(x, EditTo(x, ms))
           /\ Replay(x, EditEvents(x, ms)) = EditTo(x, ms)
           /\ EditTo(x, ms).records = EditedAll(x, ms).records
<1> DEFINE e == EditedAll(x, ms)
           ids == Trim(e.ids, e.records)
           fresh == SubSeq(e.records, Len(x.records) + 1, Len(e.records))
           recorded == RecordedAll(fresh)
           y == [x EXCEPT !.records = e.records, !.active = ids]
           events == IF ids = x.active THEN recorded ELSE Append(recorded, ContextReplaced(ids))
<1>101. EditIds(x, ms) = ids
  BY DEF EditIds
<1>102. EditRecorded(x, ms) = recorded
  BY DEF EditRecorded
<1>103. EditTo(x, ms) = y
  BY <1>101 DEF EditTo
<1>104. EditEvents(x, ms) = events
  <2> HIDE DEF ids, recorded
  <2> QED BY <1>101, <1>102 DEF EditEvents
<1> /\ e = EditedAll(x, ms) /\ ids = Trim(e.ids, e.records)
      /\ fresh = SubSeq(e.records, Len(x.records) + 1, Len(e.records))
      /\ recorded = RecordedAll(fresh)
      /\ y = [x EXCEPT !.records = e.records, !.active = ids]
      /\ events = IF ids = x.active THEN recorded ELSE Append(recorded, ContextReplaced(ids))
  OBVIOUS
<1> HIDE DEF e, ids, fresh, recorded, y, events
<1> DEFINE new == e.records
           old == x.records
<1>1. /\ x \in Logs /\ x.active \in Seq(Nat) /\ old \in Seq(Stored) /\ IsInjective(x.active)
      /\ \A k \in 1 .. Len(x.active) : x.active[k] \in 1 .. Len(old)
  BY LogIs DEF Sound
<1>2. Editing(x.active, old, e)
  BY <1>1, EditedKeeps DEF EditedAll
<1>3. /\ e.ids \in Seq(Nat) /\ new \in Seq(Stored) /\ Len(old) <= Len(new) /\ IsInjective(e.ids)
      /\ \A i \in 1 .. Len(old) : new[i] = old[i]
  <2> QED BY <1>2 DEF Editing
<1>4. Len(old) \in Nat /\ Len(new) \in Nat
  BY <1>1, <1>3
<1>5. e.ids \in Seq(1 .. Len(new))
  <2> DEFINE w == e.ids
             n == Len(old)
             r == Len(new)
             c == e.cursor
  <2>1. /\ c \in 0 .. Len(x.active) /\ Len(x.active) \in Nat
        /\ \A i \in 1 .. Len(w) : w[i] \in n + 1 .. r \/ \E k \in 1 .. c : w[i] = x.active[k]
    <3> QED BY <1>1, <1>2 DEF Editing
  <2>2. \A i \in 1 .. Len(w) : w[i] \in 1 .. r
    <3> SUFFICES ASSUME NEW i \in 1 .. Len(w) PROVE w[i] \in 1 .. r
      OBVIOUS
    <3>1. n \in Nat /\ r \in Nat /\ n <= r
      BY <1>3, <1>4
    <3>2. CASE w[i] \in n + 1 .. r
      <4> HIDE DEF n, r, w
      <4> QED BY <3>1, <3>2
    <3>3. CASE \E k \in 1 .. c : w[i] = x.active[k]
      <4>1. PICK k \in 1 .. c : w[i] = x.active[k]
        BY <3>3
      <4>2. k \in 1 .. Len(x.active)
        <5> HIDE DEF c
        <5> QED BY <2>1
      <4>3. w[i] \in 1 .. n
        BY <1>1, <4>1, <4>2
      <4> HIDE DEF n, r, w
      <4> QED BY <3>1, <4>3
    <3> HIDE DEF n, r, w
    <3> QED BY <2>1, <3>2, <3>3
  <2>3. w \in Seq(Nat)
    BY <1>3
  <2> HIDE DEF w, r
  <2>4. w \in Seq(1 .. r)
    BY <2>2, <2>3, SeqInto
  <2> QED BY <2>4 DEF w, r
<1>6. ids \in Seq(1 .. Len(new)) /\ IsInjective(ids)
  <2> QED BY <1>3, <1>5, TrimSound
<1>7. old \o fresh = new /\ fresh \in Seq(Stored)
  <2> HIDE DEF new, old
  <2>1. \A a, b \in Seq(Stored) :
           Len(a) <= Len(b) /\ (\A i \in 1 .. Len(a) : b[i] = a[i])
           => /\ SubSeq(b, Len(a) + 1, Len(b)) \in Seq(Stored)
              /\ a \o SubSeq(b, Len(a) + 1, Len(b)) = b
    <3> SUFFICES ASSUME NEW a \in Seq(Stored), NEW b \in Seq(Stored),
                        Len(a) <= Len(b), \A i \in 1 .. Len(a) : b[i] = a[i]
                 PROVE  /\ SubSeq(b, Len(a) + 1, Len(b)) \in Seq(Stored)
                        /\ a \o SubSeq(b, Len(a) + 1, Len(b)) = b
      OBVIOUS
    <3> DEFINE f == SubSeq(b, Len(a) + 1, Len(b))
               v == a \o f
    <3>1. /\ f \in Seq(Stored) /\ Len(f) = Len(b) - Len(a) /\ Len(a) \in Nat /\ Len(b) \in Nat
          /\ \A i \in 1 .. Len(f) : f[i] = b[Len(a) + i]
      OBVIOUS
    <3> HIDE DEF f
    <3>2. /\ v \in Seq(Stored) /\ Len(v) = Len(a) + Len(f)
          /\ \A i \in 1 .. Len(a) : v[i] = a[i]
          /\ \A i \in 1 .. Len(f) : v[Len(a) + i] = f[i]
      BY <3>1, Sequences, SMTT(30)
    <3>4. \A i \in 1 .. Len(b) : v[i] = b[i]
      <4> SUFFICES ASSUME NEW i \in 1 .. Len(b) PROVE v[i] = b[i]
        OBVIOUS
      <4> HIDE DEF v
      <4>1. CASE i \in 1 .. Len(a)
        BY <3>2, <4>1
      <4>2. CASE i \notin 1 .. Len(a)
        <5>1. i - Len(a) \in 1 .. Len(f) /\ Len(a) + (i - Len(a)) = i
          BY <3>1, <4>2
        <5> QED BY <3>1, <3>2, <5>1
      <4> QED BY <4>1, <4>2
    <3>5. Len(v) = Len(b)
      BY <3>1, <3>2
    <3> HIDE DEF v
    <3>3. v = b
      BY <3>2, <3>4, <3>5, SeqEqual
    <3> QED BY <3>1, <3>3 DEF v, f
  <2>2. fresh = SubSeq(new, Len(old) + 1, Len(new))
    BY DEF new, old
  <2>3. old \in Seq(Stored) /\ new \in Seq(Stored) /\ Len(old) <= Len(new)
        /\ \A i \in 1 .. Len(old) : new[i] = old[i]
    BY <1>1, <1>3
  <2>4. /\ SubSeq(new, Len(old) + 1, Len(new)) \in Seq(Stored)
        /\ old \o SubSeq(new, Len(old) + 1, Len(new)) = new
    BY <2>1, <2>3, Zenon
  <2> QED BY <2>2, <2>4, Zenon
<1>8. Replay(x, recorded) = [x EXCEPT !.records = new]
  <2> HIDE DEF new
  <2>1. Replay(x, RecordedAll(fresh)) = [x EXCEPT !.records = x.records \o fresh]
    BY <1>1, <1>7, ReplayRecorded
  <2> QED BY <1>7, <2>1
<1>9. Replay(x, Append(recorded, ContextReplaced(ids))) = y
  <2> DEFINE Evs == {MessageRecorded(m) : m \in Stored} \cup {ContextReplaced(ids)}
             z == [x EXCEPT !.records = new]
  <2>1. recorded \in Seq(Evs) /\ ContextReplaced(ids) \in Evs
    <3>1. \A q \in Seq(Stored) : RecordedAll(q) \in Seq({MessageRecorded(m) : m \in Stored})
      BY DEF RecordedAll
    <3>2. RecordedAll(fresh) \in Seq({MessageRecorded(m) : m \in Stored})
      BY <1>7, <3>1
    <3>3. {MessageRecorded(m) : m \in Stored} \subseteq Evs
      OBVIOUS
    <3> QED BY <3>2, <3>3, SeqMonotonic
  <2>2. Replay(x, Append(recorded, ContextReplaced(ids)))
           = Replayed(Replay(x, recorded), ContextReplaced(ids))
    <3> HIDE DEF Evs
    <3> QED BY <2>1, ReplayMore
  <2>3. z \in Logs /\ z.records = new
    <3> HIDE DEF new
    <3> QED BY <1>1, <1>3 DEF Logs
  <2>4. Replayed(z, ContextReplaced(ids)) = [z EXCEPT !.active = ids]
    <3> HIDE DEF z, new
    <3> QED BY <1>6, <2>3, ReplayedContext
  <2>5. [z EXCEPT !.active = ids] = y
    <3> QED BY <1>1 DEF Logs
  <2> HIDE DEF z
  <2> QED BY <1>8, <2>2, <2>4, <2>5 DEF z
<1>10. ids = x.active => [x EXCEPT !.records = new] = y
  <2> QED BY <1>1 DEF Logs
<1>11. /\ y \in Logs /\ y.records = new /\ y.active = ids
       /\ y.system = x.system /\ y.tools = x.tools
  <2>1. ids \in Seq(Nat)
    <3>1. 1 .. Len(new) \subseteq Nat
      BY <1>4
    <3> HIDE DEF new
    <3> QED BY <1>6, <3>1, SeqMonotonic
  <2> QED BY <1>1, <1>3, <2>1 DEF Logs
<1>12. Sound(y)
  <2> HIDE DEF new
  <2> QED BY <1>6, <1>11 DEF Sound
<1>13. Replay(x, IF ids = x.active THEN recorded ELSE Append(recorded, ContextReplaced(ids))) = y
  <2> HIDE DEF new
  <2> QED BY <1>8, <1>9, <1>10
<1>14. Grows(x, y)
  BY <1>3, <1>11 DEF Grows
<1>15. Replay(x, events) = y
  BY <1>13
<1> QED BY <1>101, <1>103, <1>104, <1>11, <1>12, <1>14, <1>15

-----------------------------------------------------------------------------
(* The types of the variables.                                             *)

Pins == Tools \X Thinking
Digests == Tools \X Systems \X Seq(Nat)
Bindings == [opened : BOOLEAN, gen : Int, thinking : Int, prefix : {<<>>} \cup Digests,
             own : BOOLEAN]
Calls == [kind : {"start", "continue"}, n : Nat, messages : Seq(Msgs), prefix : Seq(Msgs),
          pins : Pins, capture : BOOLEAN, asked : Seq(Msgs)]
Stops == [kind : {"stop"}, n : Nat]
Runtimes == [turns : SUBSET Nat, n : Nat, state : {"idle", "generating", "capturing"},
             context : Seq(Msgs), pins : Pins, asked : Seq(Msgs), wants : {<<>>} \cup Pins]
InTurn == [n : Nat, engine : Engines, api : Apis, staged : Seq(Stored), tools : Tools,
           closes : BOOLEAN, got : Nat, end : {"none", "answer", "call", "stopped", "error"},
           cold : BOOLEAN]

LogOK == Sound(s) /\ Len(s.records) <= MaxRecords /\ saved = s
BooksOK ==
    /\ bk \in Bindings /\ parked \in [Engines -> Bindings]
    /\ bound \in Engines \cup {NoEngine} /\ warm \in Engines \cup {NoEngine}
    /\ sent \in [Engines -> Nat] /\ generation \in [Engines -> Nat]
    /\ \A e \in Engines : parked[e].opened => e # bound
QueueOK == queue \in [Engines -> Seq(Calls \cup Stops)]
RuntimeOK == runtime \in [Engines -> Runtimes \cup {NoRuntime}]
TurnOK ==
    turn # NoTurn =>
        /\ turn \in InTurn /\ turn.n > 0 /\ turn.n = turns /\ bound = turn.engine
        /\ Len(s.records) + Len(turn.staged) < MaxRecords
CountOK == turns \in 0 .. MaxTurns /\ spent \in 0 .. MaxSteps

Types == LogOK /\ BooksOK /\ QueueOK /\ RuntimeOK /\ TurnOK /\ CountOK

-----------------------------------------------------------------------------
(* The log stays sound, and its events say what it is.                     *)

LEMMA Less == \A k, n \in Nat, m \in Nat : k < m => k <= m
OBVIOUS

\* Ids appended to a sound projection, none of them recorded before.
LEMMA AppendFresh ==
    ASSUME NEW n \in Nat, NEW r \in Nat, n <= r, NEW ids \in Seq(1 .. n), IsInjective(ids),
           NEW w \in Seq(n + 1 .. r), IsInjective(w)
    PROVE  ids \o w \in Seq(1 .. r) /\ IsInjective(ids \o w)
<1> DEFINE v == ids \o w
<1>1. ids \in Seq(Nat) /\ w \in Seq(Nat)
  BY SeqMonotonic
<1>2. /\ v \in Seq(Nat) /\ Len(v) = Len(ids) + Len(w) /\ Len(ids) \in Nat /\ Len(w) \in Nat
      /\ \A i \in 1 .. Len(ids) : v[i] = ids[i]
      /\ \A i \in 1 .. Len(w) : v[Len(ids) + i] = w[i]
  BY <1>1, Sequences
<1>3. /\ \A i \in 1 .. Len(ids) : ids[i] \in 1 .. n
      /\ \A i \in 1 .. Len(w) : w[i] \in n + 1 .. r
  BY SeqOfRange
<1> HIDE DEF v
<1>4. ASSUME NEW i \in 1 .. Len(v)
      PROVE  \/ i \in 1 .. Len(ids) /\ v[i] = ids[i] /\ v[i] \in 1 .. n
             \/ /\ i - Len(ids) \in 1 .. Len(w) /\ v[i] = w[i - Len(ids)]
                /\ v[i] \in n + 1 .. r
  <2>1. CASE i \in 1 .. Len(ids)
    BY <1>2, <1>3, <2>1
  <2>2. CASE i \notin 1 .. Len(ids)
    <3>1. i - Len(ids) \in 1 .. Len(w) /\ Len(ids) + (i - Len(ids)) = i
      BY <1>2, <2>2
    <3> QED BY <1>2, <1>3, <3>1
  <2> QED BY <2>1, <2>2
<1>5. \A i \in 1 .. Len(v) : v[i] \in 1 .. r
  BY <1>4
<1>6. /\ \A i, j \in 1 .. Len(ids) : ids[i] = ids[j] => i = j
      /\ \A i, j \in 1 .. Len(w) : w[i] = w[j] => i = j
  BY <1>1, Injective
<1>7. ASSUME NEW i \in 1 .. Len(v), NEW j \in 1 .. Len(v), v[i] = v[j] PROVE i = j
  <2>1. \A k \in 1 .. n : k \notin n + 1 .. r
    OBVIOUS
  <2>2. CASE v[i] \in 1 .. n
    <3>1. /\ i \in 1 .. Len(ids) /\ v[i] = ids[i]
          /\ j \in 1 .. Len(ids) /\ v[j] = ids[j]
      BY <1>4, <1>7, <2>1, <2>2
    <3> QED BY <1>6, <1>7, <3>1
  <2>3. CASE v[i] \notin 1 .. n
    <3>1. /\ i - Len(ids) \in 1 .. Len(w) /\ v[i] = w[i - Len(ids)]
          /\ j - Len(ids) \in 1 .. Len(w) /\ v[j] = w[j - Len(ids)]
      BY <1>4, <1>7, <2>3
    <3>2. i - Len(ids) = j - Len(ids)
      BY <1>6, <1>7, <3>1
    <3> QED BY <1>2, <3>2
  <2> QED BY <2>2, <2>3
<1>8. v \in Seq(1 .. r)
  BY <1>2, <1>5, SeqInto
<1>9. IsInjective(v)
  BY <1>2, <1>7, Injective
<1> QED BY <1>8, <1>9 DEF v

LEMMA SoundParts ==
    ASSUME NEW x, Sound(x)
    PROVE  /\ x \in Logs /\ x.records \in Seq(Stored) /\ Len(x.records) \in Nat
           /\ x.active \in Seq(1 .. Len(x.records)) /\ x.active \in Seq(Nat)
           /\ Len(x.active) \in Nat
           /\ IsInjective(x.active) /\ x.system \in Systems /\ x.tools \in Tools
<1>1. x \in Logs /\ x.records \in Seq(Stored) /\ x.active \in Seq(Nat)
      /\ x.system \in Systems /\ x.tools \in Tools
  BY LogIs DEF Sound
<1>2. x.active \in Seq(1 .. Len(x.records))
  <2>1. \A i \in 1 .. Len(x.active) : x.active[i] \in 1 .. Len(x.records)
    BY DEF Sound
  <2> QED BY <1>1, <2>1, SeqInto
<1> QED BY <1>1, <1>2 DEF Sound

LEMMA SoundIf ==
    ASSUME NEW x \in Logs, x.active \in Seq(1 .. Len(x.records)), IsInjective(x.active)
    PROVE  Sound(x)
<1>1. \A i \in 1 .. Len(x.active) : x.active[i] \in 1 .. Len(x.records)
  BY ElementOfSeq
<1> QED BY <1>1 DEF Sound

LEMMA AddedAllSound ==
    ASSUME NEW x, Sound(x), NEW ms \in Seq(Stored)
    PROVE  LET y == AddedAll(x, ms) IN
           Sound(y) /\ Grows(x, y) /\ Len(y.records) = Len(x.records) + Len(ms)
<1> DEFINE y == AddedAll(x, ms)
           old == x.records
           n == Len(old)
           k == Len(ms)
           w == Fresh(x, k)
<1>1. /\ x \in Logs /\ old \in Seq(Stored) /\ n \in Nat /\ k \in Nat
      /\ x.active \in Seq(1 .. n) /\ IsInjective(x.active)
  BY SoundParts
<1>2. /\ y \in Logs /\ y.records = old \o ms /\ y.active = x.active \o w
      /\ w \in Seq(Nat) /\ Len(w) = k
  BY <1>1, AddedAllIs
<1>3. w \in Seq(n + 1 .. n + k) /\ IsInjective(w)
  <2>1. \A i \in 1 .. k : w[i] = n + i
    BY <1>1 DEF Fresh
  <2> HIDE DEF n, k, w
  <2>2. \A i \in 1 .. Len(w) : w[i] \in n + 1 .. n + k
    BY <1>1, <1>2, <2>1
  <2>3. \A i, j \in 1 .. Len(w) : w[i] = w[j] => i = j
    BY <1>1, <1>2, <2>1
  <2> QED BY <1>2, <2>2, <2>3, SeqInto, Injective
<1>4. y.active \in Seq(1 .. n + k) /\ IsInjective(y.active)
  <2> DEFINE a == x.active
             r == n + k
  <2>1. a \in Seq(1 .. n) /\ IsInjective(a) /\ w \in Seq(n + 1 .. r) /\ r \in Nat /\ n <= r
    <3> HIDE DEF n, k, w
    <3> QED BY <1>1, <1>3
  <2> HIDE DEF a, n, k, w, r
  <2>2. a \o w \in Seq(1 .. r) /\ IsInjective(a \o w)
    BY <1>1, <1>3, <2>1, AppendFresh
  <2> QED BY <1>2, <2>2 DEF a, r
<1>5. /\ Len(y.records) = n + k
      /\ \A i \in 1 .. n : y.records[i] = old[i]
  <2> HIDE DEF old
  <2> QED BY <1>1, <1>2, Sequences
<1>6. n <= n + k
  <2> HIDE DEF n, k
  <2> QED BY <1>1
<1> HIDE DEF y
<1>7. Sound(y)
  BY <1>2, <1>4, <1>5, SoundIf
<1> QED BY <1>5, <1>6, <1>7 DEF y, Grows

LEMMA AddedSound ==
    ASSUME NEW x, Sound(x), NEW m \in Stored
    PROVE  LET y == Added(x, m) IN
           /\ Sound(y) /\ Grows(x, y) /\ Len(y.records) = Len(x.records) + 1
           /\ y = AddedAll(x, <<m>>)
<1> DEFINE e == <<>>
           ms == <<m>>
<1>1. e \in Seq(Stored) /\ ms \in Seq(Stored) /\ ms = Append(e, m) /\ Len(ms) = 1 /\ x \in Logs
  BY DEF Sound
<1>2. AddedAll(x, e) = x
  <2>1. Replay(x, Additions(e)) = AddedAll(x, e)
    BY <1>1, ReplayAdditions
  <2>2. Additions(e) = <<>>
    BY DEF Additions
  <2> QED BY <2>1, <2>2, ReplayNone
<1>3. AddedAll(x, Append(e, m)) = Added(AddedAll(x, e), m)
  <2> HIDE DEF e
  <2> QED BY <1>1, AddedAllMore
<1>4. Added(x, m) = AddedAll(x, ms)
  BY <1>1, <1>2, <1>3, Zenon
<1> HIDE DEF ms
<1>5. Sound(AddedAll(x, ms)) /\ Grows(x, AddedAll(x, ms))
      /\ Len(AddedAll(x, ms).records) = Len(x.records) + 1
  BY <1>1, AddedAllSound
<1> QED BY <1>4, <1>5 DEF ms

\* What an operation of the owner makes of the session: a sound log that grew within its
\* bound, and whose events say what it is.
Kept(x, y) == Sound(y) /\ Len(y.records) <= MaxRecords /\ Grows(x, y)

LEMMA ProjectionKept ==
    ASSUME NEW x, Sound(x), Len(x.records) <= MaxRecords,
           NEW ids \in Seq(1 .. Len(x.records)), IsInjective(ids),
           NEW y, y = [x EXCEPT !.active = ids]
    PROVE  /\ Kept(x, y) /\ y.records = x.records /\ y.active = ids /\ y.system = x.system
           /\ Replay(x, <<ContextReplaced(ids)>>) = y
<1>1. /\ x \in Logs /\ x.records \in Seq(Stored) /\ Len(x.records) \in Nat
  BY SoundParts
<1>2. ids \in Seq(Nat)
  BY <1>1, SeqMonotonic
<1>3. y \in Logs /\ y.records = x.records /\ y.active = ids /\ y.system = x.system
  BY <1>1, <1>2 DEF Logs
<1>4. Sound(y)
  BY <1>3, SoundIf
<1>5. Grows(x, y)
  BY <1>1, <1>3 DEF Grows
<1>6. Replay(x, <<ContextReplaced(ids)>>) = Replayed(x, ContextReplaced(ids))
  BY ReplayOne
<1>7. Replayed(x, ContextReplaced(ids)) = y
  BY <1>1, ReplayedContext
<1> QED BY <1>3, <1>4, <1>5, <1>6, <1>7 DEF Kept

LEMMA SettingKept ==
    ASSUME NEW x, Sound(x), Len(x.records) <= MaxRecords
    PROVE  /\ \A v \in Systems : /\ Kept(x, [x EXCEPT !.system = v])
                                 /\ Replay(x, <<SystemSet(v)>>) = [x EXCEPT !.system = v]
           /\ \A v \in Tools : /\ Kept(x, [x EXCEPT !.tools = v])
                               /\ Replay(x, <<ToolsSet(v)>>) = [x EXCEPT !.tools = v]
<1>1. /\ x \in Logs /\ x.records \in Seq(Stored) /\ Len(x.records) \in Nat
      /\ x.active \in Seq(1 .. Len(x.records)) /\ IsInjective(x.active)
  BY SoundParts
<1>2. ASSUME NEW y \in Logs, y.records = x.records, y.active = x.active PROVE Kept(x, y)
  <2>1. Sound(y)
    BY <1>1, <1>2, SoundIf
  <2> QED BY <1>1, <1>2, <2>1 DEF Kept, Grows
<1>3. ASSUME NEW v \in Systems
      PROVE  /\ Kept(x, [x EXCEPT !.system = v])
             /\ Replay(x, <<SystemSet(v)>>) = [x EXCEPT !.system = v]
  <2> DEFINE y == [x EXCEPT !.system = v]
  <2>1. y \in Logs /\ y.records = x.records /\ y.active = x.active
    BY <1>1 DEF Logs
  <2>2. Replayed(x, SystemSet(v)) = y
    BY DEF Replayed, SystemSet
  <2>3. Replay(x, <<SystemSet(v)>>) = Replayed(x, SystemSet(v))
    BY ReplayOne
  <2> HIDE DEF y
  <2>4. Kept(x, y)
    BY <1>2, <2>1
  <2> QED BY <2>2, <2>3, <2>4 DEF y
<1>4. ASSUME NEW v \in Tools
      PROVE  /\ Kept(x, [x EXCEPT !.tools = v])
             /\ Replay(x, <<ToolsSet(v)>>) = [x EXCEPT !.tools = v]
  <2> DEFINE y == [x EXCEPT !.tools = v]
  <2>1. y \in Logs /\ y.records = x.records /\ y.active = x.active
    BY <1>1 DEF Logs
  <2>2. Replayed(x, ToolsSet(v)) = y
    BY DEF Replayed, ToolsSet
  <2>3. Replay(x, <<ToolsSet(v)>>) = Replayed(x, ToolsSet(v))
    BY ReplayOne
  <2> HIDE DEF y
  <2>4. Kept(x, y)
    BY <1>2, <2>1
  <2> QED BY <2>2, <2>3, <2>4 DEF y
<1> QED BY <1>3, <1>4

LEMMA ReplacedKept ==
    ASSUME NEW x, Sound(x), Len(x.records) < MaxRecords, NEW k \in 1 .. Len(x.active),
           NEW m \in Stored,
           NEW y, y = [x EXCEPT !.records = Append(x.records, m),
                                !.active = [x.active EXCEPT ![k] = Len(x.records) + 1]]
    PROVE  Kept(x, y) /\ Replay(x, <<MessageReplaced(x.active[k], m)>>) = y
<1> DEFINE old == x.records
           n == Len(old)
           a == x.active
           v == [a EXCEPT ![k] = n + 1]
           r == Append(old, m)
<1>1. /\ x \in Logs /\ old \in Seq(Stored) /\ n \in Nat
      /\ a \in Seq(1 .. n) /\ IsInjective(a)
  BY SoundParts
<1>2. /\ r \in Seq(Stored) /\ Len(r) = n + 1
      /\ \A i \in 1 .. n : r[i] = old[i]
  <2> HIDE DEF old
  <2> QED BY <1>1, Sequences
<1>3. v \in Seq(1 .. n + 1) /\ IsInjective(v)
  <2> HIDE DEF a, n
  <2>1. a \in Seq(1 .. n + 1) /\ n + 1 \in 1 .. n + 1
    <3>1. 1 .. n \subseteq 1 .. n + 1 /\ n + 1 \in 1 .. n + 1
      BY <1>1
    <3> QED BY <1>1, <3>1, SeqMonotonic
  <2>2. k \in 1 .. Len(a)
    BY DEF a
  <2>3. /\ v \in Seq(1 .. n + 1) /\ Len(v) = Len(a)
        /\ \A j \in 1 .. Len(a) : v[j] = IF j = k THEN n + 1 ELSE a[j]
    BY <2>1, <2>2, ExceptSeq
  <2> HIDE DEF v
  <2>4. /\ \A i, j \in 1 .. Len(a) : a[i] = a[j] => i = j
        /\ \A i \in 1 .. Len(a) : a[i] \in 1 .. n
    BY <1>1, Injective, ElementOfSeq
  <2>5. \A i \in 1 .. Len(a) : a[i] # n + 1
    BY <1>1, <2>4
  <2>6. \A i, j \in 1 .. Len(v) : v[i] = v[j] => i = j
    BY <2>3, <2>4, <2>5
  <2> QED BY <2>3, <2>6, Injective
<1>4. y \in Logs /\ y.records = r /\ y.active = v
  <2>1. v \in Seq(Nat)
    <3> HIDE DEF v, n
    <3>1. 1 .. n + 1 \subseteq Nat
      BY <1>1
    <3> QED BY <1>3, <3>1, SeqMonotonic
  <2> HIDE DEF v, r
  <2>2. y = [x EXCEPT !.records = r, !.active = v]
    BY DEF r, v
  <2> QED BY <1>1, <1>2, <2>1, <2>2 DEF Logs
<1>5. Sound(y)
  <2> HIDE DEF v, r, n
  <2> QED BY <1>2, <1>3, <1>4, SoundIf
<1>6. n + 1 <= MaxRecords /\ n <= n + 1
  <2>1. MaxRecords \in Nat /\ n < MaxRecords
    BY BoundsAssumption
  <2> HIDE DEF n
  <2> QED BY <1>1, <2>1
<1>7. Kept(x, y)
  <2> HIDE DEF r
  <2> QED BY <1>2, <1>4, <1>5, <1>6 DEF Kept, Grows
<1>8. Replay(x, <<MessageReplaced(x.active[k], m)>>) = y
  BY ReplayReplaced
<1> QED BY <1>7, <1>8

LEMMA RemovedPart ==
    ASSUME NEW n, NEW w \in Seq(1 .. n), IsInjective(w), NEW k \in 1 .. Len(w)
    PROVE  RemoveAt(w, k) \in Seq(1 .. n) /\ IsInjective(RemoveAt(w, k))
<1>1. RemoveAt(w, k) = Among(w, Range(w) \ {w[k]})
  BY AmongDrop
<1> QED BY <1>1, AmongType, AmongKeeps

\* A list of known records in any order.
LEMMA OrdersAre ==
    ASSUME NEW n \in Nat, NEW V \in SUBSET (1 .. n), NEW ids \in Orders(V)
    PROVE  ids \in Seq(1 .. n) /\ IsInjective(ids)
<1>1. Cardinality(V) \in Nat
  <2>1. IsFiniteSet(1 .. n)
    BY FS_Interval
  <2>2. IsFiniteSet(V)
    BY <2>1, FS_Subset
  <2> QED BY <2>2, FS_CardinalityType
<1>2. ids \in [1 .. Cardinality(V) -> V] /\ IsInjective(ids)
  BY DEF Orders
<1>3. ids \in Seq(V)
  <2> DEFINE c == Cardinality(V)
  <2> HIDE DEF c
  <2>1. c \in Nat /\ ids \in [1 .. c -> V]
    BY <1>1, <1>2 DEF c
  <2> QED BY <2>1
<1> QED BY <1>2, <1>3, SeqMonotonic

LEMMA ReplaceMessagesKept ==
    ASSUME NEW x, Sound(x), Len(x.records) < MaxRecords,
           NEW new, new = Len(x.records) + 1,
           NEW y, y = [x EXCEPT !.records = Append(x.records, Rewritten), !.active = <<new>>]
    PROVE  /\ Kept(x, y)
           /\ Replay(x, <<MessageRecorded(Rewritten), ContextReplaced(<<new>>)>>) = y
<1> DEFINE old == x.records
           n == Len(old)
           r == Append(old, Rewritten)
           v == <<new>>
           z == [x EXCEPT !.records = r]
<1>1. x \in Logs /\ old \in Seq(Stored) /\ n \in Nat /\ Rewritten \in Stored
  BY SoundParts, Sentences
<1>2. /\ r \in Seq(Stored) /\ Len(r) = n + 1
      /\ \A i \in 1 .. n : r[i] = old[i]
  <2> HIDE DEF old
  <2> QED BY <1>1, Sequences
<1>3. v \in Seq(1 .. n + 1) /\ IsInjective(v) /\ v \in Seq(Nat)
  <2> HIDE DEF n
  <2>1. new = n + 1
    BY DEF n
  <2>2. new \in 1 .. n + 1 /\ new \in Nat
    BY <1>1, <2>1
  <2> QED BY <2>2 DEF IsInjective
<1>4. /\ y \in Logs /\ y.records = r /\ y.active = v
      /\ z \in Logs /\ z.records = r /\ [z EXCEPT !.active = v] = y
  <2> HIDE DEF v, r
  <2>1. y = [x EXCEPT !.records = r, !.active = v]
    BY DEF r, v
  <2> QED BY <1>1, <1>2, <1>3, <2>1 DEF Logs
<1>5. Sound(y)
  <2> HIDE DEF v, r, n
  <2> QED BY <1>2, <1>3, <1>4, SoundIf
<1>6. n + 1 <= MaxRecords /\ n <= n + 1
  <2>1. MaxRecords \in Nat /\ n < MaxRecords
    BY BoundsAssumption
  <2> HIDE DEF n
  <2> QED BY <1>1, <2>1
<1>7. Kept(x, y)
  <2> HIDE DEF r
  <2> QED BY <1>2, <1>4, <1>5, <1>6 DEF Kept, Grows
<1>8. Replayed(x, MessageRecorded(Rewritten)) = z
  BY DEF Replayed, MessageRecorded
<1>9. Replayed(z, ContextReplaced(v)) = [z EXCEPT !.active = v]
  <2> HIDE DEF v, z, r, n
  <2> QED BY <1>2, <1>3, <1>4, ReplayedContext
<1>10. Replay(x, <<MessageRecorded(Rewritten), ContextReplaced(v)>>)
          = Replayed(Replayed(x, MessageRecorded(Rewritten)), ContextReplaced(v))
  BY ReplayTwo
<1> HIDE DEF z, v
<1>11. Replay(x, <<MessageRecorded(Rewritten), ContextReplaced(v)>>) = y
  BY <1>4, <1>8, <1>9, <1>10
<1> QED BY <1>7, <1>11 DEF v

LEMMA SameKept == ASSUME NEW x, Sound(x), Len(x.records) <= MaxRecords PROVE Kept(x, x)
<1>1. Len(x.records) \in Nat
  BY SoundParts
<1> QED BY <1>1 DEF Kept, Grows

LEMMA AddedAllKept ==
    ASSUME NEW x, Sound(x), NEW ms \in Seq(Stored), Len(x.records) + Len(ms) <= MaxRecords
    PROVE  Kept(x, AddedAll(x, ms)) /\ Replay(x, Additions(ms)) = AddedAll(x, ms)
<1>1. x \in Logs
  BY SoundParts
<1>2. /\ Sound(AddedAll(x, ms)) /\ Grows(x, AddedAll(x, ms))
      /\ Len(AddedAll(x, ms).records) = Len(x.records) + Len(ms)
  BY AddedAllSound
<1>3. Replay(x, Additions(ms)) = AddedAll(x, ms)
  BY <1>1, ReplayAdditions
<1> QED BY <1>2, <1>3 DEF Kept

LEMMA AddedKept ==
    ASSUME NEW x, Sound(x), NEW m \in Stored, Len(x.records) < MaxRecords
    PROVE  Kept(x, Added(x, m)) /\ Replay(x, <<MessageAdded(m)>>) = Added(x, m)
<1>1. /\ Sound(Added(x, m)) /\ Grows(x, Added(x, m))
      /\ Len(Added(x, m).records) = Len(x.records) + 1
  BY AddedSound
<1>2. Len(x.records) + 1 <= MaxRecords
  <2>1. Len(x.records) \in Nat
    BY SoundParts
  <2>2. \A k \in Nat : k < MaxRecords => k + 1 <= MaxRecords
    BY BoundsAssumption
  <2> QED BY <2>1, <2>2
<1> QED BY <1>1, <1>2, ReplayAdded DEF Kept

\* What Dispatch and the reply of a turn add.
LEMMA Staging ==
    /\ \A q \in Requests :
          /\ q.staged \in Seq(Stored) /\ q.api \in Apis
          /\ q.over.system \in {0, Override} /\ q.over.tools \in {-1} \cup Tools
          /\ q.thinking \in Thinking
          /\ q.api = "microphone" => q.over = NoOverride
          /\ q.api = "chat" => q.over.system = 0
    /\ <<Recording>> \in Seq(Stored) /\ <<Partial>> \in Seq(Stored) /\ <<>> \in Seq(Stored)
<1>1. {<<>>, <<Ask>>, <<Answer>>, <<Recording>>, <<Partial>>} \subseteq Seq(Stored)
  <2>1. Ask \in Stored /\ Answer \in Stored /\ Recording \in Stored /\ Partial \in Stored
    BY Sentences
  <2> HIDE DEF Ask, Answer, Recording, Partial
  <2> QED BY <2>1
<1>2. ASSUME NEW q \in Requests
      PROVE  /\ q.staged \in {<<>>, <<Ask>>, <<Answer>>} /\ q.api \in Apis
             /\ q.over \in AllOverrides /\ q.thinking \in Thinking
             /\ q.api = "microphone" => q.over = NoOverride
             /\ q.api = "chat" => q.over.system = 0
  BY RequestsAssumption DEF AllRequests
<1>3. \A o \in AllOverrides : o.system \in {0, Override} /\ o.tools \in {-1} \cup Tools
  BY DEF AllOverrides
<1> QED BY <1>1, <1>2, <1>3

LEMMA ReplyIs ==
    ASSUME Types, turn # NoTurn
    PROVE  Reply \in Seq(Stored) /\ Len(Reply) <= 1 /\ Len(Reply) \in Nat
<1>1. Len(s.records) + 1 \in Nat
  BY SoundParts DEF Types, LogOK
<1>2. Answer \in Stored /\ CallOf(Len(s.records) + 1) \in Stored
  BY <1>1, Sentences
<1>3. \A m \in Stored : <<m>> \in Seq(Stored) /\ Len(<<m>>) = 1
  OBVIOUS
<1>4. Len(<<>>) = 0 /\ <<>> \in Seq(Stored)
  OBVIOUS
<1>5. Reply \in {<<>>, <<Answer>>, <<CallOf(Len(s.records) + 1)>>}
  BY DEF Reply
<1>6. CASE Reply = <<>>
  BY <1>4, <1>6
<1>7. CASE Reply = <<Answer>>
  <2>1. <<Answer>> \in Seq(Stored) /\ Len(<<Answer>>) = 1
    BY <1>2, <1>3
  <2> QED BY <1>7, <2>1
<1>8. CASE Reply = <<CallOf(Len(s.records) + 1)>>
  <2> DEFINE m == CallOf(Len(s.records) + 1)
  <2>1. <<m>> \in Seq(Stored) /\ Len(<<m>>) = 1
    <3>1. m \in Stored
      BY <1>2
    <3> HIDE DEF m
    <3> QED BY <1>3, <3>1
  <2> HIDE DEF m
  <2>2. Reply = <<m>>
    BY <1>8 DEF m
  <2> QED BY <2>1, <2>2
<1> QED BY <1>5, <1>6, <1>7, <1>8

-----------------------------------------------------------------------------
(* Every operation of the owner keeps the session.                         *)

LEMMA OwnerKeeps ==
    ASSUME Types, Owner
    PROVE  Kept(s, s') /\ saved' = s'
<1>1. /\ Sound(s) /\ Len(s.records) <= MaxRecords /\ saved = s
      /\ s \in Logs /\ s.records \in Seq(Stored) /\ Len(s.records) \in Nat
      /\ s.active \in Seq(1 .. Len(s.records)) /\ s.active \in Seq(Nat) /\ IsInjective(s.active)
      /\ DOMAIN s.active = 1 .. Len(s.active) /\ DOMAIN s.records = 1 .. Len(s.records)
      /\ Len(s.active) \in Nat
  <2>1. Sound(s) /\ Len(s.records) <= MaxRecords /\ saved = s
    BY DEF Types, LogOK
  <2>2. /\ s \in Logs /\ s.records \in Seq(Stored) /\ Len(s.records) \in Nat
        /\ s.active \in Seq(1 .. Len(s.records)) /\ s.active \in Seq(Nat) /\ IsInjective(s.active)
        /\ Len(s.active) \in Nat
    BY <2>1, SoundParts
  <2> QED BY <2>1, <2>2
<1>2. ASSUME NEW x \in Systems, SetSystem(x) PROVE Kept(s, s') /\ saved' = s'
  BY <1>1, <1>2, SettingKept DEF SetSystem, Do
<1>3. ASSUME NEW x \in Tools, SetTools(x) PROVE Kept(s, s') /\ saved' = s'
  BY <1>1, <1>3, SettingKept DEF SetTools, Do
<1>4. ASSUME NEW m \in Pushed, Push(m) PROVE Kept(s, s') /\ saved' = s'
  <2>1. m \in Stored
    BY Sentences
  <2>2. s' = Added(s, m) /\ saved' = Replay(s, <<MessageAdded(m)>>) /\ Len(s.records) < MaxRecords
    BY <1>1, <1>4 DEF Push, Do
  <2> QED BY <1>1, <2>1, <2>2, AddedKept
<1>5. ASSUME NEW slot \in DOMAIN s.active, ReplaceMessage(slot) PROVE Kept(s, s') /\ saved' = s'
  <2>1. /\ s' = [s EXCEPT !.records = Append(s.records, Rewritten),
                          !.active = [s.active EXCEPT ![slot] = Len(s.records) + 1]]
        /\ saved' = Replay(s, <<MessageReplaced(s.active[slot], Rewritten)>>)
        /\ Len(s.records) < MaxRecords
    BY <1>1, <1>5 DEF ReplaceMessage, Projects, Do
  <2>2. Rewritten \in Stored /\ slot \in 1 .. Len(s.active)
    BY <1>1, Sentences
  <2> QED BY <1>1, <2>1, <2>2, ReplacedKept
<1>6. ASSUME NEW slot \in DOMAIN s.active, RemoveMessage(slot) PROVE Kept(s, s') /\ saved' = s'
  <2>1. /\ s' = [s EXCEPT !.active = RemoveAt(s.active, slot)]
        /\ saved' = Replay(s, <<MessageRemoved(s.active[slot])>>)
    BY <1>1, <1>6 DEF RemoveMessage, Projects, Do
  <2>2. slot \in 1 .. Len(s.active)
    BY <1>1
  <2>3. RemoveAt(s.active, slot) \in Seq(1 .. Len(s.records)) /\ IsInjective(RemoveAt(s.active, slot))
    BY <1>1, <2>2, RemovedPart
  <2>4. Kept(s, s')
    BY <1>1, <2>1, <2>3, ProjectionKept
  <2>5. saved' = s'
    BY <1>1, <2>1, <2>2, ReplayRemoved
  <2> QED BY <2>4, <2>5
<1>7. ASSUME ReplaceMessages PROVE Kept(s, s') /\ saved' = s'
  <2> DEFINE new == Len(s.records) + 1
  <2>1. /\ s' = [s EXCEPT !.records = Append(s.records, Rewritten), !.active = <<new>>]
        /\ saved' = Replay(s, <<MessageRecorded(Rewritten), ContextReplaced(<<new>>)>>)
        /\ Len(s.records) < MaxRecords
    BY <1>1, <1>7 DEF ReplaceMessages, Projects, Do
  <2>2. new = Len(s.records) + 1
    OBVIOUS
  <2> HIDE DEF new
  <2> QED BY <1>1, <2>1, <2>2, ReplaceMessagesKept
<1>8. ASSUME NEW V \in SUBSET DOMAIN s.records, RestoreContext(V) PROVE Kept(s, s') /\ saved' = s'
  <2>1. PICK ids \in Orders(V) : /\ s' = [s EXCEPT !.active = ids]
                                 /\ saved' = Replay(s, <<ContextReplaced(ids)>>)
    BY <1>1, <1>8 DEF RestoreContext, Projects, Do
  <2>2. V \in SUBSET (1 .. Len(s.records))
    BY <1>1
  <2>3. ids \in Seq(1 .. Len(s.records)) /\ IsInjective(ids)
    <3> DEFINE n == Len(s.records)
    <3>1. n \in Nat /\ V \in SUBSET (1 .. n)
      BY <1>1, <2>2
    <3> HIDE DEF n
    <3>2. ids \in Seq(1 .. n) /\ IsInjective(ids)
      BY <3>1, OrdersAre
    <3> QED BY <3>2 DEF n
  <2> QED BY <1>1, <2>1, <2>3, ProjectionKept
<1>9. ASSUME NEW ms \in Seq(Stored), Edit(ms) PROVE Kept(s, s') /\ saved' = s'
  <2>1. /\ s' = EditTo(s, ms) /\ saved' = Replay(s, EditEvents(s, ms))
        /\ Len(EditedAll(s, ms).records) <= MaxRecords
    BY <1>1, <1>9 DEF Edit, Projects, Do, EditTo, EditEvents, EditIds, EditedAll, EditRecorded, RecordedAll
  <2> QED BY <1>1, <2>1, EditIs DEF Kept
<1>10. ASSUME Clear PROVE Kept(s, s') /\ saved' = s'
  <2> DEFINE none == <<>>
  <2>1. /\ s' = [s EXCEPT !.active = none]
        /\ saved' = Replay(s, IF s.active = none THEN <<>> ELSE <<ContextReplaced(none)>>)
    BY <1>1, <1>10 DEF Clear, Do
  <2>2. none \in Seq(1 .. Len(s.records)) /\ IsInjective(none)
    BY DEF IsInjective
  <2> HIDE DEF none
  <2>3. Kept(s, s') /\ Replay(s, <<ContextReplaced(none)>>) = s'
    <3> DEFINE y == s'
    <3>1. y = [s EXCEPT !.active = none]
      BY <2>1
    <3> HIDE DEF y
    <3>2. Sound(s) /\ Len(s.records) <= MaxRecords
      BY <1>1
    <3>3. Kept(s, y) /\ Replay(s, <<ContextReplaced(none)>>) = y
      BY <2>2, <3>1, <3>2, ProjectionKept, SMTT(30)
    <3> QED BY <3>3 DEF y
  <2>4. CASE s.active = none
    <3>1. s' = s
      BY <1>1, <2>1, <2>4, LogIs
    <3>2. saved' = s
      BY <2>1, <2>4, ReplayNone
    <3> QED BY <2>3, <3>1, <3>2
  <2>5. CASE s.active # none
    BY <2>1, <2>3, <2>5
  <2> QED BY <2>4, <2>5
<1>11. ASSUME Fork(s.active, 0) PROVE Kept(s, s') /\ saved' = s'
  <2>1. s' = [s EXCEPT !.active = s.active] /\ saved' = Replay(s, <<Forked(0)>>)
    BY <1>1, <1>11 DEF Fork, Do
  <2>2. s' = s
    BY <1>1, <2>1, LogIs
  <2> QED BY <1>1, <2>1, <2>2, SameKept, ReplayForked
<1>12. ASSUME NEW slot \in DOMAIN s.active, Fork(SubSeq(s.active, 1, slot), s.active[slot])
       PROVE  Kept(s, s') /\ saved' = s'
  <2> DEFINE ids == SubSeq(s.active, 1, slot)
  <2>1. s' = [s EXCEPT !.active = ids] /\ saved' = Replay(s, <<Forked(s.active[slot])>>)
    BY <1>1, <1>12 DEF Fork, Do
  <2>2. ids \in Seq(1 .. Len(s.records)) /\ IsInjective(ids)
    <3> DEFINE a == s.active
               n == Len(s.records)
    <3>1. a \in Seq(1 .. n) /\ slot \in 1 .. Len(a) /\ IsInjective(a)
      BY <1>1
    <3> HIDE DEF a, n
    <3>2. /\ SubSeq(a, 1, slot) \in Seq(1 .. n) /\ Len(SubSeq(a, 1, slot)) = slot
          /\ \A i \in 1 .. slot : SubSeq(a, 1, slot)[i] = a[i]
      <4>1. slot \in Nat /\ slot >= 1 /\ \A i \in 1 .. slot : a[i] \in 1 .. n
        <5>1. Len(a) \in Nat
          BY <3>1, LenProperties
        <5>2. \A i \in 1 .. Len(a) : a[i] \in 1 .. n
          BY <3>1, ElementOfSeq
        <5> QED BY <3>1, <5>1, <5>2
      <4> QED BY <4>1, SubSeqProperties
    <3>3. \A i, j \in 1 .. slot : a[i] = a[j] => i = j
      BY <3>1, Injective
    <3> DEFINE b == SubSeq(a, 1, slot)
    <3> HIDE DEF b
    <3>4. \A i, j \in 1 .. Len(b) : b[i] = b[j] => i = j
      BY <3>2, <3>3 DEF b
    <3>5. IsInjective(b)
      BY <3>2, <3>4, Injective DEF b
    <3> QED BY <3>2, <3>5 DEF a, b, n
  <2> HIDE DEF ids
  <2>3. Kept(s, s')
    BY <1>1, <2>1, <2>2, ProjectionKept
  <2>4. slot \in 1 .. Len(s.active)
    BY <1>1
  <2>5. saved' = [s EXCEPT !.active = ids]
    BY <1>1, <2>1, <2>4, ReplayForked DEF ids
  <2> QED BY <2>1, <2>3, <2>5
<1>13. ASSUME Reopen PROVE Kept(s, s') /\ saved' = s'
  BY <1>1, <1>13, SameKept DEF Reopen
<1>14. ASSUME NEW e \in Engines, NEW m \in Pushed, Refuse(e, m, 0)
       PROVE  Kept(s, s') /\ saved' = s'
  <2> DEFINE x == Added(s, m)
             ids == Trim(s.active, x.records)
             n == Len(x.records)
  <2>1. /\ s' = [x EXCEPT !.active = ids]
        /\ saved' = Replay(s, <<MessageAdded(m), ContextReplaced(s'.active)>>)
        /\ Len(s.records) < MaxRecords
    BY <1>1, <1>14 DEF Refuse, Do
  <2>2. m \in Stored
    BY Sentences
  <2>3. Kept(s, x) /\ Replayed(s, MessageAdded(m)) = x
    <3>1. Kept(s, x) /\ Replay(s, <<MessageAdded(m)>>) = x
      BY <1>1, <2>1, <2>2, AddedKept
    <3>2. Replay(s, <<MessageAdded(m)>>) = Replayed(s, MessageAdded(m))
      BY ReplayOne
    <3> QED BY <3>1, <3>2
  <2> HIDE DEF x
  <2>4. ids \in Seq(1 .. n) /\ IsInjective(ids)
    <3>1. 1 .. Len(s.records) \subseteq 1 .. n
      <4>1. Len(s.records) <= n /\ n \in Nat
        BY <2>3, SoundParts DEF Kept, Grows
      <4> HIDE DEF n
      <4>2. \A k \in Nat : k <= n => 1 .. k \subseteq 1 .. n
        BY <4>1
      <4> QED BY <1>1, <4>1, <4>2
    <3>2. s.active \in Seq(1 .. n)
      BY <1>1, <3>1, SeqMonotonic
    <3> QED BY <1>1, <3>2, TrimSound
  <2> DEFINE y == s'
  <2>5. /\ Kept(x, y) /\ y.active = ids /\ Replay(x, <<ContextReplaced(ids)>>) = y
    <3>1. Sound(x) /\ Len(x.records) <= MaxRecords
      BY <2>3 DEF Kept
    <3> HIDE DEF ids, y
    <3>2. y = [x EXCEPT !.active = ids]
      BY <2>1 DEF y
    <3> QED BY <2>4, <3>1, <3>2, ProjectionKept, SMTT(30)
  <2>6. y.records = x.records
    <3>1. Sound(x) /\ Len(x.records) <= MaxRecords
      BY <2>3 DEF Kept
    <3> HIDE DEF ids, y
    <3>2. y = [x EXCEPT !.active = ids]
      BY <2>1 DEF y
    <3> QED BY <2>4, <3>1, <3>2, ProjectionKept
  <2>7. Kept(s, s')
    <3> HIDE DEF y
    <3>1. Kept(s, y)
      BY <2>3, <2>5, <2>6 DEF Kept, Grows
    <3> QED BY <3>1 DEF y
  <2>8. saved' = s'
    <3>1. Replay(s, <<MessageAdded(m), ContextReplaced(ids)>>)
             = Replayed(Replayed(s, MessageAdded(m)), ContextReplaced(ids))
      BY ReplayTwo
    <3>2. Replay(x, <<ContextReplaced(ids)>>) = Replayed(x, ContextReplaced(ids))
      BY ReplayOne
    <3> HIDE DEF ids
    <3> QED BY <2>1, <2>3, <2>5, <3>1, <3>2
  <2> QED BY <2>7, <2>8
<1>15. Shown \in Seq(Stored)
  <2>1. \A i \in 1 .. Len(s.active) : s.records[s.active[i]] \in Stored
    BY <1>1
  <2>2. Shown = [k \in 1 .. Len(s.active) |-> s.records[s.active[k]]]
    BY <1>1 DEF Shown, View
  <2> DEFINE n == Len(s.active)
             w == [k \in 1 .. n |-> s.records[s.active[k]]]
  <2>3. w \in [1 .. n -> Stored] /\ n \in Nat
    BY <1>1, <2>1
  <2> HIDE DEF n, w
  <2>4. w \in Seq(Stored)
    BY <2>3
  <2> QED BY <2>2, <2>4 DEF w, n
<1>16. ASSUME NEW slot \in DOMAIN s.active
       PROVE  RemoveAt(Shown, slot) \in Seq(Stored) /\ [Shown EXCEPT ![slot] = Rewritten] \in Seq(Stored)
  <2>1. Len(Shown) = Len(s.active)
    BY <1>1 DEF Shown, View
  <2> DEFINE w == Shown
  <2>2. w \in Seq(Stored) /\ slot \in 1 .. Len(w) /\ Rewritten \in Stored
    BY <1>1, <1>15, <2>1, Sentences
  <2> HIDE DEF w
  <2>3. SubSeq(w, 1, slot - 1) \in Seq(Stored) /\ SubSeq(w, slot + 1, Len(w)) \in Seq(Stored)
    BY <2>2
  <2>4. RemoveAt(w, slot) \in Seq(Stored)
    BY <2>3 DEF RemoveAt
  <2>5. [w EXCEPT ![slot] = Rewritten] \in Seq(Stored)
    BY <2>2
  <2> QED BY <2>4, <2>5 DEF w
<1> QED BY <1>2, <1>3, <1>4, <1>5, <1>6, <1>7, <1>8, <1>9, <1>10, <1>11, <1>12, <1>13, <1>14,
           <1>16 DEF Owner

\* What every step leaves of the session and of its log.
LEMMA DispatchKeeps ==
    ASSUME Types, NEW e \in Engines, NEW q \in Requests,
           Dispatch(e, q.api, q.staged, q.over, q.thinking)
    PROVE  /\ Kept(s, s') /\ saved' = s'
           /\ s' = IF q.api = "microphone" THEN s ELSE AddedAll(s, q.staged)
           /\ turn'.staged = IF q.api = "microphone" THEN Append(q.staged, Recording) ELSE <<>>
           /\ turn'.staged \in Seq(Stored)
           /\ Len(s'.records) + Len(turn'.staged) < MaxRecords
<1> DEFINE w == q.staged
           old == s.records
           mic == q.api = "microphone"
           wire == IF mic THEN w \o <<Recording>> ELSE <<>>
<1>1. /\ w \in Seq(Stored) /\ Len(w) \in Nat /\ Sound(s) /\ Len(old) \in Nat /\ saved = s
      /\ Len(old) <= MaxRecords
  <2>1. w \in Seq(Stored)
    BY Staging
  <2>2. Sound(s) /\ saved = s /\ Len(old) <= MaxRecords
    BY DEF Types, LogOK
  <2>3. Len(w) \in Nat
    <3> HIDE DEF w
    <3> QED BY <2>1
  <2> QED BY <2>1, <2>2, <2>3, SoundParts
<1>2. /\ Len(old) + Len(wire) + Len(w) < MaxRecords
      /\ s' = IF mic THEN s ELSE AddedAll(s, w)
      /\ saved' = Replay(s, IF mic THEN <<>> ELSE Additions(w))
      /\ turn'.staged = wire
  BY <1>1 DEF Dispatch, Do
<1>3. wire = IF mic THEN Append(w, Recording) ELSE <<>>
  <2> HIDE DEF w, mic
  <2> QED BY <1>1, Sentences, AppendIsConcat
<1>4. wire \in Seq(Stored) /\ Len(wire) \in Nat
  <2> HIDE DEF w, mic, wire
  <2>1. Recording \in Stored
    BY Sentences
  <2>2. CASE mic
    <3>1. wire = Append(w, Recording)
      BY <1>3, <2>2
    <3> QED BY <1>1, <2>1, <3>1
  <2>3. CASE ~mic
    <3>1. wire = <<>>
      BY <1>3, <2>3
    <3> QED BY <3>1
  <2> QED BY <2>2, <2>3
<1>5. MaxRecords \in Nat
  BY BoundsAssumption
<1>6. CASE mic
  <2>1. s' = s /\ saved' = s
    BY <1>2, <1>6, ReplayNone
  <2>2. Kept(s, s)
    BY <1>1, SameKept
  <2>3. Len(old) + Len(wire) < MaxRecords
    <3> HIDE DEF old, w, wire
    <3> QED BY <1>1, <1>2, <1>4, <1>5
  <2> QED BY <1>2, <1>3, <1>4, <2>1, <2>2, <2>3
<1>7. CASE ~mic
  <2>1. wire = <<>> /\ Len(wire) = 0 /\ s' = AddedAll(s, w) /\ saved' = Replay(s, Additions(w))
    <3>1. wire = <<>>
      BY <1>7
    <3>2. Len(wire) = 0
      <4> HIDE DEF wire
      <4> QED BY <3>1
    <3> QED BY <1>2, <1>7, <3>1, <3>2
  <2>2. Len(old) + Len(w) <= MaxRecords /\ Len(old) + Len(w) + Len(wire) < MaxRecords
    <3> HIDE DEF old, w, wire
    <3> QED BY <1>1, <1>2, <1>4, <1>5, <2>1
  <2>3. Kept(s, AddedAll(s, w)) /\ Replay(s, Additions(w)) = AddedAll(s, w)
    <3> HIDE DEF w
    <3> QED BY <1>1, <2>2, AddedAllKept
  <2>4. Len(AddedAll(s, w).records) = Len(old) + Len(w)
    <3> HIDE DEF w
    <3> QED BY <1>1, AddedAllSound
  <2>5. Len(s'.records) + Len(wire) < MaxRecords
    BY <2>1, <2>2, <2>4
  <2> QED BY <1>2, <1>3, <1>4, <2>1, <2>3, <2>5
<1> QED BY <1>6, <1>7

LEMMA CommitKeeps ==
    ASSUME Types, Commit
    PROVE  /\ Kept(s, s') /\ saved' = s' /\ s' = AddedAll(s, turn.staged)
           /\ turn.staged \in Seq(Stored)
           /\ Len(s'.records) < MaxRecords
<1> DEFINE w == turn.staged
           old == s.records
<1>1. /\ w \in Seq(Stored) /\ Len(old) + Len(w) < MaxRecords /\ Sound(s) /\ saved = s
  BY DEF Types, LogOK, TurnOK, Commit, InTurn
<1>2. s' = AddedAll(s, w) /\ saved' = Replay(s, Additions(w))
  BY <1>1 DEF Commit, Do
<1>3. Len(old) \in Nat /\ MaxRecords \in Nat /\ Len(w) \in Nat
  <2>1. Len(w) \in Nat
    <3> HIDE DEF w
    <3> QED BY <1>1
  <2> QED BY <1>1, <2>1, SoundParts, BoundsAssumption
<1> HIDE DEF w
<1>4. Len(old) + Len(w) <= MaxRecords
  <2> HIDE DEF old
  <2> QED BY <1>1, <1>3
<1>5. Kept(s, s') /\ saved' = s' /\ Len(s'.records) = Len(old) + Len(w)
  BY <1>1, <1>2, <1>4, AddedAllKept, AddedAllSound
<1> QED BY <1>1, <1>2, <1>5 DEF w

LEMMA CompleteKeeps ==
    ASSUME Types, Complete
    PROVE  /\ Kept(s, s') /\ saved' = s'
           /\ \E reply \in Seq(Stored) : Len(reply) <= 1 /\ s' = AddedAll(s, reply)
<1>1. /\ Sound(s) /\ saved = s /\ turn # NoTurn
      /\ Len(s.records) + Len(turn.staged) < MaxRecords /\ turn.staged = <<>>
  BY DEF Types, LogOK, TurnOK, Complete
<1>2. Len(s.records) < MaxRecords
  <2>1. Len(turn.staged) = 0 /\ Len(s.records) \in Nat
    BY <1>1, SoundParts
  <2> DEFINE a == Len(s.records)
             b == Len(turn.staged)
  <2>2. a + b < MaxRecords /\ b = 0 /\ a \in Nat
    BY <1>1, <2>1
  <2> HIDE DEF a, b
  <2>3. a < MaxRecords
    BY <2>2
  <2> QED BY <2>3 DEF a
<1>3. PICK reply \in {<<>>, <<Partial>>, Reply} :
         s' = AddedAll(s, reply) /\ saved' = Replay(s, Additions(reply))
  BY <1>1 DEF Complete, Replied, Do
<1>4. reply \in Seq(Stored) /\ Len(reply) <= 1 /\ Len(reply) \in Nat
  <2>1. Reply \in Seq(Stored) /\ Len(Reply) <= 1 /\ Len(Reply) \in Nat
    BY <1>1, ReplyIs
  <2>2. <<>> \in Seq(Stored) /\ Len(<<>>) = 0
    OBVIOUS
  <2>3. \A m \in Stored : <<m>> \in Seq(Stored) /\ Len(<<m>>) = 1
    OBVIOUS
  <2>4. <<Partial>> \in Seq(Stored) /\ Len(<<Partial>>) = 1
    BY <2>3, Sentences
  <2> DEFINE one == <<Partial>>
             none == <<>>
             P(r) == r \in Seq(Stored) /\ Len(r) <= 1 /\ Len(r) \in Nat
  <2>5. P(one) /\ P(none)
    <3>1. 0 <= 1 /\ 1 <= 1 /\ 0 \in Nat /\ 1 \in Nat
      OBVIOUS
    <3> QED BY <2>2, <2>4, <3>1
  <2>6. P(Reply)
    BY <2>1
  <2> HIDE DEF P
  <2>7. P(reply)
    BY <2>5, <2>6, Zenon
  <2> QED BY <2>7 DEF P
<1>5. Len(s.records) + Len(reply) <= MaxRecords
  <2> DEFINE a == Len(s.records)
  <2>1. a \in Nat /\ a < MaxRecords /\ MaxRecords \in Nat
    BY <1>1, <1>2, SoundParts, BoundsAssumption
  <2> HIDE DEF a
  <2>2. a + Len(reply) <= MaxRecords
    BY <1>4, <2>1
  <2> QED BY <2>2 DEF a
<1>6. Kept(s, s') /\ saved' = s'
  BY <1>1, <1>3, <1>4, <1>5, AddedAllKept
<1> QED BY <1>3, <1>4, <1>6

\* The steps that leave the session alone.
Elsewhere ==
    \/ Leave \/ LeaveAsync \/ LeaveMicrophone \/ Cancel
    \/ Controllers \/ Others \/ UNCHANGED vars

LEMMA ElsewhereKeeps == ASSUME Elsewhere PROVE UNCHANGED session
BY DEF Elsewhere, Leave, LeaveAsync, LeaveMicrophone, Unsettled, Cancel, Controllers, StartChat,
       ContinueChat, Rebuild, StopChat, Finish, Break, Evict, Controlled, Others, Swap, NoteSwap,
       ClearSent, session, vars

LEMMA NextIs ==
    ASSUME [Next]_vars
    PROVE  \/ Owner \/ Commit \/ Complete \/ Elsewhere
           \/ \E e \in Engines, q \in Requests :
                 Dispatch(e, q.api, q.staged, q.over, q.thinking)
BY DEF Next, Run, Reader, Elsewhere

LEMMA SessionKept ==
    ASSUME Types, [Next]_vars
    PROVE  Kept(s, s') /\ saved' = s'
<1>1. CASE Owner
  BY <1>1, OwnerKeeps
<1>2. CASE Commit
  BY <1>2, CommitKeeps
<1>3. CASE Complete
  BY <1>3, CompleteKeeps
<1>4. CASE Elsewhere
  <2>1. Sound(s) /\ Len(s.records) <= MaxRecords /\ saved = s
    BY DEF Types, LogOK
  <2>2. s' = s /\ saved' = saved
    BY <1>4, ElsewhereKeeps DEF session
  <2> QED BY <2>1, <2>2, SameKept
<1>5. ASSUME NEW e \in Engines, NEW q \in Requests,
             Dispatch(e, q.api, q.staged, q.over, q.thinking)
      PROVE  Kept(s, s') /\ saved' = s'
  BY <1>5, DispatchKeeps
<1> QED BY <1>1, <1>2, <1>3, <1>4, <1>5, NextIs

LEMMA LogStep == ASSUME Types, [Next]_vars PROVE LogOK'
BY SessionKept DEF LogOK, Kept

-----------------------------------------------------------------------------
(* The bookkeeping stays what it is.                                       *)

LEMMA BindingParts ==
    /\ NoBinding \in Bindings /\ ~NoBinding.opened
    /\ \A b \in Bindings :
          /\ b.opened \in BOOLEAN /\ b.own \in BOOLEAN /\ b.gen \in Int /\ b.thinking \in Int
          /\ b.prefix = <<>> \/ b.prefix \in Digests
          /\ Closed(b) \in Bindings /\ ~Closed(b).opened /\ Closed(b).thinking = b.thinking
<1>1. NoBinding \in Bindings /\ ~NoBinding.opened
  BY DEF NoBinding, Bindings
<1>2. ASSUME NEW b \in Bindings
      PROVE  /\ b.opened \in BOOLEAN /\ b.own \in BOOLEAN /\ b.gen \in Int /\ b.thinking \in Int
             /\ b.prefix = <<>> \/ b.prefix \in Digests
             /\ Closed(b) \in Bindings /\ ~Closed(b).opened /\ Closed(b).thinking = b.thinking
  BY DEF Bindings, Closed
<1> QED BY <1>1, <1>2

LEMMA ModelNoted ==
    ASSUME NEW b \in Bindings, NEW t \in Int, NEW d, d = NoteModel(b, t)
    PROVE  /\ d \in Bindings /\ d.thinking = b.thinking /\ d.prefix = b.prefix
           /\ d.own = b.own /\ d.gen = t
           /\ d.opened <=> b.opened /\ b.gen = t
BY DEF Bindings, NoteModel

LEMMA ThinkingNoted ==
    ASSUME NEW b \in Bindings, NEW t \in Int, NEW d, d = NoteThinking(b, t)
    PROVE  /\ d \in Bindings /\ d.thinking = t /\ d.prefix = b.prefix
           /\ d.own = b.own /\ d.gen = b.gen
           /\ d.opened <=> b.opened /\ b.thinking = t
BY DEF Bindings, NoteThinking

LEMMA Cleared == ASSUME NEW t \in Int PROVE [NoBinding EXCEPT !.thinking = t] \in Bindings
<1>1. NoBinding \in Bindings
  BY BindingParts
<1> QED BY <1>1 DEF Bindings

\* A digest of what the engine is believed to hold.
LEMMA DigestIs ==
    ASSUME NEW x, Sound(x), NEW count \in Nat, NEW tools \in Tools
    PROVE  /\ Digest(x, count, tools) \in Digests
           /\ Digest(x, count, tools)[1] = tools
           /\ Digest(x, count, tools)[2] = IF count > 0 THEN x.system ELSE 0
           /\ IsPrefix(Digest(x, count, tools)[3], x.active)
<1> DEFINE a == x.active
           sys == x.system
           rest == count - (IF sys # 0 /\ count > 0 THEN 1 ELSE 0)
           take == IF rest < Len(a) THEN rest ELSE Len(a)
           ids == SubSeq(a, 1, take)
           second == IF count > 0 THEN sys ELSE 0
<1>1. a \in Seq(Nat) /\ Len(a) \in Nat /\ sys \in Systems
  BY SoundParts
<1>2. Digest(x, count, tools) = <<tools, second, ids>>
  BY DEF Digest
<1> HIDE DEF a, sys
<1>3. rest \in Nat
  OBVIOUS
<1> HIDE DEF rest
<1>4. take \in 0 .. Len(a)
  BY <1>1, <1>3
<1> HIDE DEF take
<1>5. ids \in Seq(Nat) /\ Len(ids) = take /\ \A i \in 1 .. take : ids[i] = a[i]
  <2>1. take \in Nat /\ Len(a) \in Nat /\ \A i \in 1 .. take : a[i] \in Nat
    <3>1. \A i \in 1 .. Len(a) : a[i] \in Nat
      BY <1>1, ElementOfSeq
    <3> QED BY <1>1, <1>4, <3>1
  <2>2. SubSeq(a, 1, take) \in Seq(Nat) /\ Len(SubSeq(a, 1, take)) = take
        /\ \A i \in 1 .. take : SubSeq(a, 1, take)[i] = a[i]
    <3>1. CASE take = 0
      <4>1. SubSeq(a, 1, 0) = <<>>
        BY <1>1
      <4> QED BY <3>1, <4>1
    <3>2. CASE take # 0
      <4>1. take >= 1
        BY <2>1, <3>2
      <4> QED BY <1>1, <2>1, <4>1, SubSeqProperties
    <3> QED BY <3>1, <3>2
  <2> QED BY <2>2
<1>6. second \in Systems
  BY <1>1 DEF Systems
<1>7. IsPrefix(ids, a)
  <2> HIDE DEF ids
  <2>1. \A p, v \in Seq(Nat) : Len(p) <= Len(v) /\ (\A i \in 1 .. Len(p) : p[i] = v[i]) => IsPrefix(p, v)
    BY DEF IsPrefix
  <2>2. Len(ids) <= Len(a) /\ \A i \in 1 .. Len(ids) : ids[i] = a[i]
    BY <1>1, <1>4, <1>5
  <2> QED BY <1>1, <1>5, <2>1, <2>2
<1> HIDE DEF ids, second
<1> QED BY <1>2, <1>5, <1>6, <1>7 DEF Digests, a, second, sys

\* The owner's operations: the edits of the context, which close the bound engine's
\* bookkeeping, and the others.
LEMMA OwnerIs ==
    ASSUME Owner
    PROVE  \/ Edits
           \/ \E m \in Pushed : Push(m)
           \/ Clear
           \/ \E ids, at : Fork(ids, at)
           \/ Reopen
           \/ \E e \in Engines, m \in Pushed : Refuse(e, m, 0)
<1>1. ASSUME NEW V, RestoreContext(V) PROVE Edits
  BY <1>1 DEF RestoreContext
<1>2. ASSUME NEW ms, Edit(ms) PROVE Edits
  BY <1>2 DEF Edit
<1> QED BY <1>1, <1>2 DEF Owner, SetSystem, SetTools, ReplaceMessage, RemoveMessage, ReplaceMessages

\* The bookkeeping a turn is dispatched with, and its parts.
Books(b, e, x, over, thinking, tools, wire) ==
    LET b1 == NoteThinking(NoteModel(NoteEngine(b, e), generation[e]), thinking)
        b2 == IF over.system # 0 \/ \E k \in DOMAIN wire : wire[k].role = "assistant"
              THEN Closed(b1) ELSE b1
    IN  [b2 EXCEPT !.opened = /\ @
                              /\ PrefixStillHeld(x, b2, sent[e], tools)
                              /\ TailIsAppendable(x, b2, sent[e])]

LEMMA BooksAre ==
    ASSUME NEW b \in Bindings, parked \in [Engines -> Bindings], NEW e \in Engines, NEW x,
           generation \in [Engines -> Nat],
           NEW over, NEW thinking \in Thinking, NEW tools, NEW wire
    PROVE  LET d == Books(b, e, x, over, thinking, tools, wire) IN
           /\ d \in Bindings /\ d.gen = generation[e] /\ d.thinking = thinking
           /\ d.prefix = NoteEngine(b, e).prefix /\ d.own = NoteEngine(b, e).own
           /\ NoteEngine(b, e) \in Bindings
           /\ d.opened => /\ NoteEngine(b, e).opened
                          /\ NoteEngine(b, e).gen = generation[e]
                          /\ NoteEngine(b, e).thinking = thinking
           /\ d.opened => over.system = 0 /\ ~\E k \in DOMAIN wire : wire[k].role = "assistant"
           /\ d.opened => PrefixStillHeld(x, d, sent[e], tools)
           /\ d.opened => TailIsAppendable(x, d, sent[e])
           /\ /\ NoteEngine(b, e).opened
              /\ NoteEngine(b, e).gen = generation[e]
              /\ NoteEngine(b, e).thinking = thinking
              /\ over.system = 0
              /\ ~\E k \in DOMAIN wire : wire[k].role = "assistant"
              /\ PrefixStillHeld(x, d, sent[e], tools)
              /\ TailIsAppendable(x, d, sent[e])
              => d.opened
<1> DEFINE d == Books(b, e, x, over, thinking, tools, wire)
           b0 == NoteEngine(b, e)
           bm == NoteModel(b0, generation[e])
           b1 == NoteThinking(bm, thinking)
           out == over.system # 0 \/ \E k \in DOMAIN wire : wire[k].role = "assistant"
           b2 == IF out THEN Closed(b1) ELSE b1
           P(y) == PrefixStillHeld(x, y, sent[e], tools) /\ TailIsAppendable(x, y, sent[e])
<1>1. b0 \in Bindings /\ generation[e] \in Int /\ thinking \in Int
  BY DEF NoteEngine, Thinking
<1>2. d = [b2 EXCEPT !.opened = @ /\ PrefixStillHeld(x, b2, sent[e], tools)
                                 /\ TailIsAppendable(x, b2, sent[e])]
  BY DEF Books
<1>3. P(b2) <=> PrefixStillHeld(x, b2, sent[e], tools) /\ TailIsAppendable(x, b2, sent[e])
  OBVIOUS
<1>4. \A y, z : y.prefix = z.prefix /\ y.own = z.own => (P(y) <=> P(z))
  BY DEF PrefixStillHeld, TailIsAppendable
<1>13. bm = NoteModel(b0, generation[e]) /\ b1 = NoteThinking(bm, thinking)
  OBVIOUS
<1> HIDE DEF b0, P, bm, b1, d
<1>5. /\ bm \in Bindings /\ bm.thinking = b0.thinking /\ bm.prefix = b0.prefix
      /\ bm.own = b0.own /\ bm.gen = generation[e]
      /\ bm.opened <=> b0.opened /\ b0.gen = generation[e]
  BY <1>1, <1>13 DEF NoteModel, Bindings
<1>6. /\ b1 \in Bindings /\ b1.thinking = thinking /\ b1.prefix = b0.prefix
      /\ b1.own = b0.own /\ b1.gen = generation[e]
      /\ b1.opened <=> bm.opened /\ bm.thinking = thinking
  BY <1>1, <1>5, <1>13 DEF NoteThinking, Bindings
<1>7. /\ b2 \in Bindings /\ b2.thinking = thinking /\ b2.prefix = b0.prefix
      /\ b2.own = b0.own /\ b2.gen = generation[e]
      /\ b2.opened <=> b1.opened /\ ~out
  <2> HIDE DEF out
  <2> QED BY <1>6, BindingParts DEF Closed, Bindings
<1> HIDE DEF b2
<1>8. d = [b2 EXCEPT !.opened = b2.opened /\ P(b2)]
  BY <1>2, <1>3
<1>9. /\ d \in Bindings /\ d.thinking = thinking /\ d.prefix = b0.prefix
      /\ d.own = b0.own /\ d.gen = generation[e]
      /\ d.opened <=> b2.opened /\ P(b2)
  BY <1>7, <1>8 DEF Bindings
<1>10. P(d) <=> P(b2)
  BY <1>4, <1>7, <1>9
<1>11. P(d) <=> PrefixStillHeld(x, d, sent[e], tools) /\ TailIsAppendable(x, d, sent[e])
  BY DEF P
<1>12. out <=> over.system # 0 \/ \E k \in DOMAIN wire : wire[k].role = "assistant"
  OBVIOUS
<1> HIDE DEF out
<1> QED BY <1>1, <1>5, <1>6, <1>7, <1>9, <1>10, <1>11, <1>12 DEF b0, d

LEMMA BooksHeld ==
    ASSUME NEW b \in Bindings, parked \in [Engines -> Bindings], NEW e \in Engines, NEW x,
           generation \in [Engines -> Nat],
           NEW over, NEW thinking \in Thinking, NEW tools, NEW wire, NEW n, n = sent[e],
           NEW d, d = Books(b, e, x, over, thinking, tools, wire), d.opened
    PROVE  PrefixStillHeld(x, d, n, tools) /\ TailIsAppendable(x, d, n)
BY BooksAre

LEMMA ParkedIs ==
    ASSUME NEW b \in Bindings, BooksOK, NEW e \in Engines
    PROVE  /\ Parked(b, e) \in [Engines -> Bindings]
           /\ \A y \in Engines : Parked(b, e)[y].opened => y # e
           /\ \A y \in Engines \ {e} :
                 /\ y # bound => Parked(b, e)[y] = parked[y]
                 /\ y = bound => Parked(b, e)[y] = IF b.opened THEN b ELSE parked[y]
<1>1. parked \in [Engines -> Bindings] /\ \A y \in Engines : parked[y].opened => y # bound
  BY DEF BooksOK
<1>2. NoBinding \in Bindings /\ ~NoBinding.opened
  BY BindingParts
<1>3. CASE bound = e
  BY <1>1, <1>3 DEF Parked
<1>4. CASE bound # e
  <2>1. Parked(b, e) = [y \in Engines |-> CASE y = e -> NoBinding
                                            [] y = bound /\ y # e /\ b.opened -> b
                                            [] OTHER -> parked[y]]
    BY <1>4 DEF Parked
  <2>2. \A y \in Engines :
           Parked(b, e)[y] = IF y = e THEN NoBinding
                             ELSE IF y = bound /\ b.opened THEN b ELSE parked[y]
    BY <2>1
  <2>3. Parked(b, e) \in [Engines -> Bindings]
    BY <1>1, <1>2, <2>1
  <2> QED BY <1>2, <1>4, <2>2, <2>3
<1> QED BY <1>3, <1>4

LEMMA DispatchBooks ==
    ASSUME Types, NEW e \in Engines, NEW q \in Requests,
           Dispatch(e, q.api, q.staged, q.over, q.thinking)
    PROVE  LET b == IF PerTurn(q.api, q.over) THEN Closed(bk) ELSE bk
               tools == IF q.over.tools = -1 THEN s'.tools ELSE q.over.tools
               wire == IF q.api = "microphone" THEN q.staged \o <<Recording>> ELSE <<>>
           IN  /\ b \in Bindings /\ tools \in Tools
               /\ bk' = Books(b, e, s', q.over, q.thinking, tools, wire)
               /\ parked' = Parked(b, e) /\ bound' = e /\ turn'.tools = tools
<1> DEFINE b == IF PerTurn(q.api, q.over) THEN Closed(bk) ELSE bk
           wire == IF q.api = "microphone" THEN q.staged \o <<Recording>> ELSE <<>>
           x == IF q.api = "microphone" THEN s ELSE AddedAll(s, q.staged)
           tools == IF q.over.tools = -1 THEN x.tools ELSE q.over.tools
<1>1. b \in Bindings
  BY BindingParts DEF Types, BooksOK
<1>2. /\ s' = x /\ parked' = Parked(b, e) /\ bound' = e
      /\ bk' = Books(b, e, x, q.over, q.thinking, tools, wire) /\ turn'.tools = tools
  BY DEF Dispatch, Books
<1>3. tools \in Tools
  <2>1. s'.tools \in Tools
    BY DispatchKeeps, SoundParts DEF Kept
  <2>2. q.over.tools \in {-1} \cup Tools
    BY Staging
  <2>3. tools = IF q.over.tools = -1 THEN s'.tools ELSE q.over.tools
    BY <1>2
  <2> HIDE DEF tools
  <2> QED BY <2>1, <2>2, <2>3
<1> HIDE DEF b, wire, x
<1> QED BY <1>1, <1>2, <1>3 DEF b, wire

LEMMA EmptyBooks ==
    /\ [e \in Engines |-> NoBinding] \in [Engines -> Bindings]
    /\ \A e \in Engines : ~[y \in Engines |-> NoBinding][e].opened
BY BindingParts

LEMMA OwnerBooks == ASSUME Types, Owner PROVE BooksOK'
<1>1. BooksOK /\ NoBinding \in Bindings
  BY BindingParts DEF Types
<1>2. CASE Edits
  <2>1. Closed(bk) \in Bindings
    BY <1>1, BindingParts DEF BooksOK
  <2> QED BY <1>1, <1>2, <2>1 DEF BooksOK, Edits, engines
<1>3. ASSUME NEW m \in Pushed, Push(m) PROVE BooksOK'
  BY <1>1, <1>3 DEF BooksOK, Push, binding, engines
<1>4. CASE Clear
  <2>1. [NoBinding EXCEPT !.thinking = bk.thinking] \in Bindings
    BY <1>1, BindingParts, Cleared DEF BooksOK
  <2> QED BY <1>1, <1>4, <2>1, EmptyBooks DEF BooksOK, Clear, engines
<1>5. ASSUME NEW ids, NEW at, Fork(ids, at) PROVE BooksOK'
  BY <1>1, <1>5, EmptyBooks DEF BooksOK, Fork
<1>6. CASE Reopen
  BY <1>1, <1>6, EmptyBooks DEF BooksOK, Reopen, engines
<1>7. ASSUME NEW e \in Engines, NEW m \in Pushed, Refuse(e, m, 0) PROVE BooksOK'
  <2>1. bk \in Bindings /\ bk' = NoteThinking(NoteModel(NoteEngine(bk, e), generation[e]), 0)
        /\ generation[e] \in Int /\ NoteEngine(bk, e) \in Bindings
    BY <1>1, <1>7 DEF BooksOK, Refuse, NoteEngine
  <2>2. bk' \in Bindings
    <3> DEFINE d == NoteModel(NoteEngine(bk, e), generation[e])
    <3>1. d \in Bindings
      BY <2>1, ModelNoted, Zenon
    <3>2. bk' = NoteThinking(d, 0) /\ 0 \in Int
      BY <2>1
    <3> HIDE DEF d
    <3> QED BY <3>1, <3>2, ThinkingNoted, Zenon
  <2>3. /\ Parked(bk, e) \in [Engines -> Bindings]
        /\ \A y \in Engines : Parked(bk, e)[y].opened => y # e
    BY <1>1, <2>1, ParkedIs
  <2> QED BY <1>1, <1>7, <2>2, <2>3 DEF BooksOK, Refuse, engines
<1> QED BY <1>2, <1>3, <1>4, <1>5, <1>6, <1>7, OwnerIs

LEMMA CompleteBooks ==
    ASSUME Types, Complete
    PROVE  BooksOK'
<1>1. /\ BooksOK /\ Sound(s) /\ turn # NoTurn /\ turn.tools \in Tools /\ turn.got \in Nat
      /\ turn.engine \in Engines /\ bk \in Bindings /\ sent \in [Engines -> Nat]
      /\ parked' = parked /\ bound' = bound /\ generation' = generation
  BY DEF Types, LogOK, BooksOK, TurnOK, InTurn, Complete
<1> DEFINE e == turn.engine
           n == (IF bk.opened THEN sent[e] ELSE 0) + turn.got
           d == Digest(s, n, turn.tools)
           b == IF turn.got = 0 THEN bk ELSE [bk EXCEPT !.opened = TRUE, !.prefix = d, !.own = TRUE]
<1>2. n \in Nat /\ d \in Digests
  <2>1. n \in Nat
    BY <1>1
  <2> HIDE DEF n
  <2> QED BY <1>1, <2>1, DigestIs
<1>3. b \in Bindings /\ Closed(b) \in Bindings
  <2> HIDE DEF n, d
  <2>1. b \in Bindings
    BY <1>1, <1>2 DEF Bindings
  <2> HIDE DEF b
  <2> QED BY <2>1, BindingParts
<1>4. Settled(bk).b = b /\ Settled(bk).sent \in [Engines -> Nat]
  <2>1. Settled(bk) = IF turn.got = 0 THEN [b |-> bk, sent |-> sent]
                      ELSE [b |-> b, sent |-> [sent EXCEPT ![e] = n]]
    BY DEF Settled
  <2> HIDE DEF n, e
  <2>2. [sent EXCEPT ![e] = n] \in [Engines -> Nat]
    BY <1>1, <1>2
  <2> QED BY <1>1, <2>1, <2>2
<1>5. sent' = Settled(bk).sent /\ bk' \in {Settled(bk).b, Closed(Settled(bk).b)}
  BY DEF Complete, Replied
<1>6. warm' \in {e, NoEngine}
  BY DEF Complete
<1> HIDE DEF b, e
<1>7. bk' \in Bindings
  BY <1>3, <1>4, <1>5
<1>8. sent' \in [Engines -> Nat]
  BY <1>4, <1>5
<1> QED BY <1>1, <1>6, <1>7, <1>8 DEF BooksOK, e

LEMMA BooksStep == ASSUME Types, [Next]_vars PROVE BooksOK'
<1>1. BooksOK
  BY DEF Types
<1>2. CASE Owner
  BY <1>2, OwnerBooks
<1>3. CASE Commit
  BY <1>1, <1>3 DEF BooksOK, Commit, binding
<1>4. CASE Complete
  BY <1>4, CompleteBooks
<1>5. ASSUME NEW e \in Engines, NEW q \in Requests,
             Dispatch(e, q.api, q.staged, q.over, q.thinking)
      PROVE  BooksOK'
  <2> DEFINE b == IF PerTurn(q.api, q.over) THEN Closed(bk) ELSE bk
             tools == IF q.over.tools = -1 THEN s'.tools ELSE q.over.tools
             wire == IF q.api = "microphone" THEN q.staged \o <<Recording>> ELSE <<>>
  <2>1. /\ b \in Bindings
        /\ bk' = Books(b, e, s', q.over, q.thinking, tools, wire)
        /\ parked' = Parked(b, e) /\ bound' = e
    BY <1>5, DispatchBooks
  <2>2. q.thinking \in Thinking
    BY Staging
  <2>3. parked \in [Engines -> Bindings] /\ generation \in [Engines -> Nat]
    BY <1>1 DEF BooksOK
  <2> HIDE DEF b, tools, wire
  <2>4. bk' \in Bindings
    BY <2>1, <2>2, <2>3, BooksAre
  <2>5. /\ Parked(b, e) \in [Engines -> Bindings]
        /\ \A y \in Engines : Parked(b, e)[y].opened => y # e
    BY <1>1, <2>1, ParkedIs
  <2>6. warm' = NoEngine /\ sent' = sent /\ generation' = generation
    BY <1>5 DEF Dispatch
  <2> QED BY <1>1, <2>1, <2>4, <2>5, <2>6 DEF BooksOK
<1>6. CASE Elsewhere
  <2>1. CASE Leave \/ LeaveAsync \/ LeaveMicrophone
    <3>1. bk' \in {bk, Closed(bk)} /\ UNCHANGED <<parked, bound, generation, warm>>
      BY <2>1 DEF Leave, LeaveAsync, LeaveMicrophone, Unsettled
    <3>2. sent' \in [Engines -> Nat]
      <4>1. sent' = sent \/ sent' = [sent EXCEPT ![turn.engine] = 0]
        BY <2>1 DEF Leave, LeaveAsync, LeaveMicrophone
      <4>2. sent \in [Engines -> Nat]
        BY <1>1 DEF BooksOK
      <4> QED BY <4>1, <4>2
    <3>3. Closed(bk) \in Bindings
      BY <1>1, BindingParts DEF BooksOK
    <3> QED BY <1>1, <3>1, <3>2, <3>3 DEF BooksOK
  <2>2. CASE Cancel \/ Controllers
    BY <1>1, <2>2 DEF BooksOK, Cancel, Controllers, StartChat, ContinueChat, Rebuild, StopChat,
                      Finish, Break, Evict, Controlled, binding
  <2>3. CASE Others
    <3>1. sent' \in [Engines -> Nat] /\ generation' \in [Engines -> Nat]
          /\ UNCHANGED <<bk, parked, bound>> /\ warm' \in {warm, NoEngine}
      BY <1>1, <2>3 DEF BooksOK, Others, Swap, NoteSwap, ClearSent, binding
    <3> QED BY <1>1, <3>1 DEF BooksOK
  <2>4. CASE UNCHANGED vars
    BY <1>1, <2>4 DEF BooksOK, vars
  <2> QED BY <1>6, <2>1, <2>2, <2>3, <2>4 DEF Elsewhere
<1> QED BY <1>2, <1>3, <1>4, <1>5, <1>6, NextIs

-----------------------------------------------------------------------------
(* Commands, runtimes and the turn stay what they are.                     *)

LEMMA Slice ==
    ASSUME NEW X, NEW w \in Seq(X), NEW m \in Nat, m >= 1, NEW n \in Nat, n <= Len(w)
    PROVE  /\ SubSeq(w, m, n) \in Seq(X)
           /\ Len(SubSeq(w, m, n)) = IF m <= n THEN n - m + 1 ELSE 0
           /\ \A i \in 1 .. Len(SubSeq(w, m, n)) : SubSeq(w, m, n)[i] = w[m + i - 1]
<1>1. Len(w) \in Nat /\ \A i \in 1 .. Len(w) : w[i] \in X
  BY LenProperties, ElementOfSeq
<1>2. CASE m > n
  <2>1. SubSeq(w, m, n) = <<>>
    BY <1>2
  <2> QED BY <1>2, <2>1
<1>3. CASE m <= n
  <2>1. \A i \in m .. n : w[i] \in X
    BY <1>1
  <2> QED BY <1>1, <1>3, <2>1, SubSeqProperties
<1> QED BY <1>2, <1>3

Offset(system) == IF system = 0 THEN 0 ELSE 1

\* A transcript: the prompt, when there is one, then what the projection shows.
LEMMA TranscriptIs ==
    ASSUME NEW x, Sound(x), NEW system \in 0 .. 2,
           NEW t, t = Transcript(x, system)
    PROVE  /\ View(x.active, x.records) \in Seq(Stored)
           /\ Len(View(x.active, x.records)) = Len(x.active)
           /\ \A k \in 1 .. Len(x.active) :
                 View(x.active, x.records)[k] = x.records[x.active[k]]
           /\ Prompt(system) \in Seq(Msgs) /\ Len(Prompt(system)) = Offset(system)
           /\ t \in Seq(Msgs) /\ Len(t) = Offset(system) + Len(x.active)
           /\ \A k \in 1 .. Offset(system) :
                 t[k] = Message("system", system, <<>>, NoCall) /\ t[k].role = "system"
           /\ \A k \in 1 .. Len(x.active) :
                 /\ t[Offset(system) + k] = x.records[x.active[k]]
                 /\ t[Offset(system) + k] \in Stored
<1> DEFINE a == x.active
           r == x.records
           v == View(a, r)
           p == Prompt(system)
           o == Offset(system)
           m == Message("system", system, <<>>, NoCall)
<1>1. /\ a \in Seq(Nat) /\ Len(a) \in Nat /\ r \in Seq(Stored)
      /\ \A k \in 1 .. Len(a) : a[k] \in 1 .. Len(r)
  BY SoundParts DEF Sound
<1>2. v \in Seq(Stored) /\ Len(v) = Len(a) /\ \A k \in 1 .. Len(a) : v[k] = r[a[k]]
  <2>1. v = [k \in 1 .. Len(a) |-> r[a[k]]]
    BY <1>1 DEF View
  <2> HIDE DEF a, r
  <2>2. \A k \in 1 .. Len(a) : r[a[k]] \in Stored
    BY <1>1, ElementOfSeq
  <2> DEFINE n == Len(a)
             f == [k \in 1 .. n |-> r[a[k]]]
  <2>3. f \in [1 .. n -> Stored] /\ n \in Nat /\ \A k \in 1 .. n : f[k] = r[a[k]]
    BY <1>1, <2>2
  <2> HIDE DEF n
  <2>4. v = f
    BY <2>1 DEF n
  <2>5. f \in Seq(Stored) /\ Len(f) = n
    BY <2>3
  <2> HIDE DEF f, v
  <2> QED BY <2>3, <2>4, <2>5 DEF n
<1>3. p = IF system = 0 THEN <<>> ELSE <<m>>
  BY DEF Prompt
<1>4. m.role = "system" /\ (system # 0 => m \in Msgs)
  BY DEF Message, Msgs, Prompts, Override
<1>5. p \in Seq(Msgs) /\ Len(p) = o /\ o \in 0 .. 1 /\ \A k \in 1 .. o : p[k] = m
  <2> HIDE DEF m, p
  <2> QED BY <1>3, <1>4 DEF Offset
<1>6. v \in Seq(Msgs)
  <2>1. Stored \subseteq Msgs
    BY DEF Msgs
  <2> HIDE DEF v
  <2> QED BY <1>2, <2>1, SeqMonotonic
<1>7. t = p \o v
  BY DEF Transcript
<1>8. /\ t \in Seq(Msgs) /\ Len(t) = o + Len(v)
      /\ \A k \in 1 .. o : t[k] = p[k]
      /\ \A k \in 1 .. Len(v) : t[o + k] = v[k]
  <2> HIDE DEF p, v, o
  <2> QED BY <1>5, <1>6, <1>7, Sequences
<1>9. \A k \in 1 .. Len(a) : v[k] \in Stored
  <2> HIDE DEF v, a
  <2> QED BY <1>2, ElementOfSeq
<1> HIDE DEF m, p, v, o
<1>10. \A k \in 1 .. Len(a) : t[o + k] = r[a[k]] /\ t[o + k] \in Stored
  BY <1>2, <1>8, <1>9
<1>11. \A k \in 1 .. o : t[k] = m /\ t[k].role = "system"
  BY <1>4, <1>5, <1>8
<1>12. Len(t) = o + Len(a)
  BY <1>2, <1>8
<1> QED BY <1>2, <1>5, <1>8, <1>10, <1>11, <1>12 DEF m, p, v, o

LEMMA PendingIs ==
    ASSUME NEW x, Sound(x), NEW opened \in BOOLEAN, NEW count \in Nat
    PROVE  /\ Pending(x, opened, count) \in Seq(Msgs)
           /\ count <= Len(Transcript(x, x.system)) =>
                 SubSeq(Transcript(x, x.system), 1, count) \in Seq(Msgs)
<1> DEFINE t == Transcript(x, x.system)
<1>1. x.system \in 0 .. 2
  BY SoundParts DEF Systems
<1>2. t \in Seq(Msgs)
  BY <1>1, TranscriptIs
<1>3. Pending(x, opened, count) = IF opened THEN SubSeq(t, count + 1, Len(t)) ELSE t
  BY DEF Pending
<1> HIDE DEF t
<1>4. Len(t) \in Nat /\ Len(t) <= Len(t) /\ count + 1 \in Nat /\ count + 1 >= 1 /\ 1 \in Nat /\ 1 >= 1
  BY <1>2, LenProperties
<1>5. SubSeq(t, count + 1, Len(t)) \in Seq(Msgs)
  BY <1>2, <1>4, Slice
<1>6. count <= Len(t) => SubSeq(t, 1, count) \in Seq(Msgs)
  BY <1>2, <1>4, Slice
<1> QED BY <1>2, <1>3, <1>5, <1>6 DEF t

\* The command a turn is sent as.
Sent(e) == queue'[e][Len(queue[e]) + 1]

\* What a request puts on the wire, the tools it offers, and the prompt it runs under.
Wired(q) == IF q.api = "microphone" THEN q.staged \o <<Recording>> ELSE <<>>
Offered(q, x) == IF q.over.tools = -1 THEN x.tools ELSE q.over.tools
Under(q, x) == IF q.over.system # 0 THEN q.over.system ELSE x.system

LEMMA DispatchSends ==
    ASSUME Types, NEW e \in Engines, NEW q \in Requests,
           Dispatch(e, q.api, q.staged, q.over, q.thinking),
           NEW c, c = Sent(e),
           NEW wire, wire = Wired(q), NEW tools, tools = Offered(q, s'), NEW sys, sys = Under(q, s')
    PROVE  /\ queue' = [queue EXCEPT ![e] = Append(@, c)]
           /\ c \in Calls
           /\ c.kind = IF bk'.opened THEN "continue" ELSE "start"
           /\ c.n = turns + 1
           /\ c.messages = Joined(IF q.over.system # 0 THEN Transcript(s', sys)
                                  ELSE Pending(s', bk'.opened, sent[e]), wire)
           /\ c.prefix = IF bk'.opened THEN SubSeq(Transcript(s', s'.system), 1, sent[e]) ELSE <<>>
           /\ c.pins = <<tools, q.thinking>>
           /\ c.capture = (q.api = "microphone")
           /\ c.asked = Joined(Transcript(s', sys), wire)
           /\ wire \in Seq(Stored) /\ sys \in 0 .. 2 /\ tools \in Tools
<1> DEFINE b == IF PerTurn(q.api, q.over) THEN Closed(bk) ELSE bk
           x == IF q.api = "microphone" THEN s ELSE AddedAll(s, q.staged)
           d == Books(b, e, x, q.over, q.thinking, tools, wire)
           cc == [kind |-> IF ~d.opened THEN "start" ELSE "continue", n |-> turns + 1,
                  messages |-> (IF q.over.system # 0 THEN Transcript(x, sys)
                                ELSE Pending(x, ~~d.opened, sent[e])) \o wire,
                  prefix |-> IF ~d.opened THEN <<>> ELSE SubSeq(Transcript(x, x.system), 1, sent[e]),
                  pins |-> <<tools, q.thinking>>, capture |-> q.api = "microphone",
                  asked |-> Transcript(x, sys) \o wire]
<1>0. /\ wire = IF q.api = "microphone" THEN q.staged \o <<Recording>> ELSE <<>>
      /\ tools = IF q.over.tools = -1 THEN s'.tools ELSE q.over.tools
      /\ sys = IF q.over.system # 0 THEN q.over.system ELSE s'.system
  BY DEF Wired, Offered, Under
<1>1. s' = x
  BY DEF Dispatch
<1>2. bk' = d /\ queue' = [queue EXCEPT ![e] = Append(@, cc)]
  <2> DEFINE wire0 == IF q.api = "microphone" THEN q.staged \o <<Recording>> ELSE <<>>
             tools0 == IF q.over.tools = -1 THEN x.tools ELSE q.over.tools
             sys0 == IF q.over.system # 0 THEN q.over.system ELSE x.system
             d0 == Books(b, e, x, q.over, q.thinking, tools0, wire0)
             cc0 == [kind |-> IF ~d0.opened THEN "start" ELSE "continue", n |-> turns + 1,
                     messages |-> (IF q.over.system # 0 THEN Transcript(x, sys0)
                                   ELSE Pending(x, ~~d0.opened, sent[e])) \o wire0,
                     prefix |-> IF ~d0.opened THEN <<>>
                                ELSE SubSeq(Transcript(x, x.system), 1, sent[e]),
                     pins |-> <<tools0, q.thinking>>, capture |-> q.api = "microphone",
                     asked |-> Transcript(x, sys0) \o wire0]
  <2>1. bk' = d0
    BY DEF Dispatch, Books
  <2>2. queue' = [queue EXCEPT ![e] = Append(@, cc0)]
    BY DEF Dispatch, Books
  <2>3. wire0 = wire /\ tools0 = tools /\ sys0 = sys
    BY <1>0, <1>1
  <2> HIDE DEF wire0, tools0, sys0, x, b
  <2>4. d0 = d
    BY <2>3
  <2> HIDE DEF d, d0
  <2>5. cc0 = cc
    BY <2>3, <2>4
  <2> HIDE DEF cc, cc0
  <2> QED BY <2>1, <2>2, <2>4, <2>5
<1>3. queue \in [Engines -> Seq(Calls \cup Stops)]
  BY DEF Types, QueueOK
<1>4. c = cc
  <2> HIDE DEF cc
  <2>1. queue'[e] = Append(queue[e], cc) /\ queue[e] \in Seq(Calls \cup Stops)
    BY <1>2, <1>3
  <2>2. Append(queue[e], cc)[Len(queue[e]) + 1] = cc
    BY <2>1
  <2> QED BY <2>1, <2>2 DEF Sent
<1>5. bk' \in Bindings /\ tools \in Tools
      /\ (bk'.opened => PrefixStillHeld(s', bk', sent[e], tools))
  <2>1. /\ b \in Bindings /\ tools \in Tools /\ bk' = Books(b, e, s', q.over, q.thinking, tools, wire)
    BY <1>0, DispatchBooks
  <2>2. q.thinking \in Thinking
    BY Staging
  <2>3. parked \in [Engines -> Bindings] /\ generation \in [Engines -> Nat]
    BY DEF Types, BooksOK
  <2> HIDE DEF b
  <2> DEFINE bb == bk'
             y == s'
             o == q.over
             t == q.thinking
  <2>4. bb = Books(b, e, y, o, t, tools, wire)
    BY <2>1
  <2>5. t \in Thinking
    BY <2>2
  <2> HIDE DEF bb, y, o, t
  <2>6. bb \in Bindings
    BY <2>1, <2>3, <2>4, <2>5, BooksAre
  <2>7. ASSUME bb.opened PROVE PrefixStillHeld(y, bb, sent[e], tools)
    <3> DEFINE n == sent[e]
    <3>1. n = sent[e]
      OBVIOUS
    <3> HIDE DEF n
    <3>2. PrefixStillHeld(y, bb, n, tools)
      BY <2>1, <2>3, <2>4, <2>5, <2>7, <3>1, BooksHeld
    <3> QED BY <3>2 DEF n
  <2> QED BY <2>1, <2>6, <2>7 DEF bb, y
<1>6. wire \in Seq(Stored)
  <2>1. CASE q.api = "microphone"
    <3>1. q.staged \in Seq(Stored) /\ Recording \in Stored
      BY Staging, Sentences
    <3> HIDE DEF Recording
    <3> QED BY <1>0, <2>1, <3>1
  <2>2. CASE q.api # "microphone"
    BY <1>0, <2>2
  <2> QED BY <2>1, <2>2
<1>7. Sound(s') /\ sent[e] \in Nat /\ s'.system \in 0 .. 2
  <2>1. Sound(s')
    BY DispatchKeeps DEF Kept
  <2>2. s'.system \in Systems
    BY <2>1, SoundParts
  <2> QED BY <2>1, <2>2 DEF Types, BooksOK, Systems
<1>8. sys \in 0 .. 2
  BY <1>0, <1>7, Staging DEF Override
<1>9. /\ cc.kind = IF bk'.opened THEN "continue" ELSE "start"
      /\ cc.n = turns + 1
      /\ cc.messages = (IF q.over.system # 0 THEN Transcript(s', sys)
                        ELSE Pending(s', bk'.opened, sent[e])) \o wire
      /\ cc.prefix = IF bk'.opened THEN SubSeq(Transcript(s', s'.system), 1, sent[e]) ELSE <<>>
      /\ cc.pins = <<tools, q.thinking>>
      /\ cc.capture = (q.api = "microphone")
      /\ cc.asked = Transcript(s', sys) \o wire
      /\ DOMAIN cc = {"kind", "n", "messages", "prefix", "pins", "capture", "asked"}
  <2>1. bk'.opened \in BOOLEAN
    BY <1>5, BindingParts
  <2>2. ~~d.opened = bk'.opened /\ (~d.opened <=> ~bk'.opened)
    BY <1>2, <2>1
  <2> HIDE DEF d, x
  <2> QED BY <1>1, <2>1, <2>2
<1>10. c \in Calls
  <2>1. cc.messages \in Seq(Msgs)
    <3> DEFINE m == IF q.over.system # 0 THEN Transcript(s', sys)
                    ELSE Pending(s', bk'.opened, sent[e])
    <3>1. m \in Seq(Msgs)
      <4>1. Transcript(s', sys) \in Seq(Msgs)
        BY <1>7, <1>8, TranscriptIs
      <4>2. bk'.opened \in BOOLEAN
        BY <1>5, BindingParts
      <4>3. Pending(s', bk'.opened, sent[e]) \in Seq(Msgs)
        BY <1>7, <4>2, PendingIs
      <4> QED BY <4>1, <4>3
    <3>2. wire \in Seq(Msgs)
      <4>1. Stored \subseteq Msgs
        BY DEF Msgs
      <4> QED BY <1>6, <4>1, SeqMonotonic
    <3>3. cc.messages = m \o wire
      BY <1>9
    <3> HIDE DEF m, cc
    <3> QED BY <3>1, <3>2, <3>3
  <2>2. cc.asked \in Seq(Msgs)
    <3> DEFINE m == Transcript(s', sys)
    <3>1. m \in Seq(Msgs)
      BY <1>7, <1>8, TranscriptIs
    <3>2. wire \in Seq(Msgs)
      <4>1. Stored \subseteq Msgs
        BY DEF Msgs
      <4> QED BY <1>6, <4>1, SeqMonotonic
    <3>3. cc.asked = m \o wire
      BY <1>9
    <3> HIDE DEF m, cc
    <3> QED BY <3>1, <3>2, <3>3
  <2>3. cc.prefix \in Seq(Msgs)
    <3>1. CASE bk'.opened
      <4>1. sent[e] <= Len(Transcript(s', s'.system))
        BY <1>5, <3>1 DEF PrefixStillHeld
      <4>2. SubSeq(Transcript(s', s'.system), 1, sent[e]) \in Seq(Msgs)
        <5>1. TRUE \in BOOLEAN
          OBVIOUS
        <5> QED BY <1>7, <4>1, <5>1, PendingIs
      <4> HIDE DEF cc
      <4> QED BY <1>9, <3>1, <4>2
    <3>2. CASE ~bk'.opened
      <4>1. <<>> \in Seq(Msgs)
        OBVIOUS
      <4> HIDE DEF cc
      <4> QED BY <1>9, <3>2, <4>1
    <3> QED BY <3>1, <3>2
  <2>4. /\ cc.kind \in {"start", "continue"} /\ cc.n \in Nat
        /\ cc.pins \in Pins /\ cc.capture \in BOOLEAN
    <3>1. q.thinking \in Thinking /\ turns \in Nat
      BY Staging, BoundsAssumption DEF Types, CountOK
    <3>2. <<tools, q.thinking>> \in Pins
      BY <1>5, <3>1 DEF Pins
    <3> HIDE DEF cc
    <3> QED BY <1>9, <3>1, <3>2
  <2>5. cc = [kind |-> cc.kind, n |-> cc.n, messages |-> cc.messages, prefix |-> cc.prefix,
              pins |-> cc.pins, capture |-> cc.capture, asked |-> cc.asked]
    OBVIOUS
  <2> HIDE DEF cc
  <2>6. cc \in Calls
    BY <2>1, <2>2, <2>3, <2>4, <2>5 DEF Calls
  <2> QED BY <1>4, <2>6
<1> HIDE DEF cc
<1> QED BY <1>2, <1>4, <1>5, <1>6, <1>8, <1>9, <1>10 DEF Joined

\* What can be in a queue, at its head and after it.
LEMMA QueueParts ==
    ASSUME QueueOK, NEW e \in Engines
    PROVE  /\ queue[e] \in Seq(Calls \cup Stops) /\ Len(queue[e]) \in Nat
           /\ DOMAIN queue[e] = 1 .. Len(queue[e])
           /\ \A k \in 1 .. Len(queue[e]) :
                 /\ queue[e][k].kind = "stop" <=> queue[e][k] \in Stops
                 /\ queue[e][k].kind # "stop" <=> queue[e][k] \in Calls
           /\ queue[e] # <<>> =>
                 /\ Len(queue[e]) >= 1 /\ Head(queue[e]) = queue[e][1]
                 /\ Tail(queue[e]) \in Seq(Calls \cup Stops)
                 /\ Len(Tail(queue[e])) = Len(queue[e]) - 1
                 /\ \A k \in 1 .. Len(queue[e]) - 1 : Tail(queue[e])[k] = queue[e][k + 1]
<1> DEFINE w == queue[e]
<1>1. w \in Seq(Calls \cup Stops)
  BY DEF QueueOK
<1> HIDE DEF w
<1>2. Len(w) \in Nat /\ DOMAIN w = 1 .. Len(w) /\ \A k \in 1 .. Len(w) : w[k] \in Calls \cup Stops
  BY <1>1
<1>3. /\ \A c \in Calls : c.kind # "stop" /\ c \notin Stops
      /\ \A c \in Stops : c.kind = "stop" /\ c \notin Calls
  BY DEF Calls, Stops
<1>4. w # <<>> => /\ Len(w) >= 1 /\ Head(w) = w[1]
                  /\ Tail(w) \in Seq(Calls \cup Stops)
                  /\ Len(Tail(w)) = Len(w) - 1
                  /\ \A k \in 1 .. Len(w) - 1 : Tail(w)[k] = w[k + 1]
  BY <1>1, <1>2, HeadTailProperties, EmptySeq
<1>5. \A k \in 1 .. Len(w) : /\ w[k].kind = "stop" <=> w[k] \in Stops
                             /\ w[k].kind # "stop" <=> w[k] \in Calls
  BY <1>2, <1>3
<1> QED BY <1>1, <1>2, <1>4, <1>5 DEF w

LEMMA HeadIs ==
    ASSUME QueueOK, NEW e \in Engines, NEW kind \in {"start", "continue"}, Command(e, kind)
    PROVE  Head(queue[e]) \in Calls
<1>1. queue[e] # <<>> /\ Head(queue[e]).kind = kind
  BY DEF Command
<1>2. Len(queue[e]) >= 1 /\ Head(queue[e]) = queue[e][1] /\ Len(queue[e]) \in Nat
  BY <1>1, QueueParts
<1>3. 1 \in 1 .. Len(queue[e])
  <2> DEFINE n == Len(queue[e])
  <2>1. n \in Nat /\ n >= 1
    BY <1>2
  <2> HIDE DEF n
  <2>2. 1 \in 1 .. n
    BY <2>1
  <2> QED BY <2>2 DEF n
<1>4. queue[e][1].kind # "stop"
  BY <1>1, <1>2
<1> QED BY <1>2, <1>3, <1>4, QueueParts

\* A command for an engine is added at the end of its queue, or the first one is taken.
LEMMA QueueStep == ASSUME Types, [Next]_vars PROVE QueueOK'
<1>1. QueueOK /\ queue \in [Engines -> Seq(Calls \cup Stops)]
  BY DEF Types, QueueOK
<1>2. ASSUME NEW e \in Engines, NEW c \in Calls \cup Stops, queue' = [queue EXCEPT ![e] = Append(@, c)]
      PROVE  QueueOK'
  <2>1. Append(queue[e], c) \in Seq(Calls \cup Stops)
    <3> DEFINE w == queue[e]
    <3>1. w \in Seq(Calls \cup Stops)
      BY <1>1
    <3> HIDE DEF w
    <3>2. Append(w, c) \in Seq(Calls \cup Stops)
      BY <3>1
    <3> QED BY <3>2 DEF w
  <2> QED BY <1>1, <1>2, <2>1 DEF QueueOK
<1>3. ASSUME NEW e \in Engines, queue[e] # <<>>, Taken(e) PROVE QueueOK'
  <2>1. Tail(queue[e]) \in Seq(Calls \cup Stops)
    BY <1>1, <1>3, QueueParts
  <2> QED BY <1>1, <1>3, <2>1 DEF QueueOK, Taken
<1>4. CASE queue' = queue
  BY <1>1, <1>4 DEF QueueOK
<1>5. CASE Owner
  <2>1. queue' = queue
    BY <1>5, OwnerIs DEF Edits, Push, Clear, Fork, Reopen, Refuse, engines
  <2> QED BY <1>4, <2>1
<1>6. CASE Commit \/ Complete
  BY <1>4, <1>6 DEF Commit, Complete
<1>7. ASSUME NEW e \in Engines, NEW q \in Requests,
             Dispatch(e, q.api, q.staged, q.over, q.thinking)
      PROVE  QueueOK'
  <2>1. queue' = [queue EXCEPT ![e] = Append(@, Sent(e))] /\ Sent(e) \in Calls
    BY <1>7, DispatchSends
  <2> HIDE DEF Sent
  <2> QED BY <1>2, <2>1
<1>8. CASE Elsewhere
  <2>1. CASE Leave
    BY <1>4, <2>1 DEF Leave
  <2>2. CASE LeaveAsync \/ LeaveMicrophone \/ Cancel
    <3>1. turn \in InTurn
      BY <2>2 DEF Types, TurnOK, LeaveAsync, LeaveMicrophone, Cancel
    <3>2. turn.engine \in Engines /\ [kind |-> "stop", n |-> turn.n] \in Stops
      BY <3>1 DEF InTurn, Stops
    <3>3. queue' = [queue EXCEPT ![turn.engine] = Append(@, [kind |-> "stop", n |-> turn.n])]
      BY <2>2 DEF LeaveAsync, LeaveMicrophone, Cancel
    <3> QED BY <1>2, <3>2, <3>3
  <2>3. CASE Controllers
    <3>1. PICK e \in Engines : \/ StartChat(e) \/ ContinueChat(e) \/ Rebuild(e) \/ StopChat(e)
                               \/ Finish(e) \/ Break(e) \/ Evict(e)
      BY <2>3 DEF Controllers
    <3>2. queue' = queue \/ (queue[e] # <<>> /\ Taken(e))
      BY <3>1 DEF StartChat, ContinueChat, Rebuild, StopChat, Finish, Break, Evict, Command
    <3> QED BY <1>3, <1>4, <3>2
  <2>4. CASE Others \/ UNCHANGED vars
    BY <1>4, <2>4 DEF Others, Swap, NoteSwap, ClearSent, vars
  <2> QED BY <1>8, <2>1, <2>2, <2>3, <2>4 DEF Elsewhere
<1> QED BY <1>5, <1>6, <1>7, <1>8, NextIs

LEMMA CountStep == ASSUME Types, [Next]_vars PROVE CountOK'
<1>1. turns \in 0 .. MaxTurns /\ spent \in 0 .. MaxSteps /\ MaxSteps \in Nat /\ MaxTurns \in Nat
  BY BoundsAssumption DEF Types, CountOK
<1>2. Spend => spent' \in 0 .. MaxSteps
  BY <1>1 DEF Spend
<1>3. CASE Owner
  <2>1. turns' = turns /\ Spend
    BY <1>3, OwnerIs DEF Edits, Push, Clear, Fork, Reopen, Refuse
  <2> QED BY <1>1, <1>2, <2>1 DEF CountOK
<1>4. CASE Commit \/ Complete
  BY <1>1, <1>4 DEF Commit, Complete, CountOK
<1>5. ASSUME NEW e \in Engines, NEW q \in Requests,
             Dispatch(e, q.api, q.staged, q.over, q.thinking)
      PROVE  CountOK'
  <2>1. turns < MaxTurns /\ turns' = turns + 1 /\ Spend
    BY <1>5 DEF Dispatch
  <2> QED BY <1>1, <1>2, <2>1 DEF CountOK
<1>6. CASE Elsewhere
  <2>1. turns' = turns /\ (spent' = spent \/ Spend)
    BY <1>6 DEF Elsewhere, Leave, LeaveAsync, LeaveMicrophone, Unsettled, Cancel, Controllers,
         StartChat, ContinueChat, Rebuild, StopChat, Finish, Break, Evict, Controlled, Start,
         Others, Swap, NoteSwap, ClearSent, vars
  <2> QED BY <1>1, <1>2, <2>1 DEF CountOK
<1> QED BY <1>3, <1>4, <1>5, <1>6, NextIs

LEMMA OpenedIs ==
    ASSUME NEW c \in Calls, NEW ms \in Seq(Msgs)
    PROVE  Opened(c, ms) \in Runtimes
<1>1. c.n \in Nat /\ c.pins \in Pins /\ c.asked \in Seq(Msgs)
  BY DEF Calls
<1>2. {c.n} \in SUBSET Nat
  BY <1>1
<1> QED BY <1>1, <1>2 DEF Opened, Runtimes

LEMMA AppendableIs ==
    ASSUME NEW ms \in Seq(Msgs)
    PROVE  Appendable(ms) \in Seq(Msgs)
<1>1. \A S : Among(ms, S) \in Seq(Msgs)
  BY AmongType
<1> QED BY <1>1 DEF Appendable

LEMMA ContinuedIs ==
    ASSUME NEW r \in Runtimes, NEW c \in Calls
    PROVE  Continued(r, c) \in Runtimes
<1>1. /\ c.n \in Nat /\ c.pins \in Pins /\ c.asked \in Seq(Msgs) /\ c.messages \in Seq(Msgs)
      /\ r.turns \in SUBSET Nat /\ r.context \in Seq(Msgs)
  BY DEF Calls, Runtimes
<1>2. r.turns \cup {c.n} \in SUBSET Nat
  BY <1>1
<1>3. r.context \o Appendable(c.messages) \in Seq(Msgs)
  BY <1>1, AppendableIs
<1> QED BY <1>1, <1>2, <1>3 DEF Continued, Runtimes

LEMMA IdleIs ==
    ASSUME NEW r \in Runtimes, NEW w \in Seq(Msgs)
    PROVE  Idle(r, w) \in Runtimes
<1>1. r.context \o w \in Seq(Msgs) /\ <<>> \in Seq(Msgs)
  BY DEF Runtimes
<1> QED BY <1>1 DEF Idle, Runtimes

LEMMA Replies ==
    ASSUME Types
    PROVE  /\ <<>> \in Seq(Msgs) /\ <<Partial>> \in Seq(Msgs) /\ <<Answer>> \in Seq(Msgs)
           /\ <<CallOf(Len(s.records) + 1)>> \in Seq(Msgs)
<1>1. Len(s.records) + 1 \in Nat
  BY SoundParts DEF Types, LogOK
<1>2. Partial \in Msgs /\ Answer \in Msgs /\ CallOf(Len(s.records) + 1) \in Msgs
  BY <1>1, Sentences DEF Msgs
<1>3. \A m \in Msgs : <<m>> \in Seq(Msgs)
  OBVIOUS
<1> QED BY <1>2, <1>3

\* What a controller makes of a runtime.
LEMMA RuntimeStep == ASSUME Types, [Next]_vars PROVE RuntimeOK'
<1>1. /\ RuntimeOK /\ QueueOK
      /\ \A e \in Engines : runtime[e] # NoRuntime => runtime[e] \in Runtimes
  BY DEF Types, RuntimeOK
<1>2. ASSUME NEW e \in Engines, NEW v \in Runtimes \cup {NoRuntime},
             runtime' = [runtime EXCEPT ![e] = v]
      PROVE  RuntimeOK'
  BY <1>1, <1>2 DEF RuntimeOK
<1>3. CASE runtime' = runtime
  BY <1>1, <1>3 DEF RuntimeOK
<1>4. NoRuntime.state = "none"
  BY DEF NoRuntime
<1>5. ASSUME NEW e \in Engines, NEW c \in Calls, NEW ms \in Seq(Msgs), Start(e, c, ms)
      PROVE  RuntimeOK'
  <2>1. Opened(c, ms) \in Runtimes
    BY OpenedIs
  <2>2. \/ runtime' = runtime
        \/ runtime' = [runtime EXCEPT ![e] = NoRuntime]
        \/ runtime' = [runtime EXCEPT ![e] = Opened(c, ms)]
    BY <1>5 DEF Start
  <2> QED BY <1>2, <1>3, <2>1, <2>2
<1>6. CASE Owner
  <2>1. runtime' = runtime \/ runtime' = [e \in Engines |-> NoRuntime]
    BY <1>6, OwnerIs DEF Edits, Push, Clear, Fork, Reopen, Refuse, engines
  <2>2. CASE runtime' = [e \in Engines |-> NoRuntime]
    BY <2>2 DEF RuntimeOK
  <2> QED BY <1>3, <2>1, <2>2
<1>7. CASE Commit
  <2>1. turn.engine \in Engines /\ runtime[turn.engine].state = "capturing"
        /\ runtime' = [runtime EXCEPT ![turn.engine].state = "generating"]
    BY <1>7 DEF Types, TurnOK, InTurn, Commit
  <2>2. runtime[turn.engine] \in Runtimes
    BY <1>1, <1>4, <2>1
  <2>3. [runtime[turn.engine] EXCEPT !.state = "generating"] \in Runtimes
    BY <2>2 DEF Runtimes
  <2>4. runtime' = [runtime EXCEPT ![turn.engine] = [runtime[turn.engine] EXCEPT !.state = "generating"]]
    BY <2>1
  <2> QED BY <1>2, <2>1, <2>3, <2>4
<1>8. CASE Complete
  BY <1>3, <1>8 DEF Complete
<1>9. ASSUME NEW e \in Engines, NEW q \in Requests,
             Dispatch(e, q.api, q.staged, q.over, q.thinking)
      PROVE  RuntimeOK'
  BY <1>3, <1>9 DEF Dispatch
<1>10. CASE Elsewhere
  <2>1. CASE Leave \/ LeaveAsync \/ LeaveMicrophone \/ Cancel \/ UNCHANGED vars
    BY <1>3, <2>1 DEF Leave, LeaveAsync, LeaveMicrophone, Unsettled, Cancel, vars
  <2>2. CASE Others
    BY <1>2, <1>3, <2>2 DEF Others, Swap, NoteSwap, ClearSent
  <2>3. ASSUME NEW e \in Engines, StartChat(e) PROVE RuntimeOK'
    <3>1. Head(queue[e]) \in Calls
      BY <1>1, <2>3, HeadIs DEF StartChat
    <3>2. Head(queue[e]).messages \in Seq(Msgs)
      BY <3>1 DEF Calls
    <3> QED BY <1>5, <2>3, <3>1, <3>2 DEF StartChat
  <2>4. ASSUME NEW e \in Engines, ContinueChat(e) PROVE RuntimeOK'
    <3> DEFINE c == Head(queue[e])
               r == runtime[e]
    <3>1. c \in Calls /\ r \in Runtimes
      BY <1>1, <2>4, HeadIs DEF ContinueChat
    <3>2. Continued(r, c) \in Runtimes /\ Idle(Continued(r, c), <<>>) \in Runtimes
      BY <3>1, ContinuedIs, IdleIs, Replies
    <3>3. \/ runtime' = runtime
          \/ runtime' = [runtime EXCEPT ![e] = NoRuntime]
          \/ runtime' = [runtime EXCEPT ![e] = Continued(r, c)]
          \/ runtime' = [runtime EXCEPT ![e] = Idle(Continued(r, c), <<>>)]
      BY <2>4 DEF ContinueChat
    <3> HIDE DEF r, c
    <3> QED BY <1>2, <1>3, <3>2, <3>3
  <2>5. ASSUME NEW e \in Engines, Rebuild(e) PROVE RuntimeOK'
    <3> DEFINE c == Head(queue[e])
    <3>1. c \in Calls
      BY <1>1, <2>5, HeadIs DEF Rebuild
    <3>2. c.prefix \o c.messages \in Seq(Msgs)
      <4>1. c.prefix \in Seq(Msgs) /\ c.messages \in Seq(Msgs)
        BY <3>1 DEF Calls
      <4> HIDE DEF c
      <4> QED BY <4>1
    <3>3. Start(e, c, c.prefix \o c.messages)
      BY <2>5 DEF Rebuild
    <3> HIDE DEF c
    <3> QED BY <1>5, <3>1, <3>2, <3>3
  <2>6. ASSUME NEW e \in Engines, StopChat(e) \/ Evict(e) PROVE RuntimeOK'
    BY <1>2, <2>6 DEF StopChat, Evict
  <2>7. ASSUME NEW e \in Engines, Finish(e) PROVE RuntimeOK'
    <3>1. runtime[e] \in Runtimes
      BY <1>1, <1>4, <2>7 DEF Finish
    <3>2. PICK reply \in {Answer, CallOf(Len(s.records) + 1)} :
             runtime' = [runtime EXCEPT ![e] =
                           IF Reading(@.n) THEN Idle(@, <<reply>>) ELSE NoRuntime]
      BY <2>7 DEF Finish
    <3>3. Idle(runtime[e], <<reply>>) \in Runtimes
      <4>1. <<reply>> \in Seq(Msgs)
        BY Replies
      <4> QED BY <3>1, <4>1, IdleIs
    <3>4. \/ runtime' = [runtime EXCEPT ![e] = NoRuntime]
          \/ runtime' = [runtime EXCEPT ![e] = Idle(runtime[e], <<reply>>)]
      BY <3>2
    <3> QED BY <1>2, <3>3, <3>4
  <2>8. ASSUME NEW e \in Engines, Break(e) PROVE RuntimeOK'
    <3>1. runtime[e] \in Runtimes
      BY <1>1, <1>4, <2>8 DEF Break, InFlight
    <3>2. Idle(runtime[e], <<Partial>>) \in Runtimes
      BY <3>1, Replies, IdleIs
    <3>3. \/ runtime' = [runtime EXCEPT ![e] = NoRuntime]
          \/ runtime' = [runtime EXCEPT ![e] = Idle(runtime[e], <<Partial>>)]
      BY <2>8 DEF Break
    <3> QED BY <1>2, <3>2, <3>3
  <2> QED BY <1>10, <2>1, <2>2, <2>3, <2>4, <2>5, <2>6, <2>7, <2>8 DEF Elsewhere, Controllers
<1> QED BY <1>6, <1>7, <1>8, <1>9, <1>10, NextIs

\* The reader of a turn in flight hears of it; nobody else does.
LEMMA TurnTold ==
    ASSUME TurnOK, NEW n, NEW got \in Nat,
           NEW end \in {"none", "answer", "call", "stopped", "error"},
           UNCHANGED <<turns, bound, s>>,
           turn' = turn \/ turn' = Told(n, got, end) \/ turn' = Ended(n, end)
    PROVE  TurnOK'
<1>1. CASE turn = NoTurn
  BY <1>1 DEF TurnOK, Told, Ended, Reading
<1>2. CASE turn # NoTurn
  <2>1. turn \in InTurn /\ turn.n > 0 /\ turn.n = turns /\ bound = turn.engine
        /\ Len(s.records) + Len(turn.staged) < MaxRecords
    BY <1>2 DEF TurnOK
  <2>2. turn' \in InTurn /\ turn'.n = turn.n /\ turn'.engine = turn.engine
        /\ turn'.staged = turn.staged
    BY <2>1 DEF InTurn, Told, Ended
  <2> QED BY <2>1, <2>2 DEF TurnOK
<1> QED BY <1>1, <1>2

LEMMA TurnStep == ASSUME Types, [Next]_vars PROVE TurnOK'
<1>1. /\ TurnOK /\ QueueOK /\ RuntimeOK /\ turns \in Nat
      /\ turn # NoTurn => turn \in InTurn
  <2>1. turns \in Nat
    BY BoundsAssumption DEF Types, CountOK
  <2> QED BY <2>1 DEF Types, TurnOK
<1>2. CASE turn' = NoTurn
  BY <1>2 DEF TurnOK
<1>3. CASE Owner
  <2>1. turn' = NoTurn
    BY <1>3, OwnerIs DEF Edits, Push, Clear, Fork, Reopen, Refuse
  <2> QED BY <1>2, <2>1
<1>4. CASE Commit
  <2>1. /\ turn \in InTurn /\ turn.n > 0 /\ turn.n = turns /\ bound = turn.engine
        /\ turn' = [turn EXCEPT !.staged = <<>>] /\ UNCHANGED <<turns, bound>>
    BY <1>1, <1>4 DEF TurnOK, Commit, binding
  <2>2. turn' \in InTurn /\ turn'.n = turn.n /\ turn'.engine = turn.engine
        /\ turn'.staged = <<>>
    <3> DEFINE none == <<>>
               t == turn'
    <3>1. none \in Seq(Stored) /\ t = [turn EXCEPT !.staged = none] /\ turn \in InTurn
      BY <2>1
    <3> HIDE DEF none, t
    <3>2. t \in InTurn /\ t.n = turn.n /\ t.engine = turn.engine /\ t.staged = none
      BY <3>1 DEF InTurn
    <3> QED BY <3>2 DEF none, t
  <2>3. Len(s'.records) + Len(<<>>) < MaxRecords
    <3>1. Len(s'.records) < MaxRecords /\ Len(s'.records) \in Nat
      BY <1>4, CommitKeeps, SoundParts DEF Kept
    <3>2. Len(<<>>) = 0
      OBVIOUS
    <3>3. \A k \in Nat : k + 0 = k
      OBVIOUS
    <3> QED BY <3>1, <3>2, <3>3
  <2> QED BY <2>1, <2>2, <2>3 DEF TurnOK
<1>5. CASE Complete
  BY <1>2, <1>5 DEF Complete
<1>6. ASSUME NEW e \in Engines, NEW q \in Requests,
             Dispatch(e, q.api, q.staged, q.over, q.thinking)
      PROVE  TurnOK'
  <2>1. /\ turn'.staged \in Seq(Stored) /\ Len(s'.records) + Len(turn'.staged) < MaxRecords
    BY <1>6, DispatchKeeps
  <2>2. turn'.tools \in Tools /\ q.api \in Apis
    BY <1>6, DispatchBooks, Staging
  <2>3. /\ turns' = turns + 1 /\ bound' = e
        /\ turn'.n = turns + 1 /\ turn'.engine = e /\ turn'.api = q.api
        /\ turn'.closes = PerTurn(q.api, q.over) /\ turn'.got = 0 /\ turn'.end = "none"
        /\ turn'.cold \in BOOLEAN /\ PerTurn(q.api, q.over) \in BOOLEAN
        /\ turn' = [n |-> turn'.n, engine |-> turn'.engine, api |-> turn'.api,
                    staged |-> turn'.staged, tools |-> turn'.tools, closes |-> turn'.closes,
                    got |-> turn'.got, end |-> turn'.end, cold |-> turn'.cold]
    BY <1>6 DEF Dispatch, PerTurn
  <2>4. turn' \in InTurn
    <3> DEFINE t == turn'
    <3> HIDE DEF t
    <3>1. /\ t.n = turns + 1 /\ t.engine = e /\ t.api = q.api /\ t.got = 0 /\ t.end = "none"
          /\ t.cold \in BOOLEAN /\ t.closes \in BOOLEAN /\ t.tools \in Tools
          /\ t.staged \in Seq(Stored)
      BY <2>1, <2>2, <2>3 DEF t
    <3>2. t = [n |-> t.n, engine |-> t.engine, api |-> t.api, staged |-> t.staged,
               tools |-> t.tools, closes |-> t.closes, got |-> t.got, end |-> t.end,
               cold |-> t.cold]
      BY <2>3 DEF t
    <3>3. turns + 1 \in Nat /\ 0 \in Nat
      BY <1>1
    <3>4. t \in InTurn
      BY <2>2, <3>1, <3>2, <3>3 DEF InTurn
    <3> QED BY <3>4 DEF t
  <2>5. turns + 1 > 0 /\ turns + 1 = turns'
    BY <1>1, <2>3
  <2> QED BY <2>1, <2>3, <2>4, <2>5 DEF TurnOK
<1>7. CASE Elsewhere
  <2>1. CASE Leave \/ LeaveAsync \/ LeaveMicrophone
    BY <1>2, <2>1 DEF Leave, LeaveAsync, LeaveMicrophone, Unsettled
  <2>2. CASE Cancel \/ UNCHANGED vars
    BY <1>1, <2>2 DEF TurnOK, Cancel, binding, session, vars
  <2>3. CASE Controllers \/ Others
    <3>1. UNCHANGED <<turns, bound, s>>
      BY <2>3 DEF Controllers, StartChat, ContinueChat, Rebuild, StopChat, Finish, Break, Evict,
           Controlled, binding, session, Others, Swap, NoteSwap, ClearSent
    <3>2. 0 \in Nat
      OBVIOUS
    <3>3. ASSUME NEW n, NEW end \in {"none", "answer", "call", "stopped", "error"},
                 turn' = turn \/ turn' = Ended(n, end)
          PROVE  TurnOK'
      BY <1>1, <3>1, <3>2, <3>3, TurnTold
    <3>4. ASSUME NEW n, NEW got \in Nat, turn' = Told(n, got, "none") PROVE TurnOK'
      BY <1>1, <3>1, <3>4, TurnTold
    <3>5. ASSUME NEW e \in Engines, NEW c \in Calls, NEW ms \in Seq(Msgs), Start(e, c, ms)
          PROVE  TurnOK'
      <4>1. Len(ms) \in Nat
        OBVIOUS
      <4>2. turn' = Ended(c.n, "error") \/ turn' = Told(c.n, Len(ms), "none")
        BY <3>5 DEF Start
      <4> QED BY <3>3, <3>4, <4>1, <4>2
    <3>6. ASSUME NEW e \in Engines, StartChat(e) PROVE TurnOK'
      <4>1. Head(queue[e]) \in Calls
        BY <1>1, <3>6, HeadIs DEF StartChat
      <4>2. Head(queue[e]).messages \in Seq(Msgs)
        BY <4>1 DEF Calls
      <4> QED BY <3>5, <3>6, <4>1, <4>2 DEF StartChat
    <3>7. ASSUME NEW e \in Engines, ContinueChat(e) PROVE TurnOK'
      <4> DEFINE c == Head(queue[e])
      <4>1. c \in Calls
        BY <1>1, <3>7, HeadIs DEF ContinueChat
      <4>2. turn' = Ended(c.n, "error") \/ turn' = Told(c.n, Len(c.messages), "none")
        BY <3>7 DEF ContinueChat
      <4> HIDE DEF c
      <4>3. c.messages \in Seq(Msgs)
        BY <4>1 DEF Calls
      <4>4. Len(c.messages) \in Nat
        <5> DEFINE w == c.messages
        <5> HIDE DEF w
        <5>1. w \in Seq(Msgs) => Len(w) \in Nat
          OBVIOUS
        <5> QED BY <4>3, <5>1 DEF w
      <4> QED BY <3>3, <3>4, <4>2, <4>4
    <3>8. ASSUME NEW e \in Engines, Rebuild(e) PROVE TurnOK'
      <4> DEFINE c == Head(queue[e])
      <4>1. c \in Calls
        BY <1>1, <3>8, HeadIs DEF Rebuild
      <4>2. c.prefix \o c.messages \in Seq(Msgs)
        <5>1. c.prefix \in Seq(Msgs) /\ c.messages \in Seq(Msgs)
          BY <4>1 DEF Calls
        <5> HIDE DEF c
        <5> QED BY <5>1
      <4>3. Start(e, c, c.prefix \o c.messages)
        BY <3>8 DEF Rebuild
      <4> HIDE DEF c
      <4> QED BY <3>5, <4>1, <4>2, <4>3
    <3>9. ASSUME NEW e \in Engines, StopChat(e) \/ Swap(e) PROVE TurnOK'
      <4>1. turn' = turn \/ turn' = Ended(runtime[e].n, "stopped")
        BY <3>9 DEF StopChat, Swap
      <4> QED BY <3>3, <4>1
    <3>10. ASSUME NEW e \in Engines, Finish(e) PROVE TurnOK'
      <4>1. \/ turn' = Ended(runtime[e].n, "answer")
            \/ turn' = Ended(runtime[e].n, "call")
        BY <3>10 DEF Finish
      <4> QED BY <3>3, <4>1
    <3>11. ASSUME NEW e \in Engines, Break(e) \/ Evict(e) \/ NoteSwap(e) \/ ClearSent(e)
           PROVE  TurnOK'
      <4>1. turn' = turn \/ turn' = Ended(runtime[e].n, "error")
        BY <3>11 DEF Break, Evict, NoteSwap, ClearSent
      <4> QED BY <3>3, <4>1
    <3> QED BY <2>3, <3>6, <3>7, <3>8, <3>9, <3>10, <3>11 DEF Controllers, Others
  <2> QED BY <1>7, <2>1, <2>2, <2>3 DEF Elsewhere
<1> QED BY <1>3, <1>4, <1>5, <1>6, <1>7, NextIs

LEMMA InitTypes == Init => Types
<1> SUFFICES ASSUME Init PROVE Types
  OBVIOUS
<1>1. BlankLog \in Logs
  BY DEF BlankLog, Logs, Systems, Tools
<1>2. BlankLog.active = <<>> /\ BlankLog.records = <<>>
  BY DEF BlankLog
<1>3. LogOK
  <2>1. <<>> \in Seq(1 .. Len(BlankLog.records)) /\ IsInjective(<<>>)
    BY DEF IsInjective
  <2>2. Sound(BlankLog)
    BY <1>1, <1>2, <2>1, SoundIf
  <2>3. Len(BlankLog.records) = 0 /\ 0 <= MaxRecords
    BY <1>2, BoundsAssumption
  <2> QED BY <2>2, <2>3 DEF Init, LogOK
<1>4. BooksOK
  <2>1. 0 \in Nat
    OBVIOUS
  <2> QED BY <2>1, EmptyBooks, BindingParts DEF Init, BooksOK
<1>5. QueueOK
  <2>1. <<>> \in Seq(Calls \cup Stops)
    OBVIOUS
  <2> QED BY <2>1 DEF Init, QueueOK
<1>6. RuntimeOK /\ TurnOK /\ CountOK
  BY BoundsAssumption DEF Init, RuntimeOK, TurnOK, CountOK
<1> QED BY <1>3, <1>4, <1>5, <1>6 DEF Types

LEMMA TypesStep == Types /\ [Next]_vars => Types'
BY LogStep, BooksStep, QueueStep, RuntimeStep, TurnStep, CountStep DEF Types

LEMMA TypesMean == Types => Restored
<1> SUFFICES ASSUME Types PROVE Restored
  OBVIOUS
<1>1. Sound(s) /\ Len(s.records) <= MaxRecords /\ saved = s
  BY DEF Types, LogOK
<1>2. s.system \in Systems /\ s.tools \in Tools /\ s.active \in Seq(Nat) /\ s.records \in Seq(Stored)
      /\ IsInjective(s.active)
  BY <1>1, SoundParts
<1>3. \A i \in DOMAIN s.active : s.active[i] \in DOMAIN s.records
  <2>1. DOMAIN s.active = 1 .. Len(s.active) /\ DOMAIN s.records = 1 .. Len(s.records)
    BY <1>2
  <2> QED BY <1>1, <2>1 DEF Sound
<1>4. \A e \in Engines : runtime[e].state \in {"none", "idle", "generating", "capturing"}
  <2>1. \A e \in Engines : runtime[e] = NoRuntime \/ runtime[e] \in Runtimes
    BY DEF Types, RuntimeOK
  <2>2. \A r \in Runtimes : r.state \in {"none", "idle", "generating", "capturing"}
    BY DEF Runtimes
  <2>3. NoRuntime.state = "none"
    BY DEF NoRuntime
  <2> QED BY <2>1, <2>2, <2>3
<1> QED BY <1>1, <1>2, <1>3, <1>4 DEF Restored, TypeOK, Types, BooksOK, CountOK

\* The event log is the truth: reading it back yields the very session the caller holds,
\* well formed, after any sequence of edits, forks and turns.
THEOREM LogIsTheTruth == Spec => []Restored
<1>1. Spec => []Types
  BY InitTypes, TypesStep, PTL DEF Spec
<1> QED BY <1>1, TypesMean, PTL

\* Every variable stays within its type; the active projection names records, each once.
THEOREM TypesHold == Spec => []TypeOK
<1>1. Restored => TypeOK
  BY DEF Restored
<1> QED BY <1>1, LogIsTheTruth, PTL

-----------------------------------------------------------------------------
(* Prefixes, and what stays of them when messages are added.               *)

LEMMA PrefixIs ==
    ASSUME NEW X, NEW p \in Seq(X), NEW v \in Seq(X)
    PROVE  IsPrefix(p, v) <=> Len(p) <= Len(v) /\ \A i \in 1 .. Len(p) : p[i] = v[i]
<1>1. Len(p) \in Nat /\ Len(v) \in Nat
  OBVIOUS
<1>2. CASE Len(p) <= Len(v)
  <2>1. /\ SubSeq(p, 1, Len(p)) = p
        /\ SubSeq(v, 1, Len(p)) \in Seq(X) /\ Len(SubSeq(v, 1, Len(p))) = Len(p)
        /\ \A i \in 1 .. Len(p) : SubSeq(v, 1, Len(p))[i] = v[i]
    <3>1. SubSeq(p, 1, Len(p)) = p
      BY SubSeqFull
    <3>2. 1 \in Nat /\ 1 >= 1
      OBVIOUS
    <3>3. /\ SubSeq(v, 1, Len(p)) \in Seq(X)
          /\ Len(SubSeq(v, 1, Len(p))) = IF 1 <= Len(p) THEN Len(p) - 1 + 1 ELSE 0
          /\ \A i \in 1 .. Len(SubSeq(v, 1, Len(p))) : SubSeq(v, 1, Len(p))[i] = v[1 + i - 1]
      BY <1>1, <1>2, <3>2, Slice
    <3>4. Len(SubSeq(v, 1, Len(p))) = Len(p)
      BY <1>1, <3>3
    <3>5. \A i \in 1 .. Len(p) : 1 + i - 1 = i
      OBVIOUS
    <3> QED BY <3>1, <3>3, <3>4, <3>5
  <2> DEFINE u == SubSeq(v, 1, Len(p))
  <2>2. u \in Seq(X) /\ Len(u) = Len(p) /\ \A i \in 1 .. Len(p) : u[i] = v[i]
    BY <2>1
  <2>3. IsPrefix(p, v) <=> p = u
    BY <1>2, <2>1 DEF IsPrefix
  <2> HIDE DEF u
  <2>4. p = u <=> \A i \in 1 .. Len(p) : p[i] = v[i]
    <3>1. ASSUME \A i \in 1 .. Len(p) : p[i] = v[i] PROVE p = u
      BY <2>2, <3>1, SeqEqual
    <3> QED BY <2>2, <3>1
  <2> QED BY <1>2, <2>3, <2>4
<1>3. CASE ~(Len(p) <= Len(v))
  BY <1>3 DEF IsPrefix
<1> QED BY <1>2, <1>3

LEMMA PrefixSelf ==
    ASSUME NEW X, NEW v \in Seq(X), NEW w \in Seq(X)
    PROVE  IsPrefix(v, v) /\ IsPrefix(v, v \o w)
<1>1. Len(v) \in Nat /\ Len(w) \in Nat /\ v \o w \in Seq(X) /\ Len(v \o w) = Len(v) + Len(w)
      /\ \A i \in 1 .. Len(v) : (v \o w)[i] = v[i]
  BY Sequences
<1>2. Len(v) <= Len(v) /\ Len(v) <= Len(v \o w)
  BY <1>1
<1> QED BY <1>1, <1>2, PrefixIs

LEMMA PrefixBeyond ==
    ASSUME NEW X, NEW p \in Seq(X), NEW v \in Seq(X), NEW w \in Seq(X), IsPrefix(p, v)
    PROVE  IsPrefix(p, v \o w)
<1>1. Len(v) \in Nat /\ Len(w) \in Nat /\ v \o w \in Seq(X) /\ Len(v \o w) = Len(v) + Len(w)
      /\ (\A i \in 1 .. Len(v) : (v \o w)[i] = v[i]) /\ Len(p) \in Nat
  BY Sequences
<1>2. Len(p) <= Len(v) /\ \A i \in 1 .. Len(p) : p[i] = v[i]
  BY PrefixIs
<1>3. Len(p) <= Len(v \o w) /\ \A i \in 1 .. Len(p) : p[i] = (v \o w)[i]
  BY <1>1, <1>2
<1> QED BY <1>1, <1>3, PrefixIs

\* L1: what is added to a session is added to its transcript.
LEMMA TranscriptAdded ==
    ASSUME NEW x, Sound(x), NEW ms \in Seq(Stored), NEW system \in 0 .. 2
    PROVE  Transcript(AddedAll(x, ms), system) = Transcript(x, system) \o ms
<1> DEFINE y == AddedAll(x, ms)
           t == Transcript(x, system)
           u == Transcript(y, system)
           o == Offset(system)
           n == Len(x.active)
           m == Len(ms)
           w == Fresh(x, m)
           old == x.records
           new == y.records
           v == t \o ms
<1>1. /\ x \in Logs /\ x.active \in Seq(Nat) /\ n \in Nat /\ old \in Seq(Stored) /\ Len(old) \in Nat
      /\ m \in Nat /\ \A i \in 1 .. n : x.active[i] \in 1 .. Len(old)
  BY SoundParts DEF Sound
<1>2. /\ Sound(y) /\ new = old \o ms /\ y.active = x.active \o w
      /\ w \in Seq(Nat) /\ Len(w) = m
  BY <1>1, AddedAllIs, AddedAllSound
<1>3. \A i \in 1 .. m : w[i] = Len(old) + i
  BY <1>1 DEF Fresh
<1>4. /\ t \in Seq(Msgs) /\ Len(t) = o + n
      /\ \A k \in 1 .. o : t[k] = Message("system", system, <<>>, NoCall)
      /\ \A k \in 1 .. n : t[o + k] = old[x.active[k]]
  <2>1. t = Transcript(x, system) /\ o = Offset(system)
    OBVIOUS
  <2> HIDE DEF t, o
  <2>2. t \in Seq(Msgs) /\ Len(t) = o + Len(x.active)
    BY <2>1, TranscriptIs
  <2>3. \A k \in 1 .. o : t[k] = Message("system", system, <<>>, NoCall)
    BY <2>1, TranscriptIs
  <2>4. \A k \in 1 .. Len(x.active) :
           /\ t[Offset(system) + k] = x.records[x.active[k]]
           /\ t[Offset(system) + k] \in Stored
    BY ZenonT(30), <2>1, TranscriptIs
  <2>5. \A k \in 1 .. Len(x.active) : t[o + k] = x.records[x.active[k]]
    BY <2>1, <2>4
  <2> QED BY <2>2, <2>3, <2>5
<1>5. /\ u \in Seq(Msgs) /\ Len(u) = o + Len(y.active)
      /\ \A k \in 1 .. o : u[k] = Message("system", system, <<>>, NoCall)
      /\ \A k \in 1 .. Len(y.active) : u[o + k] = new[y.active[k]]
  <2>1. u = Transcript(y, system) /\ o = Offset(system)
    OBVIOUS
  <2> HIDE DEF u, o, y
  <2>2. u \in Seq(Msgs) /\ Len(u) = o + Len(y.active)
    BY <1>2, <2>1, TranscriptIs
  <2>3. \A k \in 1 .. o : u[k] = Message("system", system, <<>>, NoCall)
    BY ZenonT(30), <1>2, <2>1, TranscriptIs
  <2>4. \A k \in 1 .. Len(y.active) :
           /\ u[Offset(system) + k] = y.records[y.active[k]]
           /\ u[Offset(system) + k] \in Stored
    BY <1>2, <2>1, TranscriptIs
  <2>5. \A k \in 1 .. Len(y.active) : u[o + k] = y.records[y.active[k]]
    BY <2>1, <2>4
  <2> QED BY <2>2, <2>3, <2>5
<1>6. o \in 0 .. 1
  BY DEF Offset
<1> DEFINE a == y.active
<1> HIDE DEF o, w, t, u, new, a, old
<1>7. /\ Len(a) = n + m
      /\ \A k \in 1 .. n : a[k] = x.active[k]
      /\ \A k \in 1 .. m : a[n + k] = w[k]
  <2> DEFINE b == x.active
  <2>1. b \in Seq(Nat) /\ w \in Seq(Nat) /\ a = b \o w /\ Len(w) = m /\ n = Len(b)
    BY <1>1, <1>2 DEF a
  <2> HIDE DEF b, n, m
  <2>2. /\ Len(a) = n + m
        /\ \A k \in 1 .. n : a[k] = b[k]
        /\ \A k \in 1 .. m : a[n + k] = w[k]
    BY <2>1, Sequences
  <2> QED BY <2>2 DEF b
<1>8. /\ \A i \in 1 .. Len(old) : new[i] = old[i]
      /\ \A i \in 1 .. m : new[Len(old) + i] = ms[i]
  BY <1>1, <1>2, Sequences
<1>9. /\ v \in Seq(Msgs) /\ Len(v) = o + n + m
      /\ \A k \in 1 .. o + n : v[k] = t[k]
      /\ \A k \in 1 .. m : v[o + n + k] = ms[k]
  <2>1. Stored \subseteq Msgs
    BY DEF Msgs
  <2>2. ms \in Seq(Msgs)
    BY <2>1, SeqMonotonic
  <2>3. v \in Seq(Msgs) /\ Len(v) = Len(t) + Len(ms)
        /\ (\A k \in 1 .. Len(t) : v[k] = t[k])
        /\ \A k \in 1 .. Len(ms) : v[Len(t) + k] = ms[k]
    <3> HIDE DEF v
    <3>1. v = t \o ms
      BY DEF v
    <3> QED BY <1>4, <2>2, <3>1, ConcatProperties, Sequences, SMTT(30)
  <2> HIDE DEF v
  <2> QED BY <1>4, <2>3
<1> HIDE DEF v
<1>10. Len(u) = Len(v)
  <2>1. Len(u) = o + Len(a)
    BY <1>5 DEF a
  <2> HIDE DEF n, m
  <2> QED BY <1>1, <1>6, <1>7, <1>9, <2>1
<1>11. \A k \in 1 .. Len(v) : u[k] = v[k]
  <2> SUFFICES ASSUME NEW k \in 1 .. Len(v) PROVE u[k] = v[k]
    OBVIOUS
  <2>1. /\ \A j \in 1 .. Len(a) : u[o + j] = new[a[j]]
        /\ \A j \in 1 .. n : x.active[j] \in 1 .. Len(old)
    BY <1>1, <1>5 DEF a
  <2> DEFINE b == x.active
             r == Len(old)
  <2>4. /\ \A j \in 1 .. n : b[j] \in 1 .. r /\ a[j] = b[j] /\ t[o + j] = old[b[j]]
        /\ \A i \in 1 .. r : new[i] = old[i]
        /\ \A i \in 1 .. m : new[r + i] = ms[i] /\ w[i] = r + i
        /\ r \in Nat
    BY <1>1, <1>3, <1>4, <1>7, <1>8, <2>1
  <2> HIDE DEF n, m, b, r
  <2>5. CASE k \in 1 .. o
    BY <1>1, <1>4, <1>5, <1>6, <1>9, <2>5
  <2>6. CASE k \in o + 1 .. o + n
    <3>1. k - o \in 1 .. n /\ o + (k - o) = k /\ k - o \in 1 .. Len(a) /\ k \in 1 .. o + n
      BY <1>1, <1>6, <1>7, <2>6
    <3>2. u[k] = new[a[k - o]] /\ t[k] = old[b[k - o]]
      BY <2>1, <2>4, <3>1
    <3>3. new[a[k - o]] = old[b[k - o]]
      BY <2>4, <3>1
    <3> QED BY <1>9, <3>1, <3>2, <3>3
  <2>7. CASE k \in o + n + 1 .. o + n + m
    <3>1. /\ k - o - n \in 1 .. m /\ o + n + (k - o - n) = k /\ o + (n + (k - o - n)) = k
          /\ n + (k - o - n) \in 1 .. Len(a)
      BY <1>1, <1>6, <1>7, <2>7
    <3>2. u[k] = new[a[n + (k - o - n)]]
      BY <2>1, <3>1
    <3>3. a[n + (k - o - n)] = r + (k - o - n)
      BY <1>7, <2>4, <3>1
    <3>4. new[r + (k - o - n)] = ms[k - o - n]
      BY <2>4, <3>1
    <3> QED BY <1>9, <3>1, <3>2, <3>3, <3>4
  <2> QED BY <1>1, <1>6, <1>9, <2>5, <2>6, <2>7
<1>12. u = v
  BY <1>5, <1>9, <1>10, <1>11, SeqEqual
<1> QED BY <1>12 DEF u, v, t, y

\* L2: what is added is in no prefix of recorded messages.
LEMMA PrefixStable ==
    ASSUME NEW x, Sound(x), NEW ms \in Seq(Stored), NEW p \in Seq(Nat),
           \A i \in 1 .. Len(p) : p[i] \in 1 .. Len(x.records),
           NEW y, y = AddedAll(x, ms)
    PROVE  IsPrefix(p, y.active) <=> IsPrefix(p, x.active)
<1> DEFINE a == x.active
           w == Fresh(x, Len(ms))
           v == a \o w
           r == Len(x.records)
<1>1. /\ a \in Seq(Nat) /\ w \in Seq(Nat) /\ y.active = v /\ r \in Nat
      /\ \A i \in 1 .. Len(w) : w[i] = r + i
  <2>1. x \in Logs /\ a \in Seq(Nat) /\ r \in Nat
    BY SoundParts
  <2>2. y.active = v /\ w \in Seq(Nat) /\ Len(w) = Len(ms)
    BY <2>1, AddedAllIs
  <2>3. \A i \in 1 .. Len(ms) : w[i] = r + i
    BY DEF Fresh
  <2> QED BY <2>1, <2>2, <2>3
<1>2. \A i \in 1 .. Len(p) : p[i] \in 1 .. r
  OBVIOUS
<1> HIDE DEF a, w, r
<1>3. /\ v \in Seq(Nat) /\ Len(v) = Len(a) + Len(w) /\ Len(a) \in Nat /\ Len(w) \in Nat
      /\ \A i \in 1 .. Len(a) : v[i] = a[i]
      /\ \A i \in 1 .. Len(w) : v[Len(a) + i] = w[i]
      /\ Len(p) \in Nat
  BY <1>1, Sequences
<1> HIDE DEF v
<1>4. IsPrefix(p, v) <=> Len(p) <= Len(v) /\ \A i \in 1 .. Len(p) : p[i] = v[i]
  BY <1>3, PrefixIs, SMTT(30)
<1>5. IsPrefix(p, a) <=> Len(p) <= Len(a) /\ \A i \in 1 .. Len(p) : p[i] = a[i]
  BY <1>1, PrefixIs
<1>6. ASSUME IsPrefix(p, a) PROVE IsPrefix(p, v)
  BY <1>3, <1>4, <1>5, <1>6
<1>7. ASSUME IsPrefix(p, v) PROVE IsPrefix(p, a)
  <2>1. Len(p) <= Len(v) /\ \A i \in 1 .. Len(p) : p[i] = v[i]
    BY <1>4, <1>7
  <2>2. Len(p) <= Len(a)
    <3> SUFFICES ASSUME Len(p) > Len(a) PROVE FALSE
      BY <1>3
    <3>1. Len(a) + 1 \in 1 .. Len(p) /\ 1 \in 1 .. Len(w)
      BY <1>3, <2>1
    <3>2. p[Len(a) + 1] = r + 1
      BY <1>1, <1>3, <2>1, <3>1
    <3>3. p[Len(a) + 1] \in 1 .. r
      BY <1>2, <3>1
    <3> QED BY <1>1, <3>2, <3>3
  <2> QED BY <1>3, <1>5, <2>1, <2>2
<1>8. y.active = v
  BY <1>1
<1> QED BY <1>6, <1>7, <1>8 DEF a

\* Not even when a message is added is a prefix of the projection longer than it was.
LEMMA ProjectionPrefix ==
    ASSUME NEW x, Sound(x), NEW p \in Seq(Nat), IsPrefix(p, x.active)
    PROVE  /\ Len(p) <= Len(x.active) /\ Len(p) \in Nat
           /\ \A i \in 1 .. Len(p) : p[i] = x.active[i] /\ p[i] \in 1 .. Len(x.records)
<1> DEFINE a == x.active
<1>1. a \in Seq(Nat) /\ \A i \in 1 .. Len(a) : a[i] \in 1 .. Len(x.records)
  BY SoundParts DEF Sound
<1>2. Len(a) \in Nat /\ Len(p) \in Nat
  <2> HIDE DEF a
  <2> QED BY <1>1
<1>3. Len(p) <= Len(a) /\ \A i \in 1 .. Len(p) : p[i] = a[i]
  <2> HIDE DEF a
  <2>1. IsPrefix(p, a)
    BY DEF a
  <2> QED BY <1>1, <2>1, PrefixIs
<1>4. \A i \in 1 .. Len(p) : i \in 1 .. Len(a)
  <2> HIDE DEF a
  <2> QED BY <1>2, <1>3
<1> QED BY <1>1, <1>2, <1>3, <1>4

\* L4: the digest of what was there is what it was.
LEMMA DigestStable ==
    ASSUME NEW x, Sound(x), NEW ms \in Seq(Stored), NEW y, y = AddedAll(x, ms),
           NEW count \in Nat, NEW tools,
           count <= Len(Transcript(x, x.system))
    PROVE  Digest(y, count, tools) = Digest(x, count, tools)
<1> DEFINE a == x.active
           w == Fresh(x, Len(ms))
           v == a \o w
           sys == x.system
           o == Offset(sys)
           rest == count - (IF sys # 0 /\ count > 0 THEN 1 ELSE 0)
<1>1. /\ x \in Logs /\ a \in Seq(Nat) /\ sys \in Systems
  BY SoundParts
<1>2. y.active = v /\ w \in Seq(Nat) /\ y.system = sys
  BY <1>1, AddedAllIs
<1>3. count <= o + Len(a)
  <2>1. sys \in 0 .. 2
    BY <1>1 DEF Systems
  <2> DEFINE t == Transcript(x, sys)
  <2>2. t = Transcript(x, sys) /\ count <= Len(t)
    OBVIOUS
  <2> HIDE DEF t, sys
  <2>3. Len(t) = Offset(sys) + Len(x.active)
    BY <2>1, <2>2, TranscriptIs
  <2> QED BY <2>2, <2>3
<1> HIDE DEF a, w
<1>4. /\ v \in Seq(Nat) /\ Len(v) = Len(a) + Len(w) /\ Len(a) \in Nat /\ Len(w) \in Nat
      /\ \A i \in 1 .. Len(a) : v[i] = a[i]
  BY <1>1, <1>2, Sequences
<1> HIDE DEF v, sys
<1>5. rest \in Nat /\ rest <= Len(a) /\ rest <= Len(v)
  <2>1. (sys # 0 /\ o = 1) \/ (sys = 0 /\ o = 0)
    BY <1>1 DEF Offset, Systems
  <2> HIDE DEF o
  <2> QED BY <1>3, <1>4, <2>1
<1>6. Digest(x, count, tools)
         = <<tools, IF count > 0 THEN sys ELSE 0,
             SubSeq(a, 1, IF rest < Len(a) THEN rest ELSE Len(a))>>
  BY DEF Digest, sys, a
<1>7. Digest(y, count, tools)
         = <<tools, IF count > 0 THEN sys ELSE 0,
             SubSeq(v, 1, IF rest < Len(v) THEN rest ELSE Len(v))>>
  BY <1>2 DEF Digest
<1> HIDE DEF rest
<1>8. /\ (IF rest < Len(a) THEN rest ELSE Len(a)) = rest
      /\ (IF rest < Len(v) THEN rest ELSE Len(v)) = rest
  BY <1>4, <1>5
<1>9. SubSeq(v, 1, rest) = SubSeq(a, 1, rest)
  <2>1. 1 \in Nat /\ 1 >= 1 /\ a \in Seq(Nat)
    BY <1>1
  <2> DEFINE p == SubSeq(v, 1, rest)
             q == SubSeq(a, 1, rest)
  <2>2. /\ p \in Seq(Nat) /\ Len(p) = IF 1 <= rest THEN rest - 1 + 1 ELSE 0
        /\ \A i \in 1 .. Len(p) : p[i] = v[1 + i - 1]
    <3>1. v \in Seq(Nat) /\ rest \in Nat /\ rest <= Len(v)
      BY <1>4, <1>5
    <3> QED BY <2>1, <3>1, Slice
  <2>3. /\ q \in Seq(Nat) /\ Len(q) = IF 1 <= rest THEN rest - 1 + 1 ELSE 0
        /\ \A i \in 1 .. Len(q) : q[i] = a[1 + i - 1]
    BY <1>5, <2>1, Slice
  <2> HIDE DEF p, q
  <2>4. Len(p) = rest /\ Len(q) = rest
    BY <1>5, <2>2, <2>3
  <2>5. \A i \in 1 .. rest : p[i] = q[i]
    <3> SUFFICES ASSUME NEW i \in 1 .. rest PROVE p[i] = q[i]
      OBVIOUS
    <3>1. 1 + i - 1 = i /\ i \in 1 .. Len(a)
      BY <1>4, <1>5
    <3> QED BY <1>4, <2>2, <2>3, <2>4, <3>1
  <2>6. p = q
    BY <2>2, <2>3, <2>4, <2>5, SeqEqual
  <2> QED BY <2>6 DEF p, q
<1> QED BY <1>6, <1>7, <1>8, <1>9

\* The digest of a part of the transcript names as much of it.
LEMMA DigestLength ==
    ASSUME NEW x, Sound(x), NEW count \in Nat, count > 0, NEW tools \in Tools,
           count <= Len(Transcript(x, x.system)),
           NEW d, d = Digest(x, count, tools)
    PROVE  /\ d \in Digests /\ d[1] = tools /\ d[2] = x.system /\ d[3] \in Seq(Nat)
           /\ IsPrefix(d[3], x.active) /\ Len(d[3]) + Offset(x.system) = count
<1> DEFINE a == x.active
           sys == x.system
           o == Offset(sys)
           rest == count - (IF sys # 0 /\ count > 0 THEN 1 ELSE 0)
           p == SubSeq(a, 1, rest)
<1>1. a \in Seq(Nat) /\ Len(a) \in Nat /\ sys \in Systems
  BY SoundParts
<1>2. count <= o + Len(a)
  <2>1. sys \in 0 .. 2
    BY <1>1 DEF Systems
  <2> DEFINE t == Transcript(x, sys)
  <2>2. t = Transcript(x, sys) /\ count <= Len(t)
    OBVIOUS
  <2> HIDE DEF t, sys
  <2>3. Len(t) = Offset(sys) + Len(x.active)
    BY <2>1, <2>2, TranscriptIs
  <2> QED BY <2>2, <2>3
<1>3. d = <<tools, IF count > 0 THEN sys ELSE 0,
            SubSeq(a, 1, IF rest < Len(a) THEN rest ELSE Len(a))>>
  BY DEF Digest
<1>4. d \in Digests /\ d[1] = tools /\ IsPrefix(d[3], a) /\ d[2] = IF count > 0 THEN sys ELSE 0
  BY DigestIs
<1> HIDE DEF a, sys
<1>5. rest \in Nat /\ rest <= Len(a) /\ rest + o = count
  <2>1. (sys # 0 /\ o = 1) \/ (sys = 0 /\ o = 0)
    BY <1>1 DEF Offset, Systems
  <2> HIDE DEF o
  <2> QED BY <1>1, <1>2, <2>1
<1> HIDE DEF rest, o
<1>6. (IF rest < Len(a) THEN rest ELSE Len(a)) = rest
  BY <1>1, <1>5
<1>7. p \in Seq(Nat) /\ Len(p) = rest
  <2>1. 1 \in Nat /\ 1 >= 1
    OBVIOUS
  <2>2. p \in Seq(Nat) /\ Len(p) = IF 1 <= rest THEN rest - 1 + 1 ELSE 0
    BY <1>1, <1>5, <2>1, Slice
  <2> HIDE DEF p
  <2> QED BY <1>5, <2>2
<1>8. d[3] = p
  <2> DEFINE second == IF count > 0 THEN sys ELSE 0
             take == IF rest < Len(a) THEN rest ELSE Len(a)
             third == SubSeq(a, 1, take)
  <2>1. d = <<tools, second, third>> /\ third = p
    BY <1>3, <1>6
  <2> HIDE DEF second, third, p
  <2> QED BY <2>1
<1> HIDE DEF p
<1> QED BY <1>4, <1>5, <1>7, <1>8 DEF a, sys, o

\* A selection of a list whose first element goes and whose others stay.
LEMMA AmongTail ==
    ASSUME NEW X, NEW S, NEW v \in X, v \notin S, NEW w \in Seq(X),
           \A i \in 1 .. Len(w) : w[i] \in S
    PROVE  Among(<<v>> \o w, S) = w
<1>1. <<v>> \in Seq(X) /\ <<>> \in Seq(X) /\ <<v>> = Append(<<>>, v)
  OBVIOUS
<1>2. Among(<<v>> \o w, S) = Among(<<v>>, S) \o Among(w, S)
  <2> DEFINE u == <<v>>
  <2>1. u \in Seq(X)
    BY <1>1
  <2> HIDE DEF u
  <2>2. Among(u \o w, S) = Among(u, S) \o Among(w, S)
    BY <2>1, AmongJoin
  <2> QED BY <2>2 DEF u
<1>3. Among(<<v>>, S) = <<>>
  <2> DEFINE none == <<>>
  <2>1. none \in Seq(X) /\ <<v>> = Append(none, v) /\ Among(none, S) = none
    BY <1>1, AmongNone
  <2> HIDE DEF none
  <2>2. Among(Append(none, v), S) = Among(none, S)
    BY <2>1, AmongMore
  <2> QED BY <2>1, <2>2 DEF none
<1>4. Among(w, S) = w
  <2>1. w \in Seq(S)
    BY SeqInto
  <2> QED BY <2>1, AmongAll
<1>5. <<>> \o w = w
  BY ConcatEmptySeq
<1> QED BY <1>2, <1>3, <1>4, <1>5

LEMMA Assoc ==
    ASSUME NEW X, NEW u \in Seq(X), NEW v \in Seq(X), NEW w \in Seq(X)
    PROVE  u \o (v \o w) = (u \o v) \o w
BY ConcatAssociative

\* Where the messages of a session stand in its transcript.
LEMMA TranscriptAt ==
    ASSUME NEW x, Sound(x), NEW system \in 0 .. 2, NEW t, t = Transcript(x, system),
           NEW o, o = Offset(system), NEW v, v = View(x.active, x.records)
    PROVE  \A k \in 1 .. Len(x.active) : t[o + k] = v[k]
<1>1. \A k \in 1 .. Len(x.active) : t[o + k] = x.records[x.active[k]]
  <2>1. \A k \in 1 .. Len(x.active) :
           /\ t[Offset(system) + k] = x.records[x.active[k]]
           /\ t[Offset(system) + k] \in Stored
    BY SMTT(30), TranscriptIs
  <2> QED BY <2>1
<1>2. \A k \in 1 .. Len(x.active) : v[k] = x.records[x.active[k]]
  <2>1. DOMAIN x.active = 1 .. Len(x.active)
    BY SoundParts
  <2> QED BY <2>1 DEF View
<1> QED BY <1>1, <1>2

\* What a context holds goes beyond the digest.
Beyond(p, C) == Offset(p[2]) + Len(p[3]) < Len(C)

\* L5: the pending part of the transcript, but for the reply the runtime generated itself,
\* makes what the runtime holds the whole transcript.
LEMMA ContinueExact ==
    ASSUME NEW x, Sound(x), NEW b, NEW C \in Seq(Msgs), NEW count \in Nat, NEW tools \in Tools,
           PrefixStillHeld(x, b, count, tools), TailIsAppendable(x, b, count),
           NEW t, t = Transcript(x, x.system),
           IsPrefix(C, t), C # <<>>, C[Len(C)].role = "assistant",
           Beyond(b.prefix, C),
           NEW wire \in Seq(Stored), \A k \in 1 .. Len(wire) : wire[k].role # "assistant"
    PROVE  Joined(C, Appendable(Joined(SubSeq(t, count + 1, Len(t)), wire))) = Joined(t, wire)
<1> DEFINE a == x.active
           o == Offset(x.system)
           n == Len(t)
           c == Len(C)
           v == View(x.active, x.records)
           tail == SubSeq(v, 1 + count - Len(Prompt(x.system)), Len(x.active))
           rest == SubSeq(t, count + 2, n)
           first == t[count + 1]
           messages == SubSeq(t, count + 1, n) \o wire
           others == rest \o wire
           S == {m \in Range(messages) : m.role # "assistant"}
<1>1. x.system \in 0 .. 2
  BY SoundParts DEF Systems
<1>2. /\ count > 0 /\ count <= n /\ b.prefix = Digest(x, count, tools)
  BY DEF PrefixStillHeld
<1>3. /\ b.prefix[2] = x.system /\ Len(b.prefix[3]) + o = count /\ b.prefix[3] \in Seq(Nat)
  BY <1>2, DigestLength
<1>4. o \in 0 .. 1 /\ Len(Prompt(x.system)) = o /\ t \in Seq(Msgs) /\ n = o + Len(a)
      /\ v \in Seq(Stored) /\ Len(v) = Len(a) /\ \A k \in 1 .. Len(a) : t[o + k] = v[k]
  <2>1. /\ Len(Prompt(x.system)) = o /\ t \in Seq(Msgs) /\ n = o + Len(a)
        /\ v \in Seq(Stored) /\ Len(v) = Len(a)
    BY SMTT(30), <1>1, TranscriptIs
  <2>2. \A k \in 1 .. Len(a) : t[o + k] = v[k]
    <3>1. o = Offset(x.system) /\ v = View(x.active, x.records)
      OBVIOUS
    <3>2. x.system \in 0 .. 2
      BY <1>1
    <3> HIDE DEF o, v
    <3>3. \A k \in 1 .. Len(x.active) : t[o + k] = v[k]
      BY <3>1, <3>2, TranscriptAt
    <3> QED BY <3>3 DEF a
  <2> QED BY <2>1, <2>2 DEF Offset
<1>5. c \in Nat /\ n \in Nat /\ c <= n /\ \A i \in 1 .. c : C[i] = t[i]
  <2>1. t \in Seq(Msgs)
    BY <1>4
  <2>2. Len(C) \in Nat /\ Len(t) \in Nat
    BY <2>1, LenProperties
  <2>3. Len(C) <= Len(t) /\ \A i \in 1 .. Len(C) : C[i] = t[i]
    BY <2>1, PrefixIs
  <2> QED BY <2>2, <2>3
<1>6. count < c
  <2> DEFINE p3 == Len(b.prefix[3])
  <2>1. o + p3 < c /\ p3 + o = count /\ p3 \in Nat
    <3>1. \A p \in Seq(Nat) : Len(p) \in Nat
      OBVIOUS
    <3> QED BY <1>3, <3>1 DEF Beyond
  <2> HIDE DEF p3, o, c
  <2> QED BY <1>4, <1>5, <2>1
<1>7. count >= o
  <2> DEFINE p3 == Len(b.prefix[3])
  <2>1. p3 + o = count /\ p3 \in Nat
    <3>1. \A p \in Seq(Nat) : Len(p) \in Nat
      OBVIOUS
    <3> QED BY <1>3, <3>1
  <2> HIDE DEF p3, o
  <2> QED BY <1>4, <2>1
<1> DEFINE la == Len(x.active)
<1>8. la \in Nat /\ la = Len(v) /\ n = o + la
  BY <1>4, SoundParts
<1>9. tail = SubSeq(v, 1 + count - o, la)
  BY <1>4
<1>10. \A k \in 1 .. Len(tail) : tail[k].role = "assistant" => k = 1
  <2>1. \A k \in DOMAIN tail : tail[k].role = "assistant" => k = 1
    BY DEF TailIsAppendable
  <2>2. DOMAIN tail = 1 .. Len(tail)
    <3>1. tail \in Seq(Stored)
      <4>1. 1 + count - o \in Nat /\ 1 + count - o >= 1
        <5> HIDE DEF o
        <5> QED BY <1>4, <1>7
      <4> HIDE DEF o, la, v, tail
      <4> QED BY <1>4, <1>8, <1>9, <4>1, Slice
    <3> HIDE DEF tail
    <3> QED BY <3>1
  <2> QED BY <2>1, <2>2
<1>11. \A k \in 1 .. la : t[o + k] = v[k]
  BY <1>4
<1> HIDE DEF tail, o, la, n, c, v
<1>12. /\ Len(tail) = n - count
       /\ \A k \in 1 .. n - count : tail[k] = t[count + k]
  <2> DEFINE m == 1 + count - o
  <2>1. m \in Nat /\ m >= 1 /\ la <= Len(v)
    BY <1>4, <1>7, <1>8
  <2>2. Len(tail) = (IF m <= la THEN la - m + 1 ELSE 0)
        /\ \A k \in 1 .. Len(tail) : tail[k] = v[m + k - 1]
    BY <1>4, <1>8, <1>9, <2>1, Slice
  <2>3. Len(tail) = n - count
    <3> HIDE DEF m
    <3>1. m = 1 + count - o
      BY DEF m
    <3> QED BY <1>2, <1>4, <1>5, <1>6, <1>8, <2>1, <2>2, <3>1
  <2>4. ASSUME NEW k \in 1 .. n - count PROVE tail[k] = t[count + k]
    <3>1. m + k - 1 \in 1 .. la /\ o + (m + k - 1) = count + k
      BY <1>2, <1>4, <1>5, <1>7, <1>8
    <3>2. tail[k] = v[m + k - 1]
      BY <2>2, <2>3
    <3>3. t[o + (m + k - 1)] = v[m + k - 1]
      BY <1>11, <3>1
    <3> QED BY <3>1, <3>2, <3>3
  <2> QED BY <2>3, <2>4
<1>13. c = count + 1
  <2>1. c - count \in 1 .. n - count /\ count + (c - count) = c /\ c \in 1 .. c
    BY <1>5, <1>6
  <2>2. tail[c - count] = t[c] /\ t[c] = C[c]
    BY <1>5, <1>12, <2>1
  <2>3. tail[c - count].role = "assistant"
    BY <2>2 DEF c
  <2>4. c - count = 1
    BY <1>10, <1>12, <2>1, <2>3
  <2> QED BY <1>5, <2>4
<1>14. first.role = "assistant"
  <2>1. t[c] = C[c]
    BY <1>5, <1>6
  <2> QED BY <1>13, <2>1 DEF c
<1>15. /\ rest \in Seq(Msgs) /\ Len(rest) = n - count - 1
       /\ \A k \in 1 .. n - count - 1 : rest[k] = t[count + 1 + k] /\ rest[k].role # "assistant"
  <2> DEFINE m == count + 2
  <2>1. m \in Nat /\ m >= 1 /\ n <= Len(t)
    BY <1>5 DEF n
  <2>2. /\ rest \in Seq(Msgs) /\ Len(rest) = (IF m <= n THEN n - m + 1 ELSE 0)
        /\ \A k \in 1 .. Len(rest) : rest[k] = t[m + k - 1]
    BY <1>4, <1>5, <2>1, Slice
  <2> HIDE DEF rest
  <2>3. Len(rest) = n - count - 1
    BY <1>5, <1>6, <2>2
  <2>4. ASSUME NEW k \in 1 .. n - count - 1
        PROVE  rest[k] = t[count + 1 + k] /\ rest[k].role # "assistant"
    <3>1. /\ m + k - 1 = count + 1 + k /\ k + 1 \in 1 .. n - count /\ k + 1 # 1
          /\ count + (k + 1) = count + 1 + k
      BY <1>5, <1>6
    <3>2. rest[k] = t[count + 1 + k]
      BY <2>2, <2>3, <3>1
    <3>3. tail[k + 1] = t[count + 1 + k]
      BY <1>12, <3>1
    <3>4. tail[k + 1].role # "assistant"
      BY <1>10, <1>12, <3>1
    <3> QED BY <3>2, <3>3, <3>4
  <2> QED BY <2>2, <2>3, <2>4
<1>16. SubSeq(t, count + 1, n) = <<first>> \o rest
  <2>1. count + 1 \in 1 .. Len(t) /\ n \in count + 1 .. Len(t) /\ count + 1 + 1 = count + 2
    BY <1>5, <1>6 DEF n
  <2> QED BY <1>4, <2>1, SubSeqRecursiveFirst
<1>17. first \in Msgs
  <2>1. count + 1 \in 1 .. Len(t)
    BY <1>5, <1>6 DEF n
  <2> QED BY <1>4, <2>1, ElementOfSeq
<1> HIDE DEF first, rest
<1>18. wire \in Seq(Msgs)
  <2>1. Stored \subseteq Msgs
    BY DEF Msgs
  <2> QED BY <2>1, SeqMonotonic
<1>19. <<first>> \in Seq(Msgs)
  BY <1>17
<1>20. messages = <<first>> \o others
  <2>1. messages = (<<first>> \o rest) \o wire
    BY <1>16
  <2> DEFINE one == <<first>>
  <2>2. one \in Seq(Msgs) /\ rest \in Seq(Msgs) /\ wire \in Seq(Msgs)
    BY <1>15, <1>18, <1>19
  <2>3. messages = (one \o rest) \o wire /\ others = rest \o wire
    BY <2>1
  <2> HIDE DEF one, rest, messages, others
  <2>4. one \o (rest \o wire) = (one \o rest) \o wire
    BY SMTT(30), <2>2, Assoc
  <2>5. messages = one \o others
    BY <2>3, <2>4
  <2> QED BY <2>5 DEF one
<1>21. others \in Seq(Msgs) /\ \A k \in 1 .. Len(others) : others[k].role # "assistant"
  <2>1. /\ others \in Seq(Msgs) /\ Len(others) = Len(rest) + Len(wire)
        /\ \A k \in 1 .. Len(rest) : others[k] = rest[k]
        /\ \A k \in 1 .. Len(wire) : others[Len(rest) + k] = wire[k]
        /\ Len(rest) \in Nat /\ Len(wire) \in Nat
    <3>1. rest \in Seq(Msgs)
      BY <1>15
    <3> QED BY <1>18, <3>1, Sequences
  <2> HIDE DEF others
  <2>2. ASSUME NEW k \in 1 .. Len(others) PROVE others[k].role # "assistant"
    <3>1. CASE k \in 1 .. Len(rest)
      BY <1>15, <2>1, <3>1
    <3>2. CASE k \notin 1 .. Len(rest)
      <4>1. k - Len(rest) \in 1 .. Len(wire) /\ Len(rest) + (k - Len(rest)) = k
        BY <2>1, <3>2
      <4>2. others[k] = wire[k - Len(rest)]
        BY <2>1, <4>1
      <4> QED BY <4>1, <4>2
    <3> QED BY <3>1, <3>2
  <2> QED BY <2>1, <2>2
<1> HIDE DEF others
<1>22. /\ \A k \in 1 .. Len(others) : others[k] \in S
       /\ first \notin S
  <2> DEFINE w == <<first>> \o others
  <2>1. /\ w \in Seq(Msgs) /\ Len(w) = 1 + Len(others) /\ Len(others) \in Nat
        /\ \A k \in 1 .. Len(others) : w[1 + k] = others[k]
    <3> DEFINE u == <<first>>
    <3>1. u \in Seq(Msgs) /\ Len(u) = 1
      BY <1>19
    <3> HIDE DEF u
    <3> QED BY <1>21, <3>1, Sequences DEF u
  <2>2. messages = w
    BY <1>20
  <2> HIDE DEF w
  <2>3. ASSUME NEW k \in 1 .. Len(others) PROVE others[k] \in Range(w)
    <3>1. 1 + k \in 1 .. Len(w) /\ w[1 + k] = others[k]
      BY <2>1
    <3>2. DOMAIN w = 1 .. Len(w)
      BY <2>1
    <3> QED BY <3>1, <3>2 DEF Range
  <2>4. \A m : m \in S <=> m \in Range(w) /\ m.role # "assistant"
    BY <2>2
  <2> HIDE DEF S
  <2> QED BY <1>14, <1>21, <2>3, <2>4
<1>23. Appendable(messages) = others
  <2>1. Appendable(messages) = Among(messages, S)
    BY DEF Appendable
  <2> HIDE DEF S
  <2>2. Among(<<first>> \o others, S) = others
    BY <1>17, <1>21, <1>22, AmongTail
  <2> HIDE DEF messages
  <2> QED BY <1>20, <2>1, <2>2
<1>24. C \o rest = t
  <2>1. /\ C \o rest \in Seq(Msgs) /\ Len(C \o rest) = c + Len(rest)
        /\ \A i \in 1 .. c : (C \o rest)[i] = C[i]
        /\ \A i \in 1 .. Len(rest) : (C \o rest)[c + i] = rest[i]
    <3>1. rest \in Seq(Msgs)
      BY <1>15
    <3>2. /\ C \o rest \in Seq(Msgs) /\ Len(C \o rest) = Len(C) + Len(rest)
          /\ \A i \in 1 .. Len(C) : (C \o rest)[i] = C[i]
          /\ \A i \in 1 .. Len(rest) : (C \o rest)[Len(C) + i] = rest[i]
      BY <3>1, Sequences
    <3> QED BY <3>2 DEF c
  <2> DEFINE w == C \o rest
  <2> HIDE DEF w
  <2>2. Len(w) = n
    BY <1>5, <1>13, <1>15, <2>1 DEF w
  <2>3. ASSUME NEW i \in 1 .. n PROVE w[i] = t[i]
    <3>1. CASE i \in 1 .. c
      BY <1>5, <2>1, <3>1 DEF w
    <3>2. CASE i \notin 1 .. c
      <4>1. i - c \in 1 .. n - count - 1 /\ c + (i - c) = i /\ count + 1 + (i - c) = i
        BY <1>5, <1>13, <3>2
      <4>2. w[c + (i - c)] = rest[i - c]
        BY <1>15, <2>1, <4>1 DEF w
      <4>3. rest[i - c] = t[count + 1 + (i - c)]
        BY <1>15, <4>1
      <4> QED BY <4>1, <4>2, <4>3
    <3> QED BY <3>1, <3>2
  <2>4. w \in Seq(Msgs)
    BY <2>1 DEF w
  <2>5. w = t
    BY <1>4, <2>2, <2>3, <2>4, SeqEqual DEF n
  <2> QED BY <2>5 DEF w
<1>25. C \o others = t \o wire
  <2>1. C \o (rest \o wire) = (C \o rest) \o wire
    <3>1. rest \in Seq(Msgs)
      BY <1>15
    <3>2. wire \in Seq(Msgs) /\ C \in Seq(Msgs)
      BY <1>18
    <3> QED BY <3>1, <3>2, Assoc, SMTT(30)
  <2> QED BY <1>24, <2>1 DEF others
<1> QED BY <1>23, <1>25 DEF n, Joined

-----------------------------------------------------------------------------
(* What holds of one engine between steps: its queue, the runtime its      *)
(* controller keeps for the session, and the session's bookkeeping for it. *)

\* A runtime that took in nothing the properties except.
Live(r, exc) == r # NoRuntime /\ r.turns \cap exc = {}

\* Turns are sent in order, and each runtime knows the turns it took in.
Numbers(q, top) ==
    /\ \A k \in 1 .. Len(q) : q[k].kind # "stop" => q[k].n \in 1 .. top
    /\ \A j, k \in 1 .. Len(q) :
          j < k /\ q[j].kind # "stop" /\ q[k].kind # "stop" => q[j].n < q[k].n

Took(r, top) ==
    /\ r # NoRuntime => r.turns # {} /\ r.turns \subseteq 1 .. top
    /\ InFlight(r) => r.n \in r.turns

\* A command says the whole transcript, in one part or in two.
Commanded(q) ==
    \A k \in 1 .. Len(q) :
        /\ q[k].kind = "start" => q[k].messages = q[k].asked
        /\ q[k].kind = "continue" => q[k].prefix \o q[k].messages = q[k].asked

\* A continuation that waits fits the runtime it will find.
Passed(c, exc) == c.kind = "stop" \/ (c.kind = "continue" /\ c.n \in exc)
Fits(r, c) ==
    /\ r.state = "idle" /\ r.pins = c.pins
    /\ r.context \o Appendable(c.messages) = c.asked
Awaited(q, r, exc) ==
    \A k \in 1 .. Len(q) :
        q[k].kind = "continue" /\ q[k].n \notin exc =>
            /\ \A j \in 1 .. Len(q) : j < k => Passed(q[j], exc)
            /\ Live(r, exc) => Fits(r, q[k])

\* What a runtime at rest holds goes beyond the digest, by the reply it ended with.
Holds(r, b, x) ==
    /\ r.state = "idle"
    /\ r.pins = <<b.prefix[1], b.thinking>>
    /\ r.context # <<>> /\ r.context[Len(r.context)].role = "assistant"
    /\ Offset(b.prefix[2]) + Len(b.prefix[3]) < Len(r.context)
    /\ IsPrefix(b.prefix[3], x.active) => IsPrefix(r.context, Transcript(x, b.prefix[2]))

\* An open conversation: the digest names records; nothing is on its way but the turn
\* in flight; the runtime is at that turn, or at rest and holds what the digest says.
Listed(b, x) ==
    /\ b.prefix \in Digests
    /\ \A i \in 1 .. Len(b.prefix[3]) : b.prefix[3][i] \in 1 .. Len(x.records)
OnItsWay(c, exc, cur) ==
    c.kind = "stop" \/ (c.kind = "continue" /\ (c.n \in exc \/ c.n = cur))
Opening(q, r, b, x, exc, cur) ==
    b.opened =>
        /\ b.own /\ Listed(b, x)
        /\ \A k \in 1 .. Len(q) : OnItsWay(q[k], exc, cur)
        /\ Live(r, exc) => cur \in r.turns \/ Holds(r, b, x)

\* What a runtime at work holds is what its turn asked for.
Viewed(r, exc) == Live(r, exc) /\ InFlight(r) => r.context = r.asked /\ r.pins = r.wants

Engine(q, r, b, x, exc, cur, top) ==
    /\ Numbers(q, top) /\ Took(r, top) /\ Commanded(q)
    /\ Awaited(q, r, exc) /\ Opening(q, r, b, x, exc, cur) /\ Viewed(r, exc)

LEMMA NoneIs == InFlight(NoRuntime) = FALSE /\ NoRuntime.turns = {} /\ NoRuntime.state = "none"
BY DEF NoRuntime, InFlight

\* A runtime that is gone.
LEMMA EngineGone ==
    ASSUME NEW q, NEW r, NEW b, NEW x, NEW exc, NEW cur, NEW top,
           Engine(q, r, b, x, exc, cur, top)
    PROVE  Engine(q, NoRuntime, b, x, exc, cur, top)
<1>1. ~Live(NoRuntime, exc) /\ Took(NoRuntime, top) /\ Viewed(NoRuntime, exc)
  BY NoneIs DEF Live, Took, Viewed
<1>2. Numbers(q, top) /\ Commanded(q)
  BY DEF Engine
<1>3. Awaited(q, NoRuntime, exc)
  BY <1>1 DEF Engine, Awaited
<1>4. Opening(q, NoRuntime, b, x, exc, cur)
  BY <1>1 DEF Engine, Opening
<1> QED BY <1>1, <1>2, <1>3, <1>4 DEF Engine

\* A stop added to the queue.
LEMMA EngineStop ==
    ASSUME NEW q, NEW r, NEW b, NEW x, NEW exc, NEW cur, NEW top,
           Engine(q, r, b, x, exc, cur, top),
           NEW w, NEW m \in Nat, Len(q) = m, Len(w) = m + 1,
           \A k \in 1 .. m : w[k] = q[k],
           w[m + 1].kind = "stop"
    PROVE  Engine(w, r, b, x, exc, cur, top)
<1>1. \A k \in 1 .. Len(w) : w[k].kind # "stop" => k \in 1 .. m /\ w[k] = q[k]
  OBVIOUS
<1>2. Took(r, top) /\ Viewed(r, exc)
  BY DEF Engine
<1>3. Numbers(w, top)
  <2>1. Numbers(q, top)
    BY DEF Engine
  <2> QED BY <1>1, <2>1 DEF Numbers
<1>4. Commanded(w)
  <2>1. Commanded(q)
    BY DEF Engine
  <2> QED BY <1>1, <2>1 DEF Commanded
<1>5. Awaited(w, r, exc)
  <2>1. Awaited(q, r, exc)
    BY DEF Engine
  <2> SUFFICES ASSUME NEW k \in 1 .. Len(w), w[k].kind = "continue", w[k].n \notin exc
               PROVE  /\ \A j \in 1 .. Len(w) : j < k => Passed(w[j], exc)
                      /\ Live(r, exc) => Fits(r, w[k])
    BY DEF Awaited
  <2>2. k \in 1 .. m /\ w[k] = q[k]
    BY <1>1
  <2>3. /\ \A j \in 1 .. m : j < k => Passed(q[j], exc)
        /\ Live(r, exc) => Fits(r, q[k])
    BY <2>1, <2>2 DEF Awaited
  <2> QED BY <2>2, <2>3
<1>6. Opening(w, r, b, x, exc, cur)
  <2>1. Opening(q, r, b, x, exc, cur)
    BY DEF Engine
  <2>2. ASSUME NEW k \in 1 .. Len(w), \A i \in 1 .. Len(q) : OnItsWay(q[i], exc, cur)
        PROVE  OnItsWay(w[k], exc, cur)
    BY <1>1, <2>2 DEF OnItsWay
  <2> QED BY <2>1, <2>2 DEF Opening
<1> QED BY <1>2, <1>3, <1>4, <1>5, <1>6 DEF Engine

\* The first command taken.
LEMMA EngineTaken ==
    ASSUME NEW q, NEW r, NEW b, NEW x, NEW exc, NEW cur, NEW top,
           Engine(q, r, b, x, exc, cur, top),
           NEW w, NEW m \in Nat, Len(q) = m + 1, Len(w) = m,
           \A k \in 1 .. m : w[k] = q[k + 1]
    PROVE  Engine(w, r, b, x, exc, cur, top)
<1>1. \A k \in 1 .. m : k + 1 \in 1 .. Len(q) /\ w[k] = q[k + 1]
  OBVIOUS
<1>2. Took(r, top) /\ Viewed(r, exc)
  BY DEF Engine
<1>3. Numbers(w, top)
  <2>1. Numbers(q, top)
    BY DEF Engine
  <2>2. \A j, k \in 1 .. m : j < k => j + 1 < k + 1
    OBVIOUS
  <2> QED BY <1>1, <2>1, <2>2 DEF Numbers
<1>4. Commanded(w)
  <2>1. Commanded(q)
    BY DEF Engine
  <2> QED BY <1>1, <2>1 DEF Commanded
<1>5. Awaited(w, r, exc)
  <2>1. Awaited(q, r, exc)
    BY DEF Engine
  <2> SUFFICES ASSUME NEW k \in 1 .. Len(w), w[k].kind = "continue", w[k].n \notin exc
               PROVE  /\ \A j \in 1 .. Len(w) : j < k => Passed(w[j], exc)
                      /\ Live(r, exc) => Fits(r, w[k])
    BY DEF Awaited
  <2>2. k \in 1 .. m /\ w[k] = q[k + 1] /\ k + 1 \in 1 .. Len(q)
    BY <1>1
  <2>3. /\ \A j \in 1 .. Len(q) : j < k + 1 => Passed(q[j], exc)
        /\ Live(r, exc) => Fits(r, q[k + 1])
    BY <2>1, <2>2 DEF Awaited
  <2>4. ASSUME NEW j \in 1 .. Len(w), j < k PROVE Passed(w[j], exc)
    <3>1. j + 1 \in 1 .. Len(q) /\ j + 1 < k + 1 /\ w[j] = q[j + 1]
      BY <1>1, <2>2, <2>4
    <3> QED BY <2>3, <3>1
  <2> QED BY <2>2, <2>3, <2>4
<1>6. Opening(w, r, b, x, exc, cur)
  <2>1. Opening(q, r, b, x, exc, cur)
    BY DEF Engine
  <2>2. ASSUME NEW k \in 1 .. Len(w), \A i \in 1 .. Len(q) : OnItsWay(q[i], exc, cur)
        PROVE  OnItsWay(w[k], exc, cur)
    BY <1>1, <2>2
  <2> QED BY <2>1, <2>2 DEF Opening
<1> QED BY <1>2, <1>3, <1>4, <1>5, <1>6 DEF Engine

\* Bookkeeping that is open was open before, with the same digest.
Same(d, b) ==
    d.opened => /\ b.opened /\ d.own = b.own /\ d.prefix = b.prefix
                /\ d.thinking = b.thinking

\* The turn in flight is the same, is excepted or is none; what the runtime has taken or
\* holds, it still does.
Onward(r, b, x, d, y, cur, next, more) ==
    d.opened =>
        /\ next = cur \/ cur \in more \/ cur = 0
        /\ Live(r, more) /\ (cur \in r.turns \/ Holds(r, b, x)) => next \in r.turns \/ Holds(r, d, y)

\* The session, its bookkeeping, what is excepted and the turn in flight change; the engine
\* does not.
LEMMA EngineBooks ==
    ASSUME NEW q, NEW r, NEW b, NEW x, NEW exc, NEW cur \in Nat, NEW top \in Nat,
           Engine(q, r, b, x, exc, cur, top), Len(q) \in Nat,
           NEW d, NEW y, NEW more, NEW next \in Nat, NEW high \in Nat,
           top <= high, exc \subseteq more, Same(d, b),
           Len(x.records) \in Nat, Len(y.records) \in Nat, Len(x.records) <= Len(y.records),
           Onward(r, b, x, d, y, cur, next, more)
    PROVE  Engine(q, r, d, y, more, next, high)
<1>1. Numbers(q, top) /\ Took(r, top) /\ Commanded(q) /\ Awaited(q, r, exc)
      /\ Opening(q, r, b, x, exc, cur) /\ Viewed(r, exc)
  BY DEF Engine
<1>2. ASSUME Live(r, more) PROVE Live(r, exc)
  BY <1>2 DEF Live
<1>3. Numbers(q, high)
  BY <1>1 DEF Numbers
<1>4. Took(r, high)
  <2>1. 1 .. top \subseteq 1 .. high
    OBVIOUS
  <2> QED BY <1>1, <2>1 DEF Took
<1>5. Viewed(r, more)
  BY <1>1, <1>2 DEF Viewed
<1>6. Awaited(q, r, more)
  <2> SUFFICES ASSUME NEW k \in 1 .. Len(q), q[k].kind = "continue", q[k].n \notin more
               PROVE  /\ \A j \in 1 .. Len(q) : j < k => Passed(q[j], more)
                      /\ Live(r, more) => Fits(r, q[k])
    BY DEF Awaited
  <2>1. q[k].n \notin exc
    OBVIOUS
  <2>2. /\ \A j \in 1 .. Len(q) : j < k => Passed(q[j], exc)
        /\ Live(r, exc) => Fits(r, q[k])
    BY <1>1, <2>1 DEF Awaited
  <2>3. ASSUME NEW j, Passed(q[j], exc) PROVE Passed(q[j], more)
    BY <2>3 DEF Passed
  <2> QED BY <1>2, <2>2, <2>3
<1>7. Opening(q, r, d, y, more, next)
  <2> SUFFICES ASSUME d.opened
               PROVE  /\ d.own /\ Listed(d, y)
                      /\ \A k \in 1 .. Len(q) : OnItsWay(q[k], more, next)
                      /\ Live(r, more) => next \in r.turns \/ Holds(r, d, y)
    BY DEF Opening
  <2>1. b.opened /\ d.own = b.own /\ d.prefix = b.prefix
    BY DEF Same
  <2>2. /\ b.own /\ Listed(b, x)
        /\ \A k \in 1 .. Len(q) : OnItsWay(q[k], exc, cur)
        /\ Live(r, exc) => cur \in r.turns \/ Holds(r, b, x)
    BY <1>1, <2>1 DEF Opening
  <2>3. d.own
    BY <2>1, <2>2
  <2>4. Listed(d, y)
    <3>1. 1 .. Len(x.records) \subseteq 1 .. Len(y.records)
      OBVIOUS
    <3>2. /\ b.prefix \in Digests
          /\ \A i \in 1 .. Len(b.prefix[3]) : b.prefix[3][i] \in 1 .. Len(x.records)
      BY <2>2 DEF Listed
    <3> QED BY <2>1, <3>1, <3>2 DEF Listed
  <2>5. ASSUME NEW k \in 1 .. Len(q) PROVE OnItsWay(q[k], more, next)
    <3>1. OnItsWay(q[k], exc, cur)
      BY <2>2
    <3>2. q[k].kind # "stop" => q[k].n >= 1
      BY <1>1 DEF Numbers
    <3>3. next = cur \/ cur \in more \/ cur = 0
      BY DEF Onward
    <3> QED BY <3>1, <3>2, <3>3 DEF OnItsWay
  <2>6. ASSUME Live(r, more) PROVE next \in r.turns \/ Holds(r, d, y)
    BY <1>2, <2>2, <2>6 DEF Onward
  <2> QED BY <2>3, <2>4, <2>5, <2>6
<1> QED BY <1>1, <1>3, <1>4, <1>5, <1>6, <1>7 DEF Engine

\* A runtime at work that comes to rest, or goes on from its recording.
LEMMA EngineWorked ==
    ASSUME NEW q, NEW r, NEW b, NEW x, NEW exc, NEW cur, NEW top,
           Engine(q, r, b, x, exc, cur, top), InFlight(r), r # NoRuntime,
           NEW p, p # NoRuntime, p.turns = r.turns, InFlight(p) => p.n = r.n, Viewed(p, exc)
    PROVE  Engine(q, p, b, x, exc, cur, top)
<1>1. Numbers(q, top) /\ Took(r, top) /\ Commanded(q) /\ Awaited(q, r, exc)
      /\ Opening(q, r, b, x, exc, cur)
  BY DEF Engine
<1>2. r.state # "idle"
  BY DEF InFlight
<1>3. Live(p, exc) <=> Live(r, exc)
  BY DEF Live
<1>4. Took(p, top)
  BY <1>1 DEF Took
<1>5. Awaited(q, p, exc)
  <2>2. \A c : ~Fits(r, c)
    BY <1>2 DEF Fits
  <2> QED BY <1>1, <1>3, <2>2 DEF Awaited
<1>6. Opening(q, p, b, x, exc, cur)
  <2>1. ~Holds(r, b, x)
    BY <1>2 DEF Holds
  <2> QED BY <1>1, <1>3, <2>1 DEF Opening
<1> QED BY <1>1, <1>4, <1>5, <1>6 DEF Engine

\* A command taken by a runtime that notes its turn.
LEMMA EngineRan ==
    ASSUME NEW q, NEW r, NEW b, NEW x, NEW exc, NEW cur, NEW top,
           Engine(q, r, b, x, exc, cur, top),
           NEW w, NEW m \in Nat, Len(q) = m + 1, Len(w) = m,
           \A k \in 1 .. m : w[k] = q[k + 1],
           NEW c, c = q[1], c.kind # "stop",
           NEW p, p # NoRuntime, c.n \in p.turns,
           p.turns \subseteq r.turns \cup {c.n},
           InFlight(p) => p.n = c.n, Viewed(p, exc)
    PROVE  Engine(w, p, b, x, exc, cur, top)
<1>1. Numbers(q, top) /\ Took(r, top) /\ Commanded(q) /\ Awaited(q, r, exc)
      /\ Opening(q, r, b, x, exc, cur)
  BY DEF Engine
<1>2. Numbers(w, top) /\ Commanded(w) /\ Awaited(w, r, exc) /\ Opening(w, r, b, x, exc, cur)
  <2>1. Engine(w, r, b, x, exc, cur, top)
    BY EngineTaken
  <2> QED BY <2>1 DEF Engine
<1>3. 1 \in 1 .. Len(q)
  OBVIOUS
<1>4. c.n \in 1 .. top
  BY <1>1, <1>3 DEF Numbers
<1>5. ASSUME c.n \in exc PROVE ~Live(p, exc)
  BY <1>5 DEF Live
<1>6. Took(p, top)
  <2>1. r.turns \subseteq 1 .. top
    BY <1>1, NoneIs DEF Took
  <2>2. p.turns \subseteq 1 .. top
    BY <1>4, <2>1
  <2> QED BY <2>2 DEF Took
<1>7. Awaited(w, p, exc)
  <2> SUFFICES ASSUME NEW k \in 1 .. Len(w), w[k].kind = "continue", w[k].n \notin exc
               PROVE  /\ \A j \in 1 .. Len(w) : j < k => Passed(w[j], exc)
                      /\ Live(p, exc) => Fits(p, w[k])
    BY DEF Awaited
  <2>1. \A j \in 1 .. Len(w) : j < k => Passed(w[j], exc)
    BY <1>2 DEF Awaited
  <2>2. w[k] = q[k + 1] /\ k + 1 \in 1 .. Len(q) /\ 1 < k + 1
    OBVIOUS
  <2>3. Passed(q[1], exc)
    BY <1>1, <1>3, <2>2 DEF Awaited
  <2>4. c.n \in exc
    BY <2>3 DEF Passed
  <2> QED BY <1>5, <2>1, <2>4
<1>8. Opening(w, p, b, x, exc, cur)
  <2> SUFFICES ASSUME b.opened, Live(p, exc) PROVE cur \in p.turns
    BY <1>2 DEF Opening
  <2>1. OnItsWay(c, exc, cur)
    BY <1>1, <1>3 DEF Opening
  <2>2. c.n \in exc \/ c.n = cur
    BY <2>1 DEF OnItsWay
  <2> QED BY <1>5, <2>2
<1> QED BY <1>2, <1>6, <1>7, <1>8 DEF Engine

\* A turn sent.
LEMMA EngineSent ==
    ASSUME NEW q, NEW r, NEW b, NEW x, NEW exc, NEW top \in Nat,
           Engine(q, r, b, x, exc, 0, top),
           NEW w, NEW m \in Nat, Len(q) = m, Len(w) = m + 1,
           \A k \in 1 .. m : w[k] = q[k],
           NEW c, c = w[m + 1], c.n = top + 1, c.kind \in {"start", "continue"},
           c.kind = "start" => c.messages = c.asked,
           c.kind = "continue" => c.prefix \o c.messages = c.asked,
           NEW d, NEW y,
           c.kind = "start" => ~d.opened,
           ASSUME c.kind = "continue"
           PROVE  b.opened /\ d.own /\ Listed(d, y),
           ASSUME c.kind = "continue", Live(r, exc)
           PROVE  Holds(r, d, y) /\ Fits(r, c)
    PROVE  Engine(w, r, d, y, exc, top + 1, top + 1)
<1>1. Numbers(q, top) /\ Took(r, top) /\ Commanded(q) /\ Awaited(q, r, exc)
      /\ Opening(q, r, b, x, exc, 0) /\ Viewed(r, exc)
  BY DEF Engine
<1>2. \A k \in 1 .. Len(w) : (k \in 1 .. m /\ w[k] = q[k]) \/ (k = m + 1 /\ w[k] = c)
  OBVIOUS
<1>3. Numbers(w, top + 1)
  <2>1. \A k \in 1 .. m : q[k].kind # "stop" => q[k].n \in 1 .. top
    BY <1>1 DEF Numbers
  <2>2. \A k \in 1 .. Len(w) : w[k].kind # "stop" => w[k].n \in 1 .. top + 1
    BY <1>2, <2>1
  <2>3. ASSUME NEW j \in 1 .. Len(w), NEW k \in 1 .. Len(w), j < k,
               w[j].kind # "stop", w[k].kind # "stop"
        PROVE  w[j].n < w[k].n
    <3>1. j \in 1 .. m /\ w[j] = q[j]
      BY <1>2, <2>3
    <3>2. CASE k \in 1 .. m /\ w[k] = q[k]
      BY <1>1, <2>3, <3>1, <3>2 DEF Numbers
    <3>3. CASE k = m + 1 /\ w[k] = c
      BY <2>1, <2>3, <3>1, <3>3
    <3> QED BY <1>2, <3>2, <3>3
  <2> QED BY <2>2, <2>3 DEF Numbers
<1>4. Took(r, top + 1)
  <2>1. 1 .. top \subseteq 1 .. top + 1
    OBVIOUS
  <2> QED BY <1>1, <2>1 DEF Took
<1>5. Commanded(w)
  BY <1>1, <1>2 DEF Commanded
<1>6. ASSUME b.opened, NEW k \in 1 .. m PROVE Passed(q[k], exc)
  <2>1. OnItsWay(q[k], exc, 0)
    BY <1>1, <1>6 DEF Opening
  <2>2. q[k].kind # "stop" => q[k].n # 0
    BY <1>1, <1>6 DEF Numbers
  <2> QED BY <2>1, <2>2 DEF OnItsWay, Passed
<1>7. Awaited(w, r, exc)
  <2> SUFFICES ASSUME NEW k \in 1 .. Len(w), w[k].kind = "continue", w[k].n \notin exc
               PROVE  /\ \A j \in 1 .. Len(w) : j < k => Passed(w[j], exc)
                      /\ Live(r, exc) => Fits(r, w[k])
    BY DEF Awaited
  <2>1. CASE k \in 1 .. m /\ w[k] = q[k]
    <3>1. /\ \A j \in 1 .. m : j < k => Passed(q[j], exc)
          /\ Live(r, exc) => Fits(r, q[k])
      BY <1>1, <2>1 DEF Awaited
    <3>2. \A j \in 1 .. Len(w) : j < k => j \in 1 .. m /\ w[j] = q[j]
      BY <1>2, <2>1
    <3> QED BY <2>1, <3>1, <3>2
  <2>2. CASE k = m + 1 /\ w[k] = c
    <3>1. b.opened /\ (Live(r, exc) => Fits(r, c))
      BY <2>2
    <3>2. \A j \in 1 .. Len(w) : j < k => j \in 1 .. m /\ w[j] = q[j]
      BY <1>2, <2>2
    <3> QED BY <1>6, <2>2, <3>1, <3>2
  <2> QED BY <1>2, <2>1, <2>2
<1>8. Opening(w, r, d, y, exc, top + 1)
  <2> SUFFICES ASSUME d.opened
               PROVE  /\ d.own /\ Listed(d, y)
                      /\ \A k \in 1 .. Len(w) : OnItsWay(w[k], exc, top + 1)
                      /\ Live(r, exc) => top + 1 \in r.turns \/ Holds(r, d, y)
    BY DEF Opening
  <2>1. c.kind = "continue"
    OBVIOUS
  <2>2. b.opened /\ d.own /\ Listed(d, y) /\ (Live(r, exc) => Holds(r, d, y))
    BY <2>1
  <2>3. \A k \in 1 .. Len(w) : OnItsWay(w[k], exc, top + 1)
    BY <1>2, <1>6, <2>1, <2>2 DEF OnItsWay, Passed
  <2> QED BY <2>2, <2>3
<1> QED BY <1>1, <1>3, <1>4, <1>5, <1>7, <1>8 DEF Engine

-----------------------------------------------------------------------------
(* Each engine, as the state has it.                                       *)

BooksOf(e) == IF bound = e THEN bk ELSE parked[e]
Current(e) == IF turn # NoTurn /\ turn.engine = e THEN turns ELSE 0
Latest(e) == IF turn # NoTurn /\ turn.engine # e THEN turns - 1 ELSE turns

EngineOK(e) ==
    Engine(queue[e], runtime[e], BooksOf(e), s, Excepted, Current(e), Latest(e))
EnginesOK == \A e \in Engines : EngineOK(e)

LEMMA EngineParts ==
    ASSUME Types, NEW e \in Engines
    PROVE  /\ BooksOf(e) \in Bindings
           /\ Len(queue[e]) \in Nat
           /\ runtime[e] # NoRuntime => runtime[e] \in Runtimes
           /\ Sound(s) /\ Len(s.records) \in Nat
           /\ turns \in Nat /\ Current(e) \in Nat /\ Latest(e) \in Nat
           /\ turn # NoTurn => turns > 0 /\ bound = turn.engine /\ turn.n = turns
           /\ turn = NoTurn => Current(e) = 0 /\ Latest(e) = turns
           /\ turn # NoTurn /\ turn.engine = e => Current(e) = turns /\ Latest(e) = turns
           /\ turn # NoTurn /\ turn.engine # e => Current(e) = 0 /\ Latest(e) = turns - 1
<1>1. BooksOf(e) \in Bindings
  BY DEF Types, BooksOK, BooksOf
<1>2. Len(queue[e]) \in Nat
  BY QueueParts DEF Types
<1>3. runtime[e] # NoRuntime => runtime[e] \in Runtimes
  BY DEF Types, RuntimeOK
<1>4. Sound(s) /\ Len(s.records) \in Nat
  BY SoundParts DEF Types, LogOK
<1>5. turns \in Nat
  BY BoundsAssumption DEF Types, CountOK
<1>6. turn # NoTurn => turns > 0 /\ bound = turn.engine /\ turn.n = turns
  BY DEF Types, TurnOK
<1>7. Current(e) \in Nat /\ Latest(e) \in Nat
  BY <1>5, <1>6 DEF Current, Latest
<1>8. /\ turn = NoTurn => Current(e) = 0 /\ Latest(e) = turns
      /\ turn # NoTurn /\ turn.engine = e => Current(e) = turns /\ Latest(e) = turns
      /\ turn # NoTurn /\ turn.engine # e => Current(e) = 0 /\ Latest(e) = turns - 1
  BY DEF Current, Latest
<1> QED BY <1>1, <1>2, <1>3, <1>4, <1>5, <1>6, <1>7, <1>8

\* The number zero is no turn's.
LEMMA NoTurnTaken ==
    ASSUME Types, EnginesOK, NEW e \in Engines
    PROVE  /\ 0 \notin runtime[e].turns
           /\ InFlight(runtime[e]) => runtime[e] # NoRuntime /\ runtime[e].n \in runtime[e].turns
           /\ runtime[e].turns \subseteq 1 .. Latest(e)
           /\ runtime[e] # NoRuntime => runtime[e].turns # {}
<1>1. Took(runtime[e], Latest(e))
  BY DEF EnginesOK, EngineOK, Engine
<1>2. runtime[e].turns \subseteq 1 .. Latest(e)
  BY <1>1, NoneIs DEF Took
<1>3. 0 \notin 1 .. Latest(e)
  OBVIOUS
<1> QED BY <1>1, <1>2, <1>3, NoneIs DEF Took

\* What is added to the session changes nothing of what an engine holds.
LEMMA HoldsAdded ==
    ASSUME NEW x, Sound(x), NEW ms \in Seq(Stored), NEW y, y = AddedAll(x, ms),
           NEW r \in Runtimes, NEW b, Listed(b, x), Holds(r, b, x)
    PROVE  Holds(r, b, y)
<1>1. /\ b.prefix \in Digests /\ b.prefix[2] \in 0 .. 2 /\ b.prefix[3] \in Seq(Nat)
      /\ \A i \in 1 .. Len(b.prefix[3]) : b.prefix[3][i] \in 1 .. Len(x.records)
  BY DEF Listed, Digests, Systems
<1>2. r.context \in Seq(Msgs)
  BY DEF Runtimes
<1>3. ASSUME IsPrefix(b.prefix[3], y.active)
      PROVE  IsPrefix(r.context, Transcript(y, b.prefix[2]))
  <2>1. IsPrefix(b.prefix[3], x.active)
    BY <1>1, <1>3, PrefixStable
  <2>2. IsPrefix(r.context, Transcript(x, b.prefix[2]))
    BY <2>1 DEF Holds
  <2>3. Transcript(y, b.prefix[2]) = Transcript(x, b.prefix[2]) \o ms
    BY <1>1, TranscriptAdded
  <2> DEFINE t == Transcript(x, b.prefix[2])
  <2>4. t \in Seq(Msgs) /\ ms \in Seq(Msgs)
    <3>1. Stored \subseteq Msgs
      BY DEF Msgs
    <3>2. ms \in Seq(Msgs)
      BY <3>1, SeqMonotonic
    <3>3. t = Transcript(x, b.prefix[2])
      OBVIOUS
    <3> HIDE DEF t
    <3> QED BY <1>1, <3>2, <3>3, TranscriptIs
  <2>5. IsPrefix(r.context, t)
    BY <2>2
  <2> HIDE DEF t
  <2>6. IsPrefix(r.context, t \o ms)
    BY <1>2, <2>4, <2>5, PrefixBeyond
  <2> QED BY <2>3, <2>6 DEF t
<1> QED BY <1>3 DEF Holds

LEMMA RecordsAdded ==
    ASSUME NEW x, Sound(x), NEW ms \in Seq(Stored)
    PROVE  /\ Len(x.records) \in Nat /\ Len(AddedAll(x, ms).records) \in Nat
           /\ Len(x.records) <= Len(AddedAll(x, ms).records)
<1> DEFINE u == x.records
           v == AddedAll(x, ms).records
<1>1. u \in Seq(Stored) /\ v = u \o ms
  BY SoundParts, AddedAllIs DEF Sound
<1> HIDE DEF u, v
<1>2. Len(u) \in Nat /\ Len(v) \in Nat /\ Len(ms) \in Nat /\ Len(v) = Len(u) + Len(ms)
  BY <1>1, Sequences
<1>3. Len(u) <= Len(v)
  BY <1>2
<1> QED BY <1>2, <1>3 DEF u, v

-----------------------------------------------------------------------------
(* What the controllers do leaves each engine right.                       *)

\* The turn in flight, told something or not.
Heard ==
    /\ (turn' = NoTurn <=> turn = NoTurn)
    /\ turn # NoTurn =>
          /\ turn'.n = turn.n /\ turn'.engine = turn.engine /\ turn'.api = turn.api
          /\ turn'.staged = turn.staged /\ turn'.tools = turn.tools
          /\ turn'.closes = turn.closes /\ turn'.cold = turn.cold

LEMMA HeardIs ==
    ASSUME TurnOK, NEW n, NEW got, NEW end,
           turn' = turn \/ turn' = Told(n, got, end) \/ turn' = Ended(n, end)
    PROVE  /\ Heard
           /\ ~Reading(n) => turn' = turn
           /\ turn' = Told(n, got, end) /\ Reading(n) =>
                 turn # NoTurn /\ turn'.got = got /\ turn'.end = end
           /\ turn' = Ended(n, end) /\ Reading(n) /\ turn.end = "none" =>
                 turn # NoTurn /\ turn'.got = turn.got /\ turn'.end = end
           /\ turn' = Ended(n, end) /\ turn.end # "none" => turn' = turn
<1>1. turn # NoTurn => turn \in InTurn /\ turn.n > 0
  BY DEF TurnOK
<1>2. \A g, d : turn # NoTurn =>
        /\ [turn EXCEPT !.got = g, !.end = d].n = turn.n
        /\ [turn EXCEPT !.got = g, !.end = d].engine = turn.engine
        /\ [turn EXCEPT !.got = g, !.end = d].api = turn.api
        /\ [turn EXCEPT !.got = g, !.end = d].staged = turn.staged
        /\ [turn EXCEPT !.got = g, !.end = d].tools = turn.tools
        /\ [turn EXCEPT !.got = g, !.end = d].closes = turn.closes
        /\ [turn EXCEPT !.got = g, !.end = d].cold = turn.cold
        /\ [turn EXCEPT !.got = g, !.end = d].got = g
        /\ [turn EXCEPT !.got = g, !.end = d].end = d
  BY <1>1 DEF InTurn
<1>3. \A d : turn # NoTurn =>
        /\ [turn EXCEPT !.end = d].n = turn.n
        /\ [turn EXCEPT !.end = d].engine = turn.engine
        /\ [turn EXCEPT !.end = d].api = turn.api
        /\ [turn EXCEPT !.end = d].staged = turn.staged
        /\ [turn EXCEPT !.end = d].tools = turn.tools
        /\ [turn EXCEPT !.end = d].closes = turn.closes
        /\ [turn EXCEPT !.end = d].cold = turn.cold
        /\ [turn EXCEPT !.end = d].got = turn.got
        /\ [turn EXCEPT !.end = d].end = d
  BY <1>1 DEF InTurn
<1>4. NoTurn.n = 0
  BY DEF NoTurn
<1>5. \A u : u.n = turn.n /\ turn # NoTurn => u # NoTurn
  BY <1>1, <1>4
<1>6. Reading(n) => turn # NoTurn
  BY DEF Reading
<1>7. CASE turn' = turn
  <2>1. Heard
    BY <1>7 DEF Heard
  <2>2. ASSUME turn' = Told(n, got, end), Reading(n)
        PROVE  turn # NoTurn /\ turn'.got = got /\ turn'.end = end
    <3>1. turn' = [turn EXCEPT !.got = got, !.end = end]
      BY <2>2 DEF Told
    <3> QED BY <1>2, <1>6, <2>2, <3>1
  <2>3. ASSUME turn' = Ended(n, end), Reading(n), turn.end = "none"
        PROVE  turn # NoTurn /\ turn'.got = turn.got /\ turn'.end = end
    <3>1. turn' = [turn EXCEPT !.end = end]
      BY <2>3 DEF Ended
    <3> QED BY <1>3, <1>6, <2>3, <3>1
  <2> QED BY <1>7, <2>1, <2>2, <2>3
<1>8. CASE turn' # turn /\ turn' = Told(n, got, end)
  <2>1. Reading(n) /\ turn' = [turn EXCEPT !.got = got, !.end = end]
    BY <1>8 DEF Told
  <2>2. turn' # NoTurn /\ turn # NoTurn
    <3>1. turn'.n = turn.n /\ turn # NoTurn
      BY <1>2, <1>6, <2>1
    <3> QED BY <1>5, <3>1
  <2>5. Heard
    BY <1>2, <2>1, <2>2 DEF Heard
  <2>6. turn'.got = got /\ turn'.end = end
    BY <1>2, <2>1, <2>2
  <2>3. turn' = Ended(n, end) /\ turn.end = "none" => turn'.got = turn.got
    BY <1>3, <1>6, <2>1 DEF Ended
  <2>4. turn' = Ended(n, end) /\ turn.end # "none" => turn' = turn
    BY DEF Ended
  <2> QED BY <1>6, <2>1, <2>5, <2>6, <2>3, <2>4
<1>9. CASE turn' # turn /\ turn' = Ended(n, end) /\ turn' # Told(n, got, end)
  <2>1. Reading(n) /\ turn.end = "none" /\ turn' = [turn EXCEPT !.end = end]
    BY <1>9 DEF Ended
  <2>2. Heard /\ turn'.got = turn.got /\ turn'.end = end
    BY <1>3, <1>5, <1>6, <2>1 DEF Heard
  <2> QED BY <1>6, <1>9, <2>1, <2>2
<1> QED BY <1>7, <1>8, <1>9

\* An engine whose books, session and turn stay.
LEMMA EngineStays ==
    ASSUME UNCHANGED <<bk, parked, bound, s, unsettled, edited, turns>>, Heard,
           NEW z \in Engines,
           Engine(queue'[z], runtime'[z], BooksOf(z), s, Excepted, Current(z), Latest(z))
    PROVE  EngineOK(z)'
<1>1. BooksOf(z)' = BooksOf(z)
  BY DEF BooksOf
<1>2. Excepted' = Excepted
  BY DEF Excepted
<1>3. Current(z)' = Current(z) /\ Latest(z)' = Latest(z)
  BY DEF Current, Latest, Heard
<1>4. s' = s
  OBVIOUS
<1> QED BY <1>1, <1>2, <1>3, <1>4 DEF EngineOK

LEMMA TakenIs ==
    ASSUME Types, NEW e \in Engines, NEW kind, Command(e, kind), Taken(e)
    PROVE  /\ \A z \in Engines \ {e} : queue'[z] = queue[z]
           /\ \E m \in Nat : /\ Len(queue[e]) = m + 1 /\ Len(queue'[e]) = m
                             /\ \A k \in 1 .. m : queue'[e][k] = queue[e][k + 1]
           /\ Head(queue[e]) = queue[e][1] /\ Len(queue[e]) >= 1
           /\ queue[e][1].kind = kind
<1>1. queue[e] # <<>> /\ Head(queue[e]).kind = kind /\ queue' = [queue EXCEPT ![e] = Tail(@)]
  BY DEF Command, Taken
<1>2. QueueOK
  BY DEF Types
<1>3. /\ Len(queue[e]) >= 1 /\ Head(queue[e]) = queue[e][1] /\ Len(queue[e]) \in Nat
      /\ Len(Tail(queue[e])) = Len(queue[e]) - 1
      /\ \A k \in 1 .. Len(queue[e]) - 1 : Tail(queue[e])[k] = queue[e][k + 1]
  BY <1>1, <1>2, QueueParts
<1>4. queue'[e] = Tail(queue[e]) /\ \A z \in Engines \ {e} : queue'[z] = queue[z]
  BY <1>1, <1>2 DEF QueueOK
<1> DEFINE m == Len(queue[e]) - 1
<1>5. m \in Nat /\ Len(queue[e]) = m + 1
  BY <1>3
<1>6. Len(queue'[e]) = m /\ \A k \in 1 .. m : queue'[e][k] = queue[e][k + 1]
  BY <1>3, <1>4
<1> QED BY <1>1, <1>3, <1>4, <1>5, <1>6

LEMMA OpenedParts ==
    ASSUME NEW c, NEW messages
    PROVE  /\ Opened(c, messages) # NoRuntime
           /\ Opened(c, messages).turns = {c.n} /\ Opened(c, messages).n = c.n
           /\ InFlight(Opened(c, messages))
           /\ Opened(c, messages).state = IF c.capture THEN "capturing" ELSE "generating"
           /\ Opened(c, messages).context = messages /\ Opened(c, messages).asked = c.asked
           /\ Opened(c, messages).pins = c.pins /\ Opened(c, messages).wants = c.pins
<1>1. Opened(c, messages).state = IF c.capture THEN "capturing" ELSE "generating"
  BY DEF Opened
<1>2. InFlight(Opened(c, messages))
  BY <1>1 DEF InFlight
<1>3. Opened(c, messages) # NoRuntime
  BY <1>2, NoneIs
<1> QED BY <1>1, <1>2, <1>3 DEF Opened

\* A start, or a rebuild: the runtime is as it was, gone, or built from all the messages.
LEMMA StartEngine ==
    ASSUME Types, NEW e \in Engines, EngineOK(e),
           NEW w, NEW m \in Nat, Len(queue[e]) = m + 1, Len(w) = m,
           \A k \in 1 .. m : w[k] = queue[e][k + 1],
           NEW c, c = queue[e][1], c.kind # "stop",
           NEW messages, messages = c.asked, Start(e, c, messages)
    PROVE  Engine(w, runtime'[e], BooksOf(e), s, Excepted, Current(e), Latest(e))
<1>1. runtime \in [Engines -> Runtimes \cup {NoRuntime}]
  BY DEF Types, RuntimeOK
<1> DEFINE G(p) == Engine(w, p, BooksOf(e), s, Excepted, Current(e), Latest(e))
<1>2. G(runtime[e])
  BY EngineTaken DEF EngineOK
<1>3. G(NoRuntime)
  BY <1>2, EngineGone
<1>4. G(Opened(c, messages))
  <2> DEFINE p == Opened(c, messages)
  <2>1. p # NoRuntime /\ p.turns = {c.n} /\ p.n = c.n /\ p.context = p.asked /\ p.pins = p.wants
    BY OpenedParts
  <2> HIDE DEF p
  <2>2. Viewed(p, Excepted)
    BY <2>1 DEF Viewed
  <2>3. p.turns \subseteq runtime[e].turns \cup {c.n} /\ c.n \in p.turns
    BY <2>1
  <2>4. G(p)
    BY <2>1, <2>2, <2>3, EngineRan, SMTT(30) DEF EngineOK
  <2> QED BY <2>4 DEF p
<1>5. runtime'[e] \in {runtime[e], NoRuntime, Opened(c, messages)}
  BY <1>1 DEF Start
<1> HIDE DEF G
<1>6. G(runtime'[e])
  BY <1>2, <1>3, <1>4, <1>5
<1> QED BY <1>6 DEF G

LEMMA OneEngine ==
    ASSUME EnginesOK, UNCHANGED <<bk, parked, bound, s, unsettled, edited, turns>>, Heard,
           NEW e \in Engines,
           \A z \in Engines \ {e} : queue'[z] = queue[z] /\ runtime'[z] = runtime[z],
           Engine(queue'[e], runtime'[e], BooksOf(e), s, Excepted, Current(e), Latest(e))
    PROVE  EnginesOK'
<1> SUFFICES ASSUME NEW z \in Engines PROVE EngineOK(z)'
  BY DEF EnginesOK
<1>1. CASE z = e
  BY <1>1, EngineStays
<1>2. CASE z # e
  <2>1. Engine(queue[z], runtime[z], BooksOf(z), s, Excepted, Current(z), Latest(z))
    BY DEF EnginesOK, EngineOK
  <2>2. queue'[z] = queue[z] /\ runtime'[z] = runtime[z]
    BY <1>2
  <2> QED BY <2>1, <2>2, EngineStays
<1> QED BY <1>1, <1>2

LEMMA OthersStay ==
    ASSUME Types, NEW e \in Engines, NEW p,
           runtime' = runtime \/ runtime' = [runtime EXCEPT ![e] = p]
    PROVE  /\ \A z \in Engines \ {e} : runtime'[z] = runtime[z]
           /\ runtime' = [runtime EXCEPT ![e] = p] => runtime'[e] = p
BY DEF Types, RuntimeOK

\* A start and a rebuild.
LEMMA StartEngines ==
    ASSUME Types, EnginesOK, NEW e \in Engines, StartChat(e) \/ Rebuild(e)
    PROVE  EnginesOK'
<1>1. PICK kind \in {"start", "continue"} : Command(e, kind)
  BY DEF StartChat, Rebuild
<1>2. Taken(e) /\ UNCHANGED Controlled
  BY DEF StartChat, Rebuild
<1> DEFINE c == queue[e][1]
<1>3. /\ \A z \in Engines \ {e} : queue'[z] = queue[z]
      /\ Head(queue[e]) = c /\ 1 \in 1 .. Len(queue[e])
      /\ c.kind = kind
  <2>1. /\ \A z \in Engines \ {e} : queue'[z] = queue[z]
        /\ Head(queue[e]) = c /\ Len(queue[e]) >= 1 /\ c.kind = kind
    BY <1>1, <1>2, TakenIs
  <2>2. Len(queue[e]) \in Nat
    BY EngineParts
  <2> QED BY <2>1, <2>2
<1>4. PICK m \in Nat : /\ Len(queue[e]) = m + 1 /\ Len(queue'[e]) = m
                       /\ \A k \in 1 .. m : queue'[e][k] = queue[e][k + 1]
  BY <1>1, <1>2, TakenIs
<1>5. PICK messages : messages = c.asked /\ Start(e, c, messages)
  <2>1. Commanded(queue[e])
    BY DEF EnginesOK, EngineOK, Engine
  <2>2. /\ c.kind = "start" => c.messages = c.asked
        /\ c.kind = "continue" => c.prefix \o c.messages = c.asked
    BY <1>3, <2>1 DEF Commanded
  <2>3. CASE StartChat(e)
    <3>1. c.kind = "start"
      BY <1>3, <2>3 DEF StartChat, Command
    <3> QED BY <1>3, <2>2, <2>3, <3>1 DEF StartChat
  <2>4. CASE Rebuild(e)
    <3>1. c.kind = "continue"
      BY <1>3, <2>4 DEF Rebuild, Command
    <3> QED BY <1>3, <2>2, <2>4, <3>1 DEF Rebuild
  <2> QED BY <2>3, <2>4
<1>6. c.kind # "stop" /\ EngineOK(e)
  BY <1>3 DEF EnginesOK
<1>7. Engine(queue'[e], runtime'[e], BooksOf(e), s, Excepted, Current(e), Latest(e))
  BY <1>4, <1>5, <1>6, StartEngine
<1>8. Heard
  <2>1. TurnOK
    BY DEF Types
  <2>2. \/ turn' = Ended(c.n, "error") \/ turn' = Told(c.n, Len(messages), "none")
    BY <1>5 DEF Start
  <2> QED BY <2>1, <2>2, HeardIs
<1>9. UNCHANGED <<bk, parked, bound, s, unsettled, edited, turns>>
  BY <1>2 DEF Controlled, session, binding, history
<1>10. \A z \in Engines \ {e} : runtime'[z] = runtime[z]
  <2>1. \/ runtime' = runtime
        \/ \E p : runtime' = [runtime EXCEPT ![e] = p]
    BY <1>5 DEF Start
  <2> QED BY <2>1, OthersStay
<1> HIDE DEF c
<1> QED BY <1>3, <1>7, <1>8, <1>9, <1>10, OneEngine

LEMMA ContinuedParts ==
    ASSUME NEW r \in Runtimes, NEW c \in Calls
    PROVE  /\ Continued(r, c) # NoRuntime /\ Continued(r, c) \in Runtimes
           /\ Continued(r, c).turns = r.turns \cup {c.n} /\ Continued(r, c).n = c.n
           /\ InFlight(Continued(r, c))
           /\ Continued(r, c).state = IF c.capture THEN "capturing" ELSE "generating"
           /\ Continued(r, c).context = r.context \o Appendable(c.messages)
           /\ Continued(r, c).asked = c.asked
           /\ Continued(r, c).pins = r.pins /\ Continued(r, c).wants = c.pins
<1>1. Continued(r, c).state = IF c.capture THEN "capturing" ELSE "generating"
  BY DEF Continued, Runtimes
<1>2. InFlight(Continued(r, c))
  BY <1>1 DEF InFlight
<1>3. Continued(r, c) # NoRuntime
  BY <1>2, NoneIs
<1> QED BY <1>1, <1>2, <1>3, ContinuedIs DEF Continued, Runtimes

LEMMA IdleParts ==
    ASSUME NEW r \in Runtimes, NEW w \in Seq(Msgs)
    PROVE  /\ Idle(r, w) # NoRuntime /\ Idle(r, w) \in Runtimes
           /\ Idle(r, w).turns = r.turns /\ Idle(r, w).n = 0
           /\ ~InFlight(Idle(r, w)) /\ Idle(r, w).state = "idle"
           /\ Idle(r, w).context = r.context \o w
           /\ Idle(r, w).pins = r.pins
<1>1. Idle(r, w).state = "idle"
  BY DEF Idle, Runtimes
<1>2. ~InFlight(Idle(r, w)) /\ Idle(r, w) # NoRuntime
  BY <1>1, NoneIs DEF InFlight
<1> QED BY <1>1, <1>2, IdleIs DEF Idle, Runtimes

\* What a continuation makes of the runtime it finds.
LEMMA ContinueEngine ==
    ASSUME Types, NEW e \in Engines, EngineOK(e),
           NEW w, NEW m \in Nat, Len(queue[e]) = m + 1, Len(w) = m,
           \A k \in 1 .. m : w[k] = queue[e][k + 1],
           NEW c \in Calls, c = queue[e][1], c.kind = "continue",
           NEW r, r = runtime[e], r # NoRuntime,
           NEW p, p \in {r, NoRuntime, Continued(r, c), Idle(Continued(r, c), <<>>)}
    PROVE  Engine(w, p, BooksOf(e), s, Excepted, Current(e), Latest(e))
<1>1. r \in Runtimes
  BY EngineParts
<1> DEFINE G(y) == Engine(w, y, BooksOf(e), s, Excepted, Current(e), Latest(e))
<1>2. G(r)
  BY EngineTaken DEF EngineOK
<1>3. G(NoRuntime)
  BY <1>2, EngineGone
<1> DEFINE a == Continued(r, c)
<1>4. /\ a # NoRuntime /\ a \in Runtimes /\ a.turns = r.turns \cup {c.n} /\ a.n = c.n
      /\ a.context = r.context \o Appendable(c.messages) /\ a.asked = c.asked
      /\ a.pins = r.pins /\ a.wants = c.pins
  BY <1>1, ContinuedParts
<1> HIDE DEF a
<1>5. Viewed(a, Excepted)
  <2> SUFFICES ASSUME Live(a, Excepted) PROVE a.context = a.asked /\ a.pins = a.wants
    BY DEF Viewed
  <2>1. c.n \notin Excepted /\ Live(r, Excepted)
    BY <1>4 DEF Live
  <2>2. Awaited(queue[e], r, Excepted) /\ 1 \in 1 .. Len(queue[e])
    BY DEF EngineOK, Engine
  <2>3. Fits(r, c)
    BY <2>1, <2>2 DEF Awaited
  <2> QED BY <1>4, <2>3 DEF Fits
<1>6. G(a)
  BY <1>4, <1>5, EngineRan DEF EngineOK
<1> DEFINE i == Idle(a, <<>>)
<1>7. i # NoRuntime /\ i.turns = a.turns /\ ~InFlight(i)
  <2>1. <<>> \in Seq(Msgs)
    OBVIOUS
  <2> QED BY <1>4, <2>1, IdleParts
<1> HIDE DEF i
<1>8. G(i)
  <2>1. Viewed(i, Excepted)
    BY <1>7 DEF Viewed
  <2>2. InFlight(i) => i.n = c.n
    BY <1>7
  <2>3. i # NoRuntime /\ c.n \in i.turns /\ i.turns \subseteq r.turns \cup {c.n}
    BY <1>4, <1>7
  <2>4. c.kind # "stop"
    OBVIOUS
  <2> QED BY <2>1, <2>2, <2>3, <2>4, EngineRan DEF EngineOK
<1>9. p \in {r, NoRuntime, a, i}
  BY DEF a, i
<1> HIDE DEF G
<1>10. G(p)
  BY <1>2, <1>3, <1>6, <1>8, <1>9
<1> QED BY <1>10 DEF G

LEMMA ContinueEngines ==
    ASSUME Types, EnginesOK, NEW e \in Engines, ContinueChat(e)
    PROVE  EnginesOK'
<1> DEFINE c == queue[e][1]
           r == runtime[e]
<1>1. Command(e, "continue") /\ Taken(e) /\ UNCHANGED Controlled /\ r # NoRuntime
  BY DEF ContinueChat
<1>2. Head(queue[e]) = c /\ c.kind = "continue" /\ \A z \in Engines \ {e} : queue'[z] = queue[z]
  BY <1>1, TakenIs
<1>3. c \in Calls
  <2>1. QueueOK
    BY DEF Types
  <2> QED BY <1>1, <1>2, <2>1, HeadIs
<1>4. PICK m \in Nat : /\ Len(queue[e]) = m + 1 /\ Len(queue'[e]) = m
                       /\ \A k \in 1 .. m : queue'[e][k] = queue[e][k + 1]
  BY <1>1, TakenIs
<1> DEFINE a == Continued(r, c)
           i == Idle(a, <<>>)
<1>5. \/ runtime' = runtime
      \/ runtime' = [runtime EXCEPT ![e] = NoRuntime]
      \/ runtime' = [runtime EXCEPT ![e] = a]
      \/ runtime' = [runtime EXCEPT ![e] = i]
  BY <1>2 DEF ContinueChat
<1>6. \/ turn' = Ended(c.n, "error") \/ turn' = Told(c.n, Len(c.messages), "none")
  BY <1>2 DEF ContinueChat
<1> HIDE DEF a, i, c
<1>7. runtime'[e] \in {r, NoRuntime, a, i} /\ \A z \in Engines \ {e} : runtime'[z] = runtime[z]
  BY <1>5, OthersStay
<1>8. Heard
  <2>1. TurnOK
    BY DEF Types
  <2> QED BY <1>6, <2>1, HeardIs
<1>9. UNCHANGED <<bk, parked, bound, s, unsettled, edited, turns>>
  BY <1>1 DEF Controlled, session, binding, history
<1>10. Engine(queue'[e], runtime'[e], BooksOf(e), s, Excepted, Current(e), Latest(e))
  <2>1. EngineOK(e) /\ c = queue[e][1]
    BY DEF EnginesOK, c
  <2>2. runtime'[e] \in {r, NoRuntime, Continued(r, c), Idle(Continued(r, c), <<>>)}
    BY <1>7 DEF a, i
  <2> QED BY <1>1, <1>2, <1>3, <1>4, <2>1, <2>2, ContinueEngine, SMTT(30)
<1> QED BY <1>2, <1>7, <1>8, <1>9, <1>10, OneEngine

\* A stop takes the runtime along.
LEMMA StopEngines ==
    ASSUME Types, EnginesOK, NEW e \in Engines, StopChat(e)
    PROVE  EnginesOK'
<1>1. Command(e, "stop") /\ Taken(e) /\ UNCHANGED Controlled
      /\ runtime' = [runtime EXCEPT ![e] = NoRuntime]
  BY DEF StopChat
<1>2. \A z \in Engines \ {e} : queue'[z] = queue[z]
  BY <1>1, TakenIs
<1>3. PICK m \in Nat : /\ Len(queue[e]) = m + 1 /\ Len(queue'[e]) = m
                       /\ \A k \in 1 .. m : queue'[e][k] = queue[e][k + 1]
  BY <1>1, TakenIs
<1>4. runtime'[e] = NoRuntime /\ \A z \in Engines \ {e} : runtime'[z] = runtime[z]
  BY <1>1, OthersStay
<1>5. Heard
  <2>1. TurnOK
    BY DEF Types
  <2>2. turn' = turn \/ turn' = Ended(runtime[e].n, "stopped")
    BY DEF StopChat
  <2> QED BY <2>1, <2>2, HeardIs
<1>6. UNCHANGED <<bk, parked, bound, s, unsettled, edited, turns>>
  BY <1>1 DEF Controlled, session, binding, history
<1>7. EngineOK(e)
  BY DEF EnginesOK
<1>8. Engine(queue'[e], runtime[e], BooksOf(e), s, Excepted, Current(e), Latest(e))
  BY <1>3, <1>7, EngineTaken DEF EngineOK
<1>9. Engine(queue'[e], runtime'[e], BooksOf(e), s, Excepted, Current(e), Latest(e))
  BY <1>4, <1>8, EngineGone
<1> QED BY <1>2, <1>4, <1>5, <1>6, <1>9, OneEngine

\* What leaves the queue alone.
LEMMA WorkEngines ==
    ASSUME Types, EnginesOK, NEW e \in Engines,
           Finish(e) \/ Break(e) \/ Evict(e) \/ Swap(e)
    PROVE  EnginesOK'
<1> DEFINE r == runtime[e]
           G(p) == Engine(queue[e], p, BooksOf(e), s, Excepted, Current(e), Latest(e))
<1>1. UNCHANGED <<bk, parked, bound, s, unsettled, edited, turns, queue>>
  BY DEF Finish, Break, Evict, Swap, Controlled, session, binding, history
<1>2. PICK w \in {<<Answer>>, <<CallOf(Len(s.records) + 1)>>, <<Partial>>} :
         \/ runtime' = [runtime EXCEPT ![e] = NoRuntime]
         \/ runtime' = [runtime EXCEPT ![e] = Idle(r, w)] /\ InFlight(r)
  <2>1. CASE Finish(e)
    <3>1. PICK reply \in {Answer, CallOf(Len(s.records) + 1)} :
             runtime' = [runtime EXCEPT ![e] = IF Reading(@.n) THEN Idle(@, <<reply>>) ELSE NoRuntime]
      BY <2>1 DEF Finish
    <3>2. InFlight(r)
      BY <2>1 DEF Finish, InFlight
    <3>3. /\ Reading(r.n) => runtime' = [runtime EXCEPT ![e] = Idle(r, <<reply>>)]
          /\ ~Reading(r.n) => runtime' = [runtime EXCEPT ![e] = NoRuntime]
      BY <3>1
    <3>4. <<reply>> \in {<<Answer>>, <<CallOf(Len(s.records) + 1)>>, <<Partial>>}
      OBVIOUS
    <3> QED BY <3>2, <3>3, <3>4
  <2>2. CASE Break(e)
    BY <2>2 DEF Break
  <2>3. CASE Evict(e) \/ Swap(e)
    BY <2>3 DEF Evict, Swap
  <2> QED BY <2>1, <2>2, <2>3
<1>3. Heard
  <2>1. TurnOK
    BY DEF Types
  <2>2. \/ turn' = turn
        \/ \E n, end : turn' = Ended(n, end)
    BY DEF Finish, Break, Evict, Swap
  <2> QED BY <2>1, <2>2, HeardIs
<1>4. G(r)
  BY DEF EnginesOK, EngineOK
<1>5. G(NoRuntime)
  BY <1>4, EngineGone
<1>6. ASSUME InFlight(r) PROVE G(Idle(r, w))
  <2>1. r # NoRuntime /\ r \in Runtimes
    BY <1>6, NoneIs, EngineParts
  <2>2. w \in Seq(Msgs)
    BY Replies
  <2> DEFINE i == Idle(r, w)
  <2>3. i # NoRuntime /\ i.turns = r.turns /\ ~InFlight(i)
    BY <2>1, <2>2, IdleParts
  <2> HIDE DEF i
  <2>4. Viewed(i, Excepted) /\ (InFlight(i) => i.n = r.n)
    BY <2>3 DEF Viewed
  <2> HIDE DEF r
  <2>5. G(i)
    BY <1>4, <1>6, <2>1, <2>3, <2>4, EngineWorked
  <2> QED BY <2>5 DEF i
<1> DEFINE i == Idle(r, w)
<1> HIDE DEF i
<1>7. /\ \A z \in Engines \ {e} : runtime'[z] = runtime[z]
      /\ runtime'[e] = NoRuntime \/ (InFlight(r) /\ runtime'[e] = i)
  <2>1. \/ runtime' = [runtime EXCEPT ![e] = NoRuntime]
        \/ runtime' = [runtime EXCEPT ![e] = i] /\ InFlight(r)
    BY <1>2 DEF i
  <2> QED BY <2>1, OthersStay
<1>8. G(runtime'[e])
  <2>1. InFlight(r) => G(i)
    BY <1>6 DEF i
  <2> HIDE DEF G
  <2> QED BY <1>5, <1>7, <2>1
<1>9. queue' = queue
  BY <1>1
<1> QED BY <1>1, <1>3, <1>7, <1>8, <1>9, OneEngine

LEMMA ControllersEngines ==
    ASSUME Types, EnginesOK, Controllers
    PROVE  EnginesOK'
BY StartEngines, ContinueEngines, StopEngines, WorkEngines DEF Controllers

-----------------------------------------------------------------------------
(* The caller's side leaves each engine right.                             *)

\* An engine under a session, bookkeeping and turn that changed.
LEMMA EngineKept ==
    ASSUME Types, Types', NEW z \in Engines,
           Engine(queue'[z], runtime'[z], BooksOf(z), s, Excepted, Current(z), Latest(z)),
           NEW d, d = BooksOf(z)', NEW b, b = BooksOf(z), Same(d, b),
           NEW more, more = Excepted', Excepted \subseteq more,
           Latest(z) <= Latest(z)', Len(s.records) <= Len(s'.records),
           NEW next, next = Current(z)',
           ASSUME d.opened PROVE next = Current(z) \/ Current(z) \in more \/ Current(z) = 0,
           NEW r, r = runtime'[z],
           ASSUME d.opened, b.opened, Listed(b, s), Live(r, more),
                  Current(z) \in r.turns \/ Holds(r, b, s)
           PROVE  next \in r.turns \/ Holds(r, d, s')
    PROVE  EngineOK(z)'
<1> DEFINE q == queue'[z]
<1>1. /\ Current(z) \in Nat /\ Latest(z) \in Nat /\ Len(s.records) \in Nat
  BY EngineParts
<1>2. /\ Len(q) \in Nat /\ next \in Nat /\ Latest(z)' \in Nat /\ Len(s'.records) \in Nat
  <2>1. q \in Seq(Calls \cup Stops)
    BY DEF Types, QueueOK
  <2>2. Len(s'.records) \in Nat
    <3>1. Sound(s')
      BY DEF Types, LogOK
    <3> QED BY <3>1, SoundParts
  <2>3. turns' \in Nat /\ (turn' # NoTurn => turns' > 0)
    <3>1. turns' \in 0 .. MaxTurns
      BY DEF Types, CountOK
    <3>2. turn' # NoTurn => turn'.n > 0 /\ turn'.n = turns'
      BY DEF Types, TurnOK
    <3> QED BY <3>1, <3>2, BoundsAssumption
  <2>4. next \in Nat /\ Latest(z)' \in Nat
    BY <2>3 DEF Current, Latest
  <2> QED BY <2>1, <2>2, <2>4
<1> HIDE DEF q
<1>3. Engine(q, r, b, s, Excepted, Current(z), Latest(z))
  BY DEF q
<1>4. ASSUME d.opened, Live(r, more), Current(z) \in r.turns \/ Holds(r, b, s)
      PROVE  next \in r.turns \/ Holds(r, d, s')
  <2>1. b.opened
    BY <1>4 DEF Same
  <2>2. Listed(b, s)
    BY <1>3, <2>1 DEF Engine, Opening
  <2> QED BY <1>4, <2>1, <2>2
<1> DEFINE x == s
           y == s'
           cur == Current(z)
           top == Latest(z)
           high == Latest(z)'
           exc == Excepted
<1>5. Engine(q, r, d, y, more, next, high)
  <2>1. /\ Engine(q, r, b, x, exc, cur, top) /\ Len(q) \in Nat
        /\ cur \in Nat /\ top \in Nat /\ next \in Nat /\ high \in Nat
        /\ top <= high /\ exc \subseteq more /\ Same(d, b)
        /\ Len(x.records) \in Nat /\ Len(y.records) \in Nat /\ Len(x.records) <= Len(y.records)
    BY <1>1, <1>2, <1>3
  <2>2. ASSUME d.opened, Live(r, more), cur \in r.turns \/ Holds(r, b, x)
        PROVE  next \in r.turns \/ Holds(r, d, y)
    BY <1>4, <2>2
  <2>3. Onward(r, b, x, d, y, cur, next, more)
    BY <2>2 DEF Onward
  <2> HIDE DEF x, y, cur, top, high, exc
  <2> QED BY <2>1, <2>3, EngineBooks
<1> QED BY <1>5 DEF EngineOK, q

LEMMA SameSelf ==
    ASSUME NEW b PROVE Same(b, b)
BY DEF Same

LEMMA SameClosed ==
    ASSUME NEW b, NEW d, ~d.opened PROVE Same(d, b)
BY DEF Same

\* A stop sent to one engine.
LEMMA StopSent ==
    ASSUME Types, EnginesOK, NEW e \in Engines, NEW n,
           queue' = [queue EXCEPT ![e] = Append(@, [kind |-> "stop", n |-> n])],
           runtime' = runtime, NEW z \in Engines
    PROVE  Engine(queue'[z], runtime'[z], BooksOf(z), s, Excepted, Current(z), Latest(z))
<1>1. QueueOK
  BY DEF Types
<1>2. EngineOK(z)
  BY DEF EnginesOK
<1>3. CASE z # e
  <2>1. queue'[z] = queue[z]
    BY <1>1, <1>3 DEF QueueOK
  <2> QED BY <1>2, <2>1 DEF EngineOK
<1>4. CASE z = e
  <2> DEFINE q == queue[z]
             m == Len(q)
             c == [kind |-> "stop", n |-> n]
             w == Append(q, c)
  <2>1. queue'[z] = w
    BY <1>1, <1>4 DEF QueueOK
  <2>2. q \in Seq(Calls \cup Stops) /\ m \in Nat
    BY <1>1, QueueParts
  <2>3. Len(w) = m + 1 /\ (\A k \in 1 .. m : w[k] = q[k]) /\ w[m + 1] = c
    BY <2>2
  <2>4. w[m + 1].kind = "stop"
    BY <2>3
  <2> HIDE DEF w, q, c
  <2>5. Engine(q, runtime[z], BooksOf(z), s, Excepted, Current(z), Latest(z))
    BY <1>2 DEF EngineOK, q
  <2>6. m = Len(q)
    OBVIOUS
  <2> HIDE DEF m
  <2>7. Engine(w, runtime[z], BooksOf(z), s, Excepted, Current(z), Latest(z))
    BY <2>2, <2>3, <2>4, <2>5, <2>6, EngineStop
  <2> QED BY <2>1, <2>7
<1> QED BY <1>3, <1>4

LEMMA NotedEngines ==
    ASSUME Types, EnginesOK,
           \/ \E e \in Engines : NoteSwap(e) \/ ClearSent(e)
           \/ UNCHANGED vars
    PROVE  EnginesOK'
<1>1. UNCHANGED <<s, bk, parked, bound, queue, runtime, turn, turns, unsettled, edited>>
  BY DEF NoteSwap, ClearSent, session, binding, history, vars
<1>2. Heard
  BY <1>1 DEF Heard
<1> SUFFICES ASSUME NEW z \in Engines PROVE EngineOK(z)'
  BY DEF EnginesOK
<1>3. Engine(queue[z], runtime[z], BooksOf(z), s, Excepted, Current(z), Latest(z))
  BY DEF EnginesOK, EngineOK
<1> QED BY <1>1, <1>2, <1>3, EngineStays

LEMMA CancelEngines ==
    ASSUME Types, EnginesOK, Cancel
    PROVE  EnginesOK'
<1>1. UNCHANGED <<s, bk, parked, bound, runtime, turn, turns, unsettled, edited>>
      /\ queue' = [queue EXCEPT ![turn.engine] = Append(@, [kind |-> "stop", n |-> turn.n])]
      /\ turn # NoTurn
  BY DEF Cancel, session, binding, history
<1>2. Heard
  BY <1>1 DEF Heard
<1>3. turn.engine \in Engines
  BY <1>1 DEF Types, TurnOK, InTurn
<1> SUFFICES ASSUME NEW z \in Engines PROVE EngineOK(z)'
  BY DEF EnginesOK
<1>4. Engine(queue'[z], runtime'[z], BooksOf(z), s, Excepted, Current(z), Latest(z))
  BY <1>1, <1>3, StopSent
<1> QED BY <1>1, <1>2, <1>4, EngineStays

\* A turn left: what it sent is excepted when the conversation stays open.
LEMMA LeaveEngines ==
    ASSUME Types, Types', EnginesOK, Leave \/ LeaveAsync \/ LeaveMicrophone
    PROVE  EnginesOK'
<1>1. /\ turn # NoTurn /\ turn' = NoTurn
      /\ UNCHANGED <<s, parked, bound, runtime, turns, edited>>
      /\ bk' = bk \/ bk' = Closed(bk)
      /\ unsettled \subseteq unsettled'
      /\ bk' = Closed(bk) \/ ~bk.opened \/ turn.n \in unsettled'
      /\ \/ queue' = queue
         \/ queue' = [queue EXCEPT ![turn.engine] = Append(@, [kind |-> "stop", n |-> turn.n])]
  BY DEF Leave, LeaveAsync, LeaveMicrophone, Unsettled, session
<1>2. turn.engine \in Engines /\ bk \in Bindings /\ turn.n = turns /\ bound = turn.engine
  BY <1>1 DEF Types, TurnOK, InTurn, BooksOK
<1>3. ~Closed(bk).opened
  BY <1>2, BindingParts
<1> SUFFICES ASSUME NEW z \in Engines PROVE EngineOK(z)'
  BY DEF EnginesOK
<1>4. Engine(queue'[z], runtime'[z], BooksOf(z), s, Excepted, Current(z), Latest(z))
  <2>1. CASE queue' = queue
    BY <1>1, <2>1 DEF EnginesOK, EngineOK
  <2>2. CASE queue' # queue
    BY <1>1, <1>2, <2>2, StopSent
  <2> QED BY <2>1, <2>2
<1> DEFINE d == BooksOf(z)'
           b == BooksOf(z)
           more == Excepted'
           r == runtime'[z]
           next == Current(z)'
<1>5. next = 0
  BY <1>1 DEF Current
<1>6. d = b \/ ~d.opened
  BY <1>1, <1>3 DEF BooksOf
<1>7. Same(d, b)
  BY <1>6 DEF Same
<1>8. Excepted \subseteq more /\ Latest(z) <= Latest(z)' /\ Len(s.records) <= Len(s'.records)
  <2>1. Excepted \subseteq more
    BY <1>1 DEF Excepted
  <2>2. turns \in Nat /\ Len(s.records) \in Nat
    BY EngineParts
  <2>3. Latest(z) <= Latest(z)'
    BY <1>1, <2>2 DEF Latest
  <2> QED BY <1>1, <2>1, <2>2, <2>3
<1>9. ASSUME d.opened PROVE Current(z) \in more \/ Current(z) = 0
  <2>1. CASE z = turn.engine
    <3>1. d = bk' /\ b = bk
      BY <1>1, <1>2, <2>1 DEF BooksOf
    <3>2. bk' # Closed(bk) /\ bk.opened
      BY <1>3, <1>6, <1>9, <3>1
    <3>3. turn.n \in unsettled'
      BY <1>1, <3>2
    <3> QED BY <1>2, <3>3, <2>1, <1>1 DEF Excepted, Current
  <2>2. CASE z # turn.engine
    BY <2>2 DEF Current
  <2> QED BY <2>1, <2>2
<1>10. ASSUME d.opened, b.opened, Listed(b, s), Live(r, more),
              Current(z) \in r.turns \/ Holds(r, b, s)
       PROVE  next \in r.turns \/ Holds(r, d, s')
  <2>1. d = b /\ s' = s
    BY <1>1, <1>6, <1>10
  <2>2. Current(z) \notin r.turns
    <3>1. CASE Current(z) \in more
      BY <1>10, <3>1 DEF Live
    <3>2. CASE Current(z) = 0
      <4>1. r = runtime[z]
        BY <1>1
      <4> QED BY <3>2, <4>1, NoTurnTaken
    <3> QED BY <1>9, <1>10, <3>1, <3>2
  <2> QED BY <1>10, <2>1, <2>2
<1> HIDE DEF d, b, more, r, next
<1> QED
  <2>1. d = BooksOf(z)' /\ b = BooksOf(z) /\ more = Excepted' /\ r = runtime'[z]
        /\ next = Current(z)'
    BY DEF d, b, more, r, next
  <2>2. ASSUME d.opened PROVE next = Current(z) \/ Current(z) \in more \/ Current(z) = 0
    BY <1>9, <2>2
  <2> QED BY <1>4, <1>7, <1>8, <1>10, <2>1, <2>2, EngineKept

\* A recording committed: the runtime goes on to generate, the session has the messages.
LEMMA CommitEngines ==
    ASSUME Types, Types', EnginesOK, Commit
    PROVE  EnginesOK'
<1> DEFINE e == turn.engine
           p == [runtime[e] EXCEPT !.state = "generating"]
<1>1. /\ turn # NoTurn /\ turn' = [turn EXCEPT !.staged = <<>>]
      /\ UNCHANGED <<bk, parked, bound, queue, turns, unsettled, edited>>
      /\ s' = AddedAll(s, turn.staged)
      /\ runtime[e].state = "capturing" /\ runtime' = [runtime EXCEPT ![e].state = "generating"]
  BY DEF Commit, binding, history
<1>2. e \in Engines /\ turn.staged \in Seq(Stored) /\ turn \in InTurn /\ turn.n > 0
  BY <1>1 DEF Types, TurnOK, InTurn
<1>3. runtime[e] \in Runtimes /\ runtime[e] # NoRuntime /\ InFlight(runtime[e])
  BY <1>1, <1>2, NoneIs, EngineParts DEF InFlight
<1>4. /\ p.turns = runtime[e].turns /\ p.n = runtime[e].n /\ p.context = runtime[e].context
      /\ p.asked = runtime[e].asked /\ p.pins = runtime[e].pins /\ p.wants = runtime[e].wants
      /\ p # NoRuntime /\ p \in Runtimes /\ p.state = "generating"
  <2>1. p.state = "generating"
    BY <1>3 DEF Runtimes
  <2>2. p # NoRuntime
    BY <2>1, NoneIs
  <2> QED BY <1>3, <2>1, <2>2 DEF Runtimes
<1>5. runtime'[e] = p /\ \A z \in Engines \ {e} : runtime'[z] = runtime[z]
  BY <1>1, <1>2 DEF Types, RuntimeOK
<1>6. turn' # NoTurn /\ turn'.engine = e
  <2>1. turn'.n = turn.n /\ turn'.engine = e
    BY <1>1, <1>2 DEF InTurn
  <2> QED BY <1>2, <2>1 DEF NoTurn
<1> HIDE DEF p, e
<1> SUFFICES ASSUME NEW z \in Engines PROVE EngineOK(z)'
  BY DEF EnginesOK
<1>7. Engine(queue'[z], runtime'[z], BooksOf(z), s, Excepted, Current(z), Latest(z))
  <2>1. Engine(queue[z], runtime[z], BooksOf(z), s, Excepted, Current(z), Latest(z))
    BY DEF EnginesOK, EngineOK
  <2>2. CASE z = e
    <3>1. Viewed(runtime[e], Excepted)
      BY <2>1, <2>2 DEF Engine
    <3>2. Viewed(p, Excepted)
      BY <1>3, <1>4, <3>1 DEF Viewed, Live
    <3>3. Engine(queue[e], p, BooksOf(e), s, Excepted, Current(e), Latest(e))
      BY <1>3, <1>4, <2>1, <2>2, <3>2, EngineWorked
    <3> QED BY <1>1, <1>5, <2>2, <3>3
  <2>3. CASE z # e
    BY <1>1, <1>5, <2>1, <2>3
  <2> QED BY <2>2, <2>3
<1> DEFINE d == BooksOf(z)'
           b == BooksOf(z)
           more == Excepted'
           r == runtime'[z]
           next == Current(z)'
<1>8. d = b /\ more = Excepted /\ next = Current(z) /\ Latest(z)' = Latest(z)
  BY <1>1, <1>6 DEF BooksOf, Excepted, Current, Latest, e
<1>9. Same(d, b) /\ Excepted \subseteq more /\ Latest(z) <= Latest(z)'
  BY <1>8, SameSelf, EngineParts
<1>10. Sound(s)
  BY EngineParts
<1>11. Len(s.records) <= Len(s'.records)
  BY <1>1, <1>2, <1>10, RecordsAdded
<1>12. ASSUME d.opened, b.opened, Listed(b, s), Live(r, more),
              Current(z) \in r.turns \/ Holds(r, b, s)
       PROVE  next \in r.turns \/ Holds(r, d, s')
  <2>1. CASE Holds(r, b, s)
    <3>1. r \in Runtimes
      BY <1>12 DEF Live, Types, RuntimeOK
    <3>2. Listed(b, s)
      BY <1>12
    <3> HIDE DEF r, b
    <3>3. Holds(r, b, s')
      BY <1>1, <1>2, <1>10, <2>1, <3>1, <3>2, HoldsAdded
    <3> QED BY <1>8, <3>3
  <2> QED BY <1>8, <1>12, <2>1
<1> HIDE DEF d, b, more, r, next
<1> QED
  <2>1. d = BooksOf(z)' /\ b = BooksOf(z) /\ more = Excepted' /\ r = runtime'[z]
        /\ next = Current(z)'
    BY DEF d, b, more, r, next
  <2> QED BY <1>7, <1>8, <1>9, <1>11, <1>12, <2>1, EngineKept

\* The owner's operations on an engine: what changes are the session and the books.
LEMMA OwnerEngine ==
    ASSUME Types, Types', EnginesOK, Owner,
           turn = NoTurn, UNCHANGED <<turn, turns, queue>>,
           Excepted \subseteq Excepted',
           NEW z \in Engines, runtime'[z] = runtime[z] \/ runtime'[z] = NoRuntime,
           NEW d, d = BooksOf(z)', NEW b, b = BooksOf(z), Same(d, b),
           NEW r, r = runtime'[z],
           ASSUME d.opened, b.opened, Listed(b, s), Live(r, Excepted'), r = runtime[z],
                  Holds(r, b, s)
           PROVE  Holds(r, d, s')
    PROVE  EngineOK(z)'
<1> DEFINE more == Excepted'
           next == Current(z)'
           q == queue'[z]
<1>1. Engine(queue'[z], runtime'[z], BooksOf(z), s, Excepted, Current(z), Latest(z))
  <2>1. Engine(queue[z], runtime[z], BooksOf(z), s, Excepted, Current(z), Latest(z))
    BY DEF EnginesOK, EngineOK
  <2>2. Engine(queue[z], NoRuntime, BooksOf(z), s, Excepted, Current(z), Latest(z))
    BY <2>1, EngineGone
  <2> QED BY <2>1, <2>2
<1>2. Current(z) = 0 /\ next = 0 /\ Latest(z)' = Latest(z) /\ Latest(z) \in Nat
  BY EngineParts DEF Current, Latest
<1>3. Len(s.records) <= Len(s'.records)
  BY OwnerKeeps DEF Kept, Grows
<1>4. ASSUME d.opened, b.opened, Listed(b, s), Live(r, more), Current(z) \in r.turns \/ Holds(r, b, s)
      PROVE  next \in r.turns \/ Holds(r, d, s')
  <2>1. r = runtime[z]
    BY <1>4 DEF Live
  <2>2. 0 \notin runtime[z].turns
    BY NoTurnTaken
  <2>3. Holds(r, b, s)
    BY <1>2, <1>4, <2>1, <2>2
  <2> QED BY <1>4, <2>1, <2>3
<1>5. more = Excepted' /\ next = Current(z)' /\ Excepted \subseteq more /\ Latest(z) <= Latest(z)'
  BY <1>2
<1> HIDE DEF more, next
<1> QED BY <1>1, <1>2, <1>3, <1>4, <1>5, EngineKept

\* What an edit does: it changes the settings, or the projection and notes whom it overtakes.
LEMMA EditIsEither ==
    ASSUME Owner, Edits
    PROVE  \/ Projects(s')
           \/ /\ edited' = edited
              /\ \/ \E x : s' = [s EXCEPT !.system = x]
                 \/ \E x : s' = [s EXCEPT !.tools = x]
           \/ \E m \in Pushed : Push(m)
           \/ \E ids, at : Fork(ids, at)
           \/ Clear \/ Reopen \/ \E e \in Engines, m \in Pushed : Refuse(e, m, 0)
<1>1. ASSUME NEW V, RestoreContext(V) PROVE Projects(s')
  BY <1>1 DEF RestoreContext, Projects
<1>2. ASSUME NEW ms, Edit(ms) PROVE Projects(s')
  BY <1>2 DEF Edit, Projects
<1>3. ASSUME NEW slot, ReplaceMessage(slot) \/ RemoveMessage(slot) PROVE Projects(s')
  BY <1>3 DEF ReplaceMessage, RemoveMessage, Projects
<1>4. ASSUME ReplaceMessages PROVE Projects(s')
  BY <1>4 DEF ReplaceMessages, Projects
<1>5. ASSUME NEW x, SetSystem(x) \/ SetTools(x)
      PROVE  edited' = edited /\ (s' = [s EXCEPT !.system = x] \/ s' = [s EXCEPT !.tools = x])
  BY <1>5 DEF SetSystem, SetTools
<1> QED BY <1>1, <1>2, <1>3, <1>4, <1>5 DEF Owner

\* A runtime an operation overtakes is excepted from then on; any other holds what it did.
LEMMA HoldsProjected ==
    ASSUME Types, EnginesOK, NEW z \in Engines, NEW b, NEW d, NEW exc, NEW y,
           b.opened, d.opened, d.prefix = b.prefix, d.thinking = b.thinking,
           Live(runtime[z], exc), Holds(runtime[z], b, s),
           Overtaken(y, d, z) => runtime[z].turns \subseteq exc
    PROVE  Holds(runtime[z], d, y)
<1>1. runtime[z] # NoRuntime /\ runtime[z].turns \cap exc = {} /\ runtime[z].turns # {}
  BY NoTurnTaken DEF Live
<1>2. ~Overtaken(y, d, z)
  BY <1>1
<1>3. IsPrefix(d.prefix[3], y.active) => IsPrefix(runtime[z].context, Transcript(y, d.prefix[2]))
  BY <1>2 DEF Overtaken
<1> QED BY <1>3 DEF Holds

LEMMA SettingTranscript ==
    ASSUME NEW x \in Logs, NEW y, NEW v, y = [x EXCEPT !.system = v] \/ y = [x EXCEPT !.tools = v]
    PROVE  y.active = x.active /\ \A p : Transcript(y, p) = Transcript(x, p)
<1>1. y.active = x.active /\ y.records = x.records
  BY DEF Logs
<1> QED BY <1>1 DEF Transcript

LEMMA EditEngines ==
    ASSUME Types, Types', EnginesOK, Owner, Edits,
           \/ Projects(s')
           \/ /\ edited' = edited
              /\ \/ \E x : s' = [s EXCEPT !.system = x]
                 \/ \E x : s' = [s EXCEPT !.tools = x]
    PROVE  EnginesOK'
<1>1. /\ turn = NoTurn /\ UNCHANGED <<parked, bound, queue, runtime, turn, turns, unsettled>>
      /\ bk' = Closed(bk)
  BY DEF Edits, engines
<1>2. edited \subseteq edited' /\ Excepted \subseteq Excepted'
  BY <1>1 DEF Projects, Excepted
<1>3. ~bk'.opened
  BY <1>1, BindingParts DEF Types, BooksOK
<1> SUFFICES ASSUME NEW z \in Engines PROVE EngineOK(z)'
  BY DEF EnginesOK
<1> DEFINE d == BooksOf(z)'
           b == BooksOf(z)
           r == runtime'[z]
<1>4. (d = b /\ d = parked[z]) \/ ~d.opened
  BY <1>1, <1>3 DEF BooksOf
<1>5. Same(d, b)
  BY <1>4 DEF Same
<1>6. ASSUME d.opened, b.opened, Listed(b, s), Live(r, Excepted'), r = runtime[z], Holds(r, b, s)
      PROVE  Holds(r, d, s')
  <2>1. d = b /\ d = parked[z]
    BY <1>4, <1>6
  <2>2. CASE Projects(s')
    <3>1. Overtaken(s', d, z) => runtime[z].turns \subseteq edited'
      <4>1. runtime[z] # NoRuntime
        BY <1>6 DEF Live
      <4> QED BY <2>1, <2>2, <4>1 DEF Projects
    <3>2. Overtaken(s', d, z) => runtime[z].turns \subseteq Excepted'
      BY <3>1 DEF Excepted
    <3>3. d.prefix = b.prefix /\ d.thinking = b.thinking /\ Live(runtime[z], Excepted')
          /\ Holds(runtime[z], b, s) /\ b.opened /\ d.opened
      BY <1>6, <2>1
    <3> HIDE DEF d, b, r
    <3>4. Holds(runtime[z], d, s')
      BY <3>2, <3>3, HoldsProjected
    <3> QED BY <1>6, <3>4
  <2>3. CASE ~Projects(s')
    <3>1. PICK x : s' = [s EXCEPT !.system = x] \/ s' = [s EXCEPT !.tools = x]
      BY <2>3
    <3>2. s \in Logs
      BY DEF Types, LogOK, Sound
    <3>3. s'.active = s.active /\ \A p : Transcript(s', p) = Transcript(s, p)
      BY <3>1, <3>2, SettingTranscript
    <3> HIDE DEF d, b, r
    <3> QED BY <1>6, <2>1, <3>3 DEF Holds
  <2> QED BY <2>2, <2>3
<1>7. d = BooksOf(z)' /\ b = BooksOf(z) /\ r = runtime'[z] /\ r = runtime[z]
  BY <1>1
<1> HIDE DEF d, b, r
<1> QED BY <1>1, <1>2, <1>5, <1>6, <1>7, OwnerEngine

LEMMA PushEngines ==
    ASSUME Types, Types', EnginesOK, Owner, NEW m \in Pushed, Push(m)
    PROVE  EnginesOK'
<1>1. /\ turn = NoTurn /\ s' = Added(s, m)
      /\ UNCHANGED <<bk, parked, bound, queue, runtime, turn, turns, unsettled, edited>>
  BY DEF Push, binding, engines, history
<1>2. m \in Stored /\ <<m>> \in Seq(Stored) /\ Sound(s)
  BY Sentences DEF Types, LogOK
<1>3. s' = AddedAll(s, <<m>>)
  BY <1>1, <1>2, AddedSound
<1> SUFFICES ASSUME NEW z \in Engines PROVE EngineOK(z)'
  BY DEF EnginesOK
<1> DEFINE d == BooksOf(z)'
           b == BooksOf(z)
           r == runtime'[z]
<1>4. d = b /\ Excepted' = Excepted /\ r = runtime[z]
  BY <1>1 DEF BooksOf, Excepted
<1>5. Same(d, b)
  BY <1>4, SameSelf
<1>6. ASSUME d.opened, b.opened, Listed(b, s), Live(r, Excepted'), r = runtime[z], Holds(r, b, s)
      PROVE  Holds(r, d, s')
  <2>1. r \in Runtimes
    BY <1>6 DEF Live, Types, RuntimeOK
  <2> DEFINE ms == <<m>>
             y == s'
  <2>2. ms \in Seq(Stored) /\ y = AddedAll(s, ms) /\ Listed(b, s)
    BY <1>2, <1>3, <1>6
  <2> HIDE DEF ms, y, r, b, d
  <2>3. Holds(r, b, y)
    BY <1>2, <1>6, <2>1, <2>2, HoldsAdded
  <2> QED BY <1>4, <2>3 DEF y
<1>7. d = BooksOf(z)' /\ b = BooksOf(z) /\ r = runtime'[z]
  OBVIOUS
<1> HIDE DEF d, b, r
<1> QED BY <1>1, <1>4, <1>5, <1>6, <1>7, OwnerEngine

\* What closes all the books.
LEMMA ClosedEngines ==
    ASSUME Types, Types', EnginesOK, Owner,
           turn = NoTurn, UNCHANGED <<turn, turns, queue, unsettled, edited>>,
           ~bk'.opened, \A e \in Engines : ~parked'[e].opened,
           \A e \in Engines : runtime'[e] = runtime[e] \/ runtime'[e] = NoRuntime
    PROVE  EnginesOK'
<1> SUFFICES ASSUME NEW z \in Engines PROVE EngineOK(z)'
  BY DEF EnginesOK
<1> DEFINE d == BooksOf(z)'
           b == BooksOf(z)
           r == runtime'[z]
<1>1. ~d.opened
  BY DEF BooksOf
<1>2. Same(d, b) /\ Excepted' = Excepted
  BY <1>1, SameClosed DEF Excepted
<1>3. d = BooksOf(z)' /\ b = BooksOf(z) /\ r = runtime'[z]
  OBVIOUS
<1> HIDE DEF d, b, r
<1>4. ASSUME d.opened, b.opened, Listed(b, s), Live(r, Excepted'), r = runtime[z], Holds(r, b, s)
      PROVE  Holds(r, d, s')
  BY <1>1, <1>4
<1> QED BY <1>1, <1>2, <1>3, <1>4, OwnerEngine

LEMMA RefuseEngines ==
    ASSUME Types, Types', EnginesOK, Owner, NEW e \in Engines, NEW m \in Pushed, Refuse(e, m, 0)
    PROVE  EnginesOK'
<1> DEFINE next == [Added(s, m) EXCEPT !.active = Trim(s.active, Added(s, m).records)]
           nb == NoteEngine(bk, e)
           nm == NoteModel(nb, generation[e])
           nt == NoteThinking(nm, 0)
<1>1. /\ turn = NoTurn /\ s' = next
      /\ bk' = nt /\ parked' = Parked(bk, e) /\ bound' = e
      /\ unsettled' = unsettled \cup
              UNION {runtime[y].turns : y \in {z \in Engines :
                        /\ runtime[z] # NoRuntime
                        /\ Overtaken(next, IF z = e THEN nt ELSE parked'[z], z)}}
      /\ UNCHANGED <<queue, runtime, turn, turns, edited>>
  BY DEF Refuse, engines
<1> HIDE DEF next
<1>2. BooksOK /\ bk \in Bindings /\ parked \in [Engines -> Bindings] /\ generation[e] \in Int
      /\ nb \in Bindings
  BY DEF Types, BooksOK, NoteEngine
<1> HIDE DEF nb
<1>3. nm \in Bindings /\ nm.prefix = nb.prefix /\ nm.own = nb.own /\ nm.thinking = nb.thinking
      /\ (nm.opened => nb.opened)
  BY <1>2, ModelNoted
<1> HIDE DEF nm
<1>4. nt \in Bindings /\ nt.prefix = nm.prefix /\ nt.own = nm.own /\ nt.thinking = 0
      /\ (nt.opened => nm.opened /\ nm.thinking = 0)
  BY <1>3, ThinkingNoted
<1> HIDE DEF nt
<1> SUFFICES ASSUME NEW z \in Engines PROVE EngineOK(z)'
  BY DEF EnginesOK
<1> DEFINE d == BooksOf(z)'
           b == BooksOf(z)
           r == runtime'[z]
<1>5. d = IF z = e THEN nt ELSE parked'[z]
  BY <1>1 DEF BooksOf
<1>6. Same(d, b)
  <2>1. CASE z = e
    <3>1. b = nb /\ d = nt
      BY <1>5, <2>1 DEF BooksOf, NoteEngine, nb
    <3> HIDE DEF d, b
    <3>2. nt.opened => nb.opened /\ nb.thinking = nt.thinking
      BY <1>3, <1>4
    <3> QED BY <1>3, <1>4, <3>1, <3>2 DEF Same
  <2>2. CASE z # e
    <3>1. CASE z # bound
      BY <1>1, <1>2, <1>5, <2>2, <3>1, ParkedIs, SameSelf DEF BooksOf
    <3>2. CASE z = bound
      <4>1. b = bk /\ d = IF bk.opened THEN bk ELSE parked[z]
        BY <1>1, <1>2, <1>5, <2>2, <3>2, ParkedIs DEF BooksOf
      <4>2. ~parked[z].opened
        BY <1>2, <3>2 DEF BooksOK
      <4> QED BY <4>1, <4>2 DEF Same
    <3> QED BY <3>1, <3>2
  <2> QED BY <2>1, <2>2
<1>7. Excepted \subseteq Excepted' /\ r = runtime[z] /\ unsettled' \subseteq Excepted'
  BY <1>1 DEF Excepted
<1>8. ASSUME d.opened, b.opened, Listed(b, s), Live(r, Excepted'), r = runtime[z], Holds(r, b, s)
      PROVE  Holds(r, d, s')
  <2>1. d.prefix = b.prefix /\ d.thinking = b.thinking
    BY <1>6, <1>8 DEF Same
  <2>2. runtime[z] # NoRuntime
    BY <1>8 DEF Live
  <2>3. Overtaken(next, d, z) => runtime[z].turns \subseteq unsettled'
    <3> HIDE DEF d
    <3> QED BY <1>1, <1>5, <2>2
  <2>4. Overtaken(next, d, z) => runtime[z].turns \subseteq Excepted'
    BY <1>7, <2>3
  <2>5. Live(runtime[z], Excepted') /\ Holds(runtime[z], b, s) /\ b.opened /\ d.opened
    BY <1>8
  <2> HIDE DEF d, b, r
  <2>6. Holds(runtime[z], d, next)
    BY <2>1, <2>4, <2>5, HoldsProjected
  <2> QED BY <1>1, <1>8, <2>6
<1>9. d = BooksOf(z)' /\ b = BooksOf(z) /\ r = runtime'[z]
  OBVIOUS
<1> HIDE DEF d, b, r
<1> QED BY <1>1, <1>6, <1>7, <1>8, <1>9, OwnerEngine

LEMMA OwnerEngines ==
    ASSUME Types, Types', EnginesOK, Owner
    PROVE  EnginesOK'
<1>1. CASE Clear
  <2>1. /\ turn = NoTurn /\ bk' = [NoBinding EXCEPT !.thinking = bk.thinking]
        /\ parked' = [e \in Engines |-> NoBinding]
        /\ UNCHANGED <<queue, runtime, turn, turns, unsettled, edited>>
    BY <1>1 DEF Clear, engines, history
  <2>2. ~bk'.opened /\ \A e \in Engines : ~parked'[e].opened
    BY <2>1 DEF NoBinding
  <2> QED BY <2>1, <2>2, ClosedEngines
<1>2. CASE Reopen
  <2>1. /\ turn = NoTurn /\ bk' = NoBinding /\ parked' = [e \in Engines |-> NoBinding]
        /\ UNCHANGED <<queue, runtime, turn, turns, unsettled, edited>>
    BY <1>2 DEF Reopen, engines, history
  <2>2. ~bk'.opened /\ \A e \in Engines : ~parked'[e].opened
    BY <2>1 DEF NoBinding
  <2> QED BY <2>1, <2>2, ClosedEngines
<1>3. ASSUME NEW ids, NEW at, Fork(ids, at) PROVE EnginesOK'
  <2>1. /\ turn = NoTurn /\ bk' = NoBinding /\ parked' = [e \in Engines |-> NoBinding]
        /\ runtime' = [e \in Engines |-> NoRuntime]
        /\ UNCHANGED <<queue, turn, turns, unsettled, edited>>
    BY <1>3 DEF Fork, history
  <2>2. ~bk'.opened /\ \A e \in Engines : ~parked'[e].opened
    BY <2>1 DEF NoBinding
  <2> QED BY <2>1, <2>2, ClosedEngines
<1>4. CASE Edits
  BY <1>1, <1>2, <1>3, <1>4, EditIsEither, EditEngines, PushEngines, RefuseEngines
<1> QED BY <1>1, <1>2, <1>3, <1>4, OwnerIs, PushEngines, RefuseEngines

\* A turn dispatched, apart from its books and its command.
LEMMA DispatchTurn ==
    ASSUME Types, NEW e \in Engines, NEW q \in Requests,
           Dispatch(e, q.api, q.staged, q.over, q.thinking)
    PROVE  /\ turn = NoTurn /\ turns' = turns + 1 /\ turns \in Nat
           /\ turn'.n = turns + 1 /\ turn'.engine = e /\ turn'.api = q.api /\ turn' # NoTurn
           /\ turn'.closes = PerTurn(q.api, q.over) /\ turn'.got = 0 /\ turn'.end = "none"
           /\ turn'.staged = IF q.api = "microphone" THEN q.staged \o <<Recording>> ELSE <<>>
           /\ UNCHANGED <<sent, generation, runtime, unsettled, edited>>
           /\ \E ms \in Seq(Stored) : s' = AddedAll(s, ms)
<1>1. /\ turn = NoTurn /\ turns' = turns + 1
      /\ turn'.n = turns + 1 /\ turn'.engine = e /\ turn'.api = q.api
      /\ turn'.closes = PerTurn(q.api, q.over) /\ turn'.got = 0 /\ turn'.end = "none"
      /\ turn'.staged = IF q.api = "microphone" THEN q.staged \o <<Recording>> ELSE <<>>
      /\ UNCHANGED <<sent, generation, runtime, unsettled, edited>>
  BY DEF Dispatch, history
<1>2. turns \in Nat
  BY EngineParts
<1>3. turn' # NoTurn
  BY <1>1, <1>2 DEF NoTurn
<1>4. \E ms \in Seq(Stored) : s' = AddedAll(s, ms)
  <2>1. s' = IF q.api = "microphone" THEN s ELSE AddedAll(s, q.staged)
    BY DispatchKeeps
  <2>2. q.staged \in Seq(Stored) /\ <<>> \in Seq(Stored)
    BY Staging
  <2>3. AddedAll(s, <<>>) = s
    <3>1. s \in Logs
      BY DEF Types, LogOK, Sound
    <3>2. Additions(<<>>) = <<>>
      BY DEF Additions
    <3> QED BY <2>2, <3>1, <3>2, ReplayAdditions, ReplayNone
  <2> QED BY <2>1, <2>2, <2>3
<1> QED BY <1>1, <1>2, <1>3, <1>4

\* The engines a turn is not sent to.
LEMMA DispatchOthers ==
    ASSUME Types, Types', EnginesOK, NEW e \in Engines, NEW q \in Requests,
           Dispatch(e, q.api, q.staged, q.over, q.thinking), NEW z \in Engines, z # e
    PROVE  EngineOK(z)'
<1> DEFINE b0 == IF PerTurn(q.api, q.over) THEN Closed(bk) ELSE bk
           d == BooksOf(z)'
           b == BooksOf(z)
           r == runtime'[z]
           more == Excepted'
           next == Current(z)'
<1>1. b0 \in Bindings /\ parked' = Parked(b0, e) /\ bound' = e
  BY DispatchBooks
<1>2. /\ turn = NoTurn /\ turns' = turns + 1 /\ turn'.engine = e /\ turn' # NoTurn /\ turns \in Nat
      /\ UNCHANGED <<runtime, unsettled, edited>>
  BY DispatchTurn
<1>3. PICK ms \in Seq(Stored) : s' = AddedAll(s, ms)
  BY DispatchTurn
<1>4. Engine(queue'[z], runtime'[z], b, s, Excepted, Current(z), Latest(z))
  <2>1. queue'[z] = queue[z]
    <3> DEFINE c == Sent(e)
               wire == Wired(q)
               tools == Offered(q, s')
               sys == Under(q, s')
    <3> HIDE DEF c, wire, tools, sys
    <3>1. queue' = [queue EXCEPT ![e] = Append(@, c)]
      BY DispatchSends DEF c, wire, tools, sys
    <3> QED BY <3>1 DEF Types, QueueOK
  <2> QED BY <1>2, <2>1 DEF EnginesOK, EngineOK
<1>5. Same(d, b)
  <2>1. d = Parked(b0, e)[z]
    BY <1>1 DEF BooksOf
  <2>2. BooksOK
    BY DEF Types
  <2> HIDE DEF d
  <2>3. CASE z # bound
    <3> HIDE DEF b0
    <3> QED BY <1>1, <2>1, <2>2, <2>3, ParkedIs, SameSelf DEF BooksOf
  <2>4. CASE z = bound
    <3>1. d = IF b0.opened THEN b0 ELSE parked[z]
      <4> HIDE DEF b0
      <4> QED BY <1>1, <2>1, <2>2, <2>4, ParkedIs
    <3>2. ~parked[z].opened /\ b = bk
      BY <2>2, <2>4 DEF BooksOK, BooksOf
    <3>3. ~Closed(bk).opened
      BY <2>2, BindingParts DEF BooksOK
    <3> QED BY <3>1, <3>2, <3>3 DEF Same
  <2> QED BY <2>3, <2>4
<1>6. Excepted = more /\ Current(z) = 0 /\ next = 0 /\ Latest(z) = turns /\ Latest(z)' = turns
  <2>1. turns' - 1 = turns
    BY <1>2
  <2> QED BY <1>2, <2>1 DEF Excepted, Current, Latest
<1>7. Sound(s) /\ Len(s.records) <= Len(s'.records)
  <2>1. Sound(s)
    BY EngineParts
  <2> QED BY <1>3, <2>1, RecordsAdded
<1>8. ASSUME d.opened, b.opened, Listed(b, s), Live(r, more), Current(z) \in r.turns \/ Holds(r, b, s)
      PROVE  next \in r.turns \/ Holds(r, d, s')
  <2>1. r \in Runtimes /\ r = runtime[z]
    BY <1>2, <1>8 DEF Live, Types, RuntimeOK
  <2>2. Holds(r, b, s)
    <3>1. 0 \notin runtime[z].turns
      BY NoTurnTaken
    <3> QED BY <1>6, <1>8, <2>1, <3>1
  <2>3. d.prefix = b.prefix /\ d.thinking = b.thinking
    BY <1>5, <1>8 DEF Same
  <2> DEFINE y == s'
  <2>4. y = AddedAll(s, ms) /\ Listed(b, s)
    BY <1>3, <1>8
  <2> HIDE DEF r, b, d, y
  <2>5. Holds(r, b, y)
    BY <1>7, <2>1, <2>2, <2>4, HoldsAdded
  <2>6. Holds(r, d, y)
    BY <2>3, <2>5 DEF Holds
  <2> QED BY <2>6 DEF y
<1>9. d = BooksOf(z)' /\ b = BooksOf(z) /\ r = runtime'[z] /\ more = Excepted' /\ next = Current(z)'
  OBVIOUS
<1>10. Excepted \subseteq more /\ next = Current(z) /\ Latest(z) <= Latest(z)'
  BY <1>2, <1>6
<1> HIDE DEF d, b, r, more, next
<1> QED BY <1>4, <1>5, <1>7, <1>8, <1>9, <1>10, EngineKept

\* A transcript is its first messages and the others.
LEMMA CutAt ==
    ASSUME NEW X, NEW t \in Seq(X), NEW n \in Nat, n <= Len(t)
    PROVE  SubSeq(t, 1, n) \o SubSeq(t, n + 1, Len(t)) = t
<1> DEFINE u == SubSeq(t, 1, n)
           v == SubSeq(t, n + 1, Len(t))
<1>1. Len(t) \in Nat /\ t \in Seq(X)
  OBVIOUS
<1>2. /\ u \in Seq(X) /\ Len(u) = n /\ \A i \in 1 .. Len(u) : u[i] = t[i]
  <2>1. /\ u \in Seq(X) /\ Len(u) = IF 1 <= n THEN n - 1 + 1 ELSE 0
        /\ \A i \in 1 .. Len(u) : u[i] = t[1 + i - 1]
    BY <1>1, Slice
  <2> HIDE DEF u
  <2> QED BY <2>1
<1>3. /\ v \in Seq(X) /\ Len(v) = Len(t) - n /\ \A i \in 1 .. Len(v) : v[i] = t[n + i]
  <2> DEFINE m == n + 1
             l == Len(t)
  <2>1. m \in Nat /\ m >= 1 /\ l \in Nat /\ l <= Len(t)
    BY <1>1
  <2>2. /\ v \in Seq(X) /\ Len(v) = IF m <= l THEN l - m + 1 ELSE 0
        /\ \A i \in 1 .. Len(v) : v[i] = t[m + i - 1]
    <3> HIDE DEF m, l
    <3>1. /\ SubSeq(t, m, l) \in Seq(X) /\ Len(SubSeq(t, m, l)) = IF m <= l THEN l - m + 1 ELSE 0
          /\ \A i \in 1 .. Len(SubSeq(t, m, l)) : SubSeq(t, m, l)[i] = t[m + i - 1]
      BY <2>1, Slice
    <3> QED BY <3>1 DEF m, l
  <2> HIDE DEF v
  <2> QED BY <1>1, <2>2
<1> HIDE DEF u, v
<1>4. /\ u \o v \in Seq(X) /\ Len(u \o v) = Len(t)
      /\ \A i \in 1 .. Len(u) : (u \o v)[i] = u[i]
      /\ \A i \in 1 .. Len(v) : (u \o v)[Len(u) + i] = v[i]
  BY <1>1, <1>2, <1>3, Sequences
<1> DEFINE z == u \o v
<1>5. \A i \in 1 .. Len(t) : z[i] = t[i]
  <2> SUFFICES ASSUME NEW i \in 1 .. Len(t) PROVE z[i] = t[i]
    OBVIOUS
  <2>1. CASE i <= n
    <3>1. i \in 1 .. Len(u)
      BY <1>2, <2>1
    <3> QED BY <1>2, <1>4, <3>1
  <2>2. CASE i > n
    <3>1. i - n \in 1 .. Len(v) /\ n + (i - n) = i
      BY <1>1, <1>3, <2>2
    <3>2. z[Len(u) + (i - n)] = v[i - n]
      BY <1>4, <3>1
    <3> HIDE DEF z
    <3> QED BY <1>2, <1>3, <3>1, <3>2
  <2>3. i <= n \/ i > n
    BY <1>1
  <2> HIDE DEF z
  <2> QED BY <2>1, <2>2, <2>3
<1>6. z \in Seq(X) /\ Len(z) = Len(t)
  BY <1>4
<1> HIDE DEF z
<1>7. z = t
  <2>1. \A w, y \in Seq(X) : Len(w) = Len(y) /\ (\A i \in 1 .. Len(w) : w[i] = y[i]) => w = y
    BY Sequences
  <2> QED BY <1>1, <1>5, <1>6, <2>1
<1> QED BY <1>7 DEF u, v, z

\* The command of a turn says the whole transcript it was dispatched with.
LEMMA SentWhole ==
    ASSUME NEW x, Sound(x), NEW wire \in Seq(Stored), NEW held \in Nat,
           NEW t, t = Transcript(x, x.system), held <= Len(t)
    PROVE  Joined(SubSeq(t, 1, held), Joined(SubSeq(t, held + 1, Len(t)), wire)) = Joined(t, wire)
<1>1. t \in Seq(Msgs) /\ wire \in Seq(Msgs)
  <2>1. x.system \in 0 .. 2
    BY SoundParts DEF Systems
  <2>2. t \in Seq(Msgs)
    BY <2>1, TranscriptIs
  <2>3. wire \in Seq(Msgs)
    <3>1. \A i \in 1 .. Len(wire) : wire[i] \in Msgs
      BY DEF Msgs
    <3> QED BY <3>1, SeqInto
  <2> QED BY <2>2, <2>3
<1> DEFINE u == SubSeq(t, 1, held)
           v == SubSeq(t, held + 1, Len(t))
<1>3. u \o v = t
  BY <1>1, CutAt
<1>4. u \in Seq(Msgs) /\ v \in Seq(Msgs)
  <2>1. Len(t) \in Nat /\ held + 1 \in Nat /\ held + 1 >= 1 /\ 1 \in Nat /\ 1 >= 1
    BY <1>1
  <2>2. u \in Seq(Msgs)
    BY <1>1, <2>1, Slice
  <2> DEFINE m == held + 1
             l == Len(t)
  <2>3. m \in Nat /\ m >= 1 /\ l \in Nat /\ l <= Len(t)
    BY <2>1
  <2> HIDE DEF m, l
  <2>4. SubSeq(t, m, l) \in Seq(Msgs)
    BY <1>1, <2>3, Slice
  <2> QED BY <2>2, <2>4 DEF m, l
<1> HIDE DEF u, v
<1>5. u \o (v \o wire) = (u \o v) \o wire
  BY SMTT(30), <1>1, <1>4, Assoc
<1> QED BY <1>3, <1>5 DEF u, v, Joined

\* What a command finds in the books it is sent with.
Shut(d) == ~d.opened
Ready(b, d, y) == b.opened /\ d.own /\ Listed(d, y)

OnePart(c) == c.messages = c.asked
TwoParts(c) == Joined(c.prefix, c.messages) = c.asked
Queued(q, w, c, m) ==
    /\ m \in Nat /\ Len(q) = m /\ Len(w) = m + 1
    /\ \A k \in 1 .. m : w[k] = q[k]
    /\ c = w[m + 1] /\ c.kind \in {"start", "continue"}
Following(c, top, high) == top \in Nat /\ high = top + 1 /\ c.n = high
Fitting(r, d, y, c) == Holds(r, d, y) /\ Fits(r, c)

LEMMA EngineSentOn ==
    ASSUME NEW q, NEW r, NEW b, NEW x, NEW exc, NEW top,
           Engine(q, r, b, x, exc, 0, top),
           NEW w, NEW m, NEW c, Queued(q, w, c, m), NEW high, Following(c, top, high),
           NEW d, NEW y,
           c.kind = "start" => OnePart(c) /\ Shut(d),
           c.kind = "continue" => TwoParts(c) /\ Ready(b, d, y),
           c.kind = "continue" /\ Live(r, exc) => Fitting(r, d, y, c)
    PROVE  Engine(w, r, d, y, exc, high, high)
<1>1. /\ m \in Nat /\ Len(q) = m /\ Len(w) = m + 1
      /\ \A k \in 1 .. m : w[k] = q[k]
      /\ c = w[m + 1] /\ c.kind \in {"start", "continue"}
      /\ top \in Nat /\ high = top + 1 /\ c.n = top + 1
  BY DEF Queued, Following
<1>2. ASSUME c.kind = "continue", Live(r, exc) PROVE Holds(r, d, y) /\ Fits(r, c)
  BY <1>2 DEF Fitting
<1>3. ASSUME c.kind = "continue" PROVE b.opened /\ d.own /\ Listed(d, y)
  BY <1>3 DEF Ready
<1>4. /\ c.kind = "start" => c.messages = c.asked
      /\ c.kind = "continue" => c.prefix \o c.messages = c.asked
      /\ c.kind = "start" => ~d.opened
  BY DEF OnePart, TwoParts, Shut, Joined
<1>5. Engine(w, r, d, y, exc, top + 1, top + 1)
  BY <1>1, <1>2, <1>3, <1>4, EngineSent
<1> QED BY <1>1, <1>5

\* The books a turn is dispatched with.
LEMMA DispatchParts ==
    ASSUME Types, NEW e \in Engines, NEW q \in Requests,
           Dispatch(e, q.api, q.staged, q.over, q.thinking)
    PROVE  /\ Sound(s') /\ Wired(q) \in Seq(Stored) /\ Offered(q, s') \in Tools /\ sent[e] \in Nat
           /\ bk' \in Bindings /\ bk'.thinking = q.thinking
           /\ bk'.opened =>
                 /\ ~PerTurn(q.api, q.over) \/ bound # e
                 /\ BooksOf(e).opened /\ bk'.own = BooksOf(e).own
                 /\ bk'.prefix = BooksOf(e).prefix /\ BooksOf(e).thinking = q.thinking
                 /\ q.over.system = 0
                 /\ \A k \in 1 .. Len(Wired(q)) : Wired(q)[k].role # "assistant"
                 /\ PrefixStillHeld(s', bk', sent[e], Offered(q, s'))
                 /\ TailIsAppendable(s', bk', sent[e])
<1> DEFINE x == s'
           b0 == IF PerTurn(q.api, q.over) THEN Closed(bk) ELSE bk
           wire == Wired(q)
           tools == Offered(q, x)
           held == sent[e]
           over == q.over
           thinking == q.thinking
           d == Books(b0, e, x, over, thinking, tools, wire)
           o == NoteEngine(b0, e)
<1>1. /\ Sound(x) /\ wire \in Seq(Stored) /\ tools \in Tools /\ held \in Nat
  <2>1. Sound(x)
    BY DispatchKeeps DEF Kept
  <2>2. wire \in Seq(Stored)
    BY Staging DEF Wired
  <2>3. tools \in Tools
    BY DispatchBooks DEF Offered
  <2>4. held \in Nat
    BY DEF Types, BooksOK
  <2> QED BY <2>1, <2>2, <2>3, <2>4
<1>2. b0 \in Bindings /\ bk' = d
  BY DispatchBooks DEF Wired, Offered
<1>3. /\ parked \in [Engines -> Bindings] /\ generation \in [Engines -> Nat]
      /\ bk \in Bindings /\ thinking \in Thinking
  BY Staging DEF Types, BooksOK
<1> HIDE DEF x, b0, wire, tools, held, over, thinking
<1>4. /\ d \in Bindings /\ d.thinking = thinking
      /\ d.prefix = o.prefix /\ d.own = o.own
      /\ d.opened => o.opened /\ o.thinking = thinking
      /\ d.opened => over.system = 0 /\ ~\E k \in DOMAIN wire : wire[k].role = "assistant"
  <2> DEFINE f == Books(b0, e, x, over, thinking, tools, wire)
  <2>1. f = d
    OBVIOUS
  <2> HIDE DEF d
  <2>2. /\ f \in Bindings /\ f.gen = generation[e] /\ f.thinking = thinking
        /\ f.prefix = NoteEngine(b0, e).prefix /\ f.own = NoteEngine(b0, e).own
        /\ NoteEngine(b0, e) \in Bindings
        /\ f.opened => /\ NoteEngine(b0, e).opened
                       /\ NoteEngine(b0, e).gen = generation[e]
                       /\ NoteEngine(b0, e).thinking = thinking
        /\ f.opened => over.system = 0 /\ ~\E k \in DOMAIN wire : wire[k].role = "assistant"
        /\ f.opened => PrefixStillHeld(x, f, sent[e], tools)
        /\ f.opened => TailIsAppendable(x, f, sent[e])
        /\ /\ NoteEngine(b0, e).opened
           /\ NoteEngine(b0, e).gen = generation[e]
           /\ NoteEngine(b0, e).thinking = thinking
           /\ over.system = 0
           /\ ~\E k \in DOMAIN wire : wire[k].role = "assistant"
           /\ PrefixStillHeld(x, f, sent[e], tools)
           /\ TailIsAppendable(x, f, sent[e])
           => f.opened
    BY <1>2, <1>3, BooksAre
  <2> HIDE DEF f
  <2> QED BY <2>1, <2>2
<1>5. d.opened => PrefixStillHeld(x, d, held, tools) /\ TailIsAppendable(x, d, held)
  <2> SUFFICES ASSUME d.opened
               PROVE  PrefixStillHeld(x, d, held, tools) /\ TailIsAppendable(x, d, held)
    OBVIOUS
  <2>1. d = Books(b0, e, x, over, thinking, tools, wire) /\ thinking \in Thinking
    BY <1>3
  <2>2. held = sent[e]
    BY DEF held
  <2> HIDE DEF d
  <2> QED BY <1>1, <1>2, <1>3, <2>1, <2>2, BooksHeld
<1>6. o.opened => /\ ~PerTurn(q.api, q.over) \/ bound # e
                  /\ o = BooksOf(e)
  <2>1. ~Closed(bk).opened
    BY <1>3, BindingParts
  <2> QED BY <2>1 DEF NoteEngine, BooksOf, b0
<1>7. d = bk'
  BY <1>2
<1> HIDE DEF d, o
<1>8. DOMAIN wire = 1 .. Len(wire)
  BY <1>1
<1>9. d.opened => \A k \in 1 .. Len(wire) : wire[k].role # "assistant"
  BY <1>4, <1>8
<1> QED BY <1>1, <1>2, <1>4, <1>5, <1>6, <1>7, <1>9 DEF x, wire, tools, held, over, thinking

LEMMA SendsParts ==
    ASSUME Types, NEW e \in Engines, NEW q \in Requests,
           Dispatch(e, q.api, q.staged, q.over, q.thinking)
    PROVE  LET c == Sent(e)
               x == s'
               wire == Wired(q)
               sys == Under(q, x)
           IN  /\ queue' = [queue EXCEPT ![e] = Append(@, c)]
               /\ c \in Calls
               /\ c.kind = IF bk'.opened THEN "continue" ELSE "start"
               /\ c.n = turns + 1
               /\ c.messages = Joined(IF q.over.system # 0 THEN Transcript(x, sys)
                                      ELSE Pending(x, bk'.opened, sent[e]), wire)
               /\ c.prefix = IF bk'.opened THEN SubSeq(Transcript(x, x.system), 1, sent[e]) ELSE <<>>
               /\ c.pins = <<Offered(q, x), q.thinking>>
               /\ c.capture = (q.api = "microphone")
               /\ c.asked = Joined(Transcript(x, sys), wire)
<1> DEFINE c == Sent(e)
           wire == Wired(q)
           tools == Offered(q, s')
           sys == Under(q, s')
<1>1. c = Sent(e) /\ wire = Wired(q) /\ tools = Offered(q, s') /\ sys = Under(q, s')
  OBVIOUS
<1> HIDE DEF c, wire, tools, sys
<1>2. /\ queue' = [queue EXCEPT ![e] = Append(@, c)]
      /\ c \in Calls
      /\ c.kind = IF bk'.opened THEN "continue" ELSE "start"
      /\ c.n = turns + 1
      /\ c.messages = Joined(IF q.over.system # 0 THEN Transcript(s', sys)
                             ELSE Pending(s', bk'.opened, sent[e]), wire)
      /\ c.prefix = IF bk'.opened THEN SubSeq(Transcript(s', s'.system), 1, sent[e]) ELSE <<>>
      /\ c.pins = <<tools, q.thinking>>
      /\ c.capture = (q.api = "microphone")
      /\ c.asked = Joined(Transcript(s', sys), wire)
  BY <1>1, DispatchSends
<1> QED BY <1>2 DEF c, wire, tools, sys

\* The engine a turn is sent to.
LEMMA DispatchOne ==
    ASSUME Types, Types', EnginesOK, NEW e \in Engines, NEW q \in Requests,
           Dispatch(e, q.api, q.staged, q.over, q.thinking)
    PROVE  EngineOK(e)'
<1> DEFINE x == s'
           wire == Wired(q)
           tools == Offered(q, x)
           held == sent[e]
           sys == Under(q, x)
           c == Sent(e)
           b == BooksOf(e)
           d == bk'
           r == runtime[e]
           t == Transcript(x, x.system)
           m == Len(queue[e])
           w == queue'[e]
<1>1. /\ Sound(x) /\ wire \in Seq(Stored) /\ tools \in Tools /\ held \in Nat
      /\ d \in Bindings /\ d.thinking = q.thinking
      /\ d.opened =>
            /\ b.opened /\ d.own = b.own
            /\ d.prefix = b.prefix /\ b.thinking = q.thinking
            /\ q.over.system = 0 /\ \A k \in 1 .. Len(wire) : wire[k].role # "assistant"
            /\ PrefixStillHeld(x, d, held, tools) /\ TailIsAppendable(x, d, held)
  BY DispatchParts
<1>2. /\ turn = NoTurn /\ turns' = turns + 1 /\ turn'.engine = e /\ turn' # NoTurn /\ turns \in Nat
      /\ UNCHANGED <<runtime, unsettled, edited>>
  BY DispatchTurn
<1>3. PICK ms \in Seq(Stored) : x = AddedAll(s, ms)
  BY DispatchTurn
<1>4. /\ queue' = [queue EXCEPT ![e] = Append(@, c)]
      /\ c \in Calls
      /\ c.kind = IF d.opened THEN "continue" ELSE "start"
      /\ c.n = turns + 1
      /\ c.messages = Joined(IF q.over.system # 0 THEN Transcript(x, sys)
                             ELSE Pending(x, d.opened, held), wire)
      /\ c.prefix = IF d.opened THEN SubSeq(t, 1, held) ELSE <<>>
      /\ c.pins = <<tools, q.thinking>>
      /\ c.asked = Joined(Transcript(x, sys), wire)
  BY SendsParts
<1>5. /\ queue[e] \in Seq(Calls \cup Stops) /\ m \in Nat
      /\ Len(w) = m + 1 /\ (\A k \in 1 .. m : w[k] = queue[e][k]) /\ w[m + 1] = c
  <2>1. queue[e] \in Seq(Calls \cup Stops) /\ m \in Nat
    BY QueueParts DEF Types
  <2>2. w = Append(queue[e], c)
    <3> HIDE DEF c
    <3> QED BY <1>4 DEF Types, QueueOK
  <2> HIDE DEF c, w
  <2> QED BY <2>1, <2>2
<1>6. Engine(queue[e], r, b, s, Excepted, 0, turns)
  BY <1>2 DEF EnginesOK, EngineOK, Current, Latest
<1>7. EngineOK(e)' <=> Engine(w, r, d, x, Excepted, turns + 1, turns + 1)
  <2>1. bound' = e
    BY DispatchBooks
  <2> QED BY <1>2, <2>1 DEF EngineOK, BooksOf, Current, Latest, Excepted
<1> HIDE DEF x, wire, tools, held, sys, c, b, d, r, t, m, w
<1>8. ASSUME c.kind = "start" PROVE ~d.opened /\ c.messages = c.asked
  <2>1. ~d.opened
    BY <1>4, <1>8
  <2>2. q.over.system = 0 => sys = x.system
    BY DEF sys, x, Under
  <2>3. d.opened <=> FALSE
    BY <2>1
  <2>4. Pending(x, d.opened, held) = Transcript(x, x.system)
    BY <2>1 DEF Pending
  <2> QED BY <1>4, <2>1, <2>2, <2>4
<1>9. ASSUME c.kind = "continue"
      PROVE  /\ d.opened /\ d.prefix \in Digests
             /\ c.messages = Joined(SubSeq(t, held + 1, Len(t)), wire)
             /\ c.asked = Joined(t, wire)
             /\ c.prefix \o c.messages = c.asked
             /\ held > 0 /\ held <= Len(t) /\ d.prefix = Digest(x, held, tools)
  <2>1. d.opened
    BY <1>4, <1>9
  <2>2. sys = x.system
    BY <1>1, <2>1 DEF sys, x, Under
  <2>3. Pending(x, d.opened, held) = SubSeq(t, held + 1, Len(t))
    BY <2>1 DEF Pending, t
  <2>4. c.messages = Joined(Pending(x, d.opened, held), wire)
    BY <1>1, <1>4, <2>1
  <2>5. c.asked = Joined(t, wire)
    BY <1>4, <2>2 DEF t
  <2>6. held > 0 /\ held <= Len(t) /\ d.prefix = Digest(x, held, tools)
    BY <1>1, <2>1 DEF PrefixStillHeld, t
  <2>7. c.prefix \o c.messages = c.asked
    <3>1. t = Transcript(x, x.system)
      BY DEF t
    <3>2. Joined(SubSeq(t, 1, held), Joined(SubSeq(t, held + 1, Len(t)), wire)) = Joined(t, wire)
      <4>1. Sound(x) /\ wire \in Seq(Stored) /\ held \in Nat /\ held <= Len(t)
        BY <1>1, <2>6
      <4> QED BY <3>1, <4>1, SentWhole
    <3>3. Pending(x, TRUE, held) = SubSeq(t, held + 1, Len(t))
      BY DEF Pending, t
    <3>4. c.prefix = SubSeq(t, 1, held)
      BY <1>4, <2>1
    <3>5. Joined(c.prefix, c.messages) = c.asked
      BY <2>3, <2>4, <2>5, <3>2, <3>3, <3>4
    <3> QED BY <3>5 DEF Joined
  <2>8. d.prefix \in Digests
    BY <1>1, <2>6, DigestIs
  <2> QED BY <2>1, <2>3, <2>4, <2>5, <2>6, <2>7, <2>8
<1>10. ASSUME c.kind = "continue" PROVE b.opened /\ d.own /\ Listed(d, x)
  <2>1. b.opened /\ d.own = b.own
    BY <1>1, <1>9, <1>10
  <2>2. b.own
    BY <1>6, <2>1 DEF Engine, Opening
  <2>3. Listed(d, x)
    <3> DEFINE p == d.prefix[3]
    <3>1. t = Transcript(x, x.system)
      BY DEF t
    <3>2. d.prefix[3] \in Seq(Nat) /\ IsPrefix(d.prefix[3], x.active)
      BY <1>1, <1>9, <1>10, <3>1, DigestLength
    <3>3. p \in Seq(Nat) /\ IsPrefix(p, x.active)
      BY <3>2
    <3> HIDE DEF p
    <3>4. \A i \in 1 .. Len(p) : p[i] \in 1 .. Len(x.records)
      BY <1>1, <3>3, ProjectionPrefix
    <3> QED BY <1>9, <1>10, <3>4 DEF Listed, p
  <2> QED BY <2>1, <2>2, <2>3
<1>11. ASSUME c.kind = "continue", Live(r, Excepted) PROVE Holds(r, d, x) /\ Fits(r, c)
  <2>1. b.opened /\ d.prefix = b.prefix /\ b.thinking = q.thinking /\ d.thinking = b.thinking
    BY <1>1, <1>9, <1>11
  <2>2. r \in Runtimes
    BY <1>11 DEF Live, r, Types, RuntimeOK
  <2>3. Holds(r, b, s) /\ Listed(b, s)
    <3>1. 0 \notin r.turns
      BY NoTurnTaken DEF r
    <3> QED BY <1>6, <1>11, <2>1, <3>1 DEF Engine, Opening
  <2>4. Sound(s)
    BY EngineParts
  <2>5. Holds(r, b, x)
    BY <1>3, <2>2, <2>3, <2>4, HoldsAdded
  <2>6. Holds(r, d, x)
    BY <2>1, <2>5 DEF Holds
  <2>7. r.state = "idle" /\ r.pins = c.pins
    <3>1. t = Transcript(x, x.system)
      BY DEF t
    <3>2. d.prefix[1] = tools
      BY <1>1, <1>9, <1>11, <3>1, DigestLength
    <3> QED BY <1>4, <2>1, <2>6, <3>2 DEF Holds
  <2>8. r.context \o Appendable(c.messages) = c.asked
    <3> DEFINE C == r.context
    <3>1. t = Transcript(x, x.system)
      BY DEF t
    <3>2. d.prefix[2] = x.system /\ IsPrefix(d.prefix[3], x.active)
      BY <1>1, <1>9, <1>11, <3>1, DigestLength
    <3>3. IsPrefix(C, t) /\ C # <<>> /\ C[Len(C)].role = "assistant"
          /\ Beyond(d.prefix, C)
      BY <2>6, <3>1, <3>2 DEF Holds, Beyond
    <3>4. C \in Seq(Msgs)
      BY <2>2 DEF Runtimes
    <3> HIDE DEF C
    <3>5. \A k \in 1 .. Len(wire) : wire[k].role # "assistant"
      BY <1>1, <1>9, <1>11
    <3>6. PrefixStillHeld(x, d, held, tools) /\ TailIsAppendable(x, d, held)
      BY <1>1, <1>9, <1>11
    <3>7. Joined(C, Appendable(Joined(SubSeq(t, held + 1, Len(t)), wire))) = Joined(t, wire)
      <4>1. Sound(x) /\ wire \in Seq(Stored) /\ held \in Nat /\ tools \in Tools
        BY <1>1
      <4> QED BY <3>1, <3>3, <3>4, <3>5, <3>6, <4>1, ContinueExact
    <3>8. Joined(C, Appendable(c.messages)) = c.asked
      BY <1>9, <1>11, <3>7
    <3> QED BY <3>8 DEF C, Joined
  <2> QED BY <2>6, <2>7, <2>8 DEF Fits
<1>12. /\ c.kind \in {"start", "continue"} /\ c.n = turns + 1
       /\ m = Len(queue[e]) /\ turns \in Nat
  BY <1>2, <1>4 DEF Calls, m
<1> DEFINE qq == queue[e]
           top == turns
           exc == Excepted
           high == turns + 1
<1>13. /\ Engine(qq, r, b, s, exc, 0, top) /\ top \in Nat /\ m \in Nat /\ Len(qq) = m
       /\ Len(w) = m + 1 /\ (\A k \in 1 .. m : w[k] = qq[k]) /\ c = w[m + 1] /\ high = top + 1 /\ c.n = high
  BY <1>2, <1>4, <1>5, <1>6, <1>12
<1>14. /\ c.kind = "start" => OnePart(c) /\ Shut(d)
       /\ c.kind = "continue" => TwoParts(c) /\ Ready(b, d, x)
       /\ c.kind = "continue" /\ Live(r, exc) => Fitting(r, d, x, c)
  <2>1. ASSUME c.kind = "start" PROVE OnePart(c) /\ Shut(d)
    BY <1>8, <2>1 DEF OnePart, Shut
  <2>2. ASSUME c.kind = "continue" PROVE TwoParts(c) /\ Ready(b, d, x)
    BY <1>9, <1>10, <2>2 DEF TwoParts, Ready, Joined
  <2>3. ASSUME c.kind = "continue", Live(r, exc) PROVE Fitting(r, d, x, c)
    BY <1>11, <2>3 DEF Fitting
  <2> QED BY <2>1, <2>2, <2>3
<1>16. Queued(qq, w, c, m) /\ Following(c, top, high)
  BY <1>12, <1>13 DEF Queued, Following
<1> HIDE DEF qq, top, exc, high
<1>15. Engine(w, r, d, x, exc, high, high)
  BY <1>13, <1>14, <1>16, EngineSentOn
<1> QED BY <1>7, <1>15 DEF exc, high

LEMMA DispatchEngines ==
    ASSUME Types, Types', EnginesOK, NEW e \in Engines, NEW q \in Requests,
           Dispatch(e, q.api, q.staged, q.over, q.thinking)
    PROVE  EnginesOK'
<1>1. EngineOK(e)'
  BY DispatchOne
<1>2. \A z \in Engines \ {e} : EngineOK(z)'
  BY DispatchOthers
<1> QED BY <1>1, <1>2 DEF EnginesOK

-----------------------------------------------------------------------------
(* The turn in flight, on its engine.                                      *)

\* The digest is of the session as the turn found it.
Digested(t, b, x) ==
    /\ b.prefix \in Digests /\ b.prefix[1] = t.tools /\ b.prefix[2] = x.system
    /\ IsPrefix(b.prefix[3], x.active)

\* The turn's own command, while it waits; the runtime at work on it; and when it is done.
Asked(w, t, x) == ~t.closes => w = Joined(Transcript(x, x.system), t.staged)
Mine(c, t, b, x) ==
    /\ c.pins = <<t.tools, b.thinking>>
    /\ c.capture <=> t.api = "microphone"
    /\ Asked(c.asked, t, x)
Doing(r, t, b, x) ==
    /\ t.end = "none" /\ r.wants = <<t.tools, b.thinking>>
    /\ r.state = "generating" => t.staged = <<>>
    /\ Asked(r.asked, t, x)
Answered(t, x) == IF t.end = "answer" THEN <<Answer>> ELSE <<CallOf(Len(x.records) + 1)>>
Did(r, t, b, x) ==
    /\ r.state = "idle" /\ r.pins = <<t.tools, b.thinking>>
    /\ ~t.closes => r.context = Joined(Transcript(x, x.system), Answered(t, x))

\* The command a turn has sent is the last one queued.  Until it is taken the turn hears
\* nothing of it, and the runtime does not know it.
Still(c, r, t, b, x) ==
    /\ t.end = "none" /\ t.n \notin r.turns
    /\ c.n = t.n => Mine(c, t, b, x)

\* A turn sent as a start is acknowledged with all it asks for.
Counted(t, q, r, x) ==
    /\ \A k \in 1 .. Len(q) : q[k].kind # "stop" /\ q[k].n = t.n => q[k].kind = "start"
    /\ InFlight(r) /\ r.n = t.n /\ ~t.closes => t.got = Len(r.asked)
    /\ t.end \in {"answer", "call"} /\ ~t.closes => t.got = Len(Transcript(x, x.system))

InHand(t, q, r, b, x, exc) ==
    /\ t.api # "microphone" => t.staged = <<>>
    /\ t.closes => t.api = "turn"
    /\ b.opened => Digested(t, b, x)
    /\ \A k \in 1 .. Len(q) : q[k].kind # "stop" => Still(q[k], r, t, b, x)
    /\ InFlight(r) /\ r.n = t.n => Doing(r, t, b, x)
    /\ t.end \in {"answer", "call"} /\ Live(r, exc) => Did(r, t, b, x)
    /\ t.end = "stopped" => r = NoRuntime
    /\ Shut(b) => Counted(t, q, r, x)

CurrentOK ==
    turn # NoTurn => InHand(turn, queue[turn.engine], runtime[turn.engine], bk, s, Excepted)

LEMMA DispatchHand ==
    ASSUME Types, Types', EnginesOK, NEW e \in Engines, NEW q \in Requests,
           Dispatch(e, q.api, q.staged, q.over, q.thinking)
    PROVE  CurrentOK'
<1> DEFINE x == s'
           wire == Wired(q)
           tools == Offered(q, x)
           held == sent[e]
           sys == Under(q, x)
           c == Sent(e)
           d == bk'
           r == runtime[e]
           t == turn'
           m == Len(queue[e])
           w == queue'[e]
<1>1. /\ Sound(x) /\ wire \in Seq(Stored) /\ tools \in Tools /\ held \in Nat
      /\ d.thinking = q.thinking
      /\ d.opened => PrefixStillHeld(x, d, held, tools)
  BY DispatchParts
<1>2. /\ turn = NoTurn /\ turns' = turns + 1 /\ turns \in Nat
      /\ t.engine = e /\ t.n = turns + 1 /\ t.api = q.api
      /\ t.closes = PerTurn(q.api, q.over) /\ t.end = "none" /\ t.staged = wire
      /\ UNCHANGED <<runtime, unsettled, edited>>
  BY DispatchTurn DEF Wired
<1>3. t.tools = tools
  BY DispatchBooks DEF Offered
<1>4. /\ queue' = [queue EXCEPT ![e] = Append(@, c)]
      /\ c.n = turns + 1
      /\ c.pins = <<tools, q.thinking>>
      /\ c.capture = (q.api = "microphone")
      /\ c.asked = Joined(Transcript(x, sys), wire)
  BY SendsParts
<1>17. c.kind = IF d.opened THEN "continue" ELSE "start"
  BY SendsParts
<1>5. /\ queue[e] \in Seq(Calls \cup Stops) /\ m \in Nat
      /\ Len(w) = m + 1 /\ (\A k \in 1 .. m : w[k] = queue[e][k]) /\ w[m + 1] = c
  <2>1. queue[e] \in Seq(Calls \cup Stops) /\ m \in Nat
    BY QueueParts DEF Types
  <2>2. w = Append(queue[e], c)
    <3> HIDE DEF c
    <3> QED BY <1>4 DEF Types, QueueOK
  <2> HIDE DEF c, w
  <2> QED BY <2>1, <2>2
<1>6. /\ \A k \in 1 .. m : queue[e][k].kind # "stop" => queue[e][k].n \in 1 .. turns
      /\ r.turns \subseteq 1 .. turns /\ (InFlight(r) => r.n \in r.turns)
  <2>1. Latest(e) = turns
    BY <1>2 DEF Latest
  <2>2. Numbers(queue[e], turns)
    BY <2>1 DEF EnginesOK, EngineOK, Engine
  <2> QED BY <2>1, <2>2, NoTurnTaken DEF Numbers
<1>7. t.api # "microphone" => t.staged = <<>>
  BY <1>2 DEF Wired
<1>8. t.closes => t.api = "turn"
  BY <1>2 DEF PerTurn
<1>9. d.opened => Digested(t, d, x)
  <2> SUFFICES ASSUME d.opened PROVE Digested(t, d, x)
    OBVIOUS
  <2> DEFINE p == d.prefix
             tr == Transcript(x, x.system)
  <2> HIDE DEF x, wire, tools, held, sys, c, d, r, t, m, w
  <2>1. held > 0 /\ held <= Len(tr) /\ p = Digest(x, held, tools)
    BY <1>1 DEF PrefixStillHeld
  <2>2. tr = Transcript(x, x.system)
    OBVIOUS
  <2> HIDE DEF p, tr
  <2>3. p \in Digests /\ p[1] = tools /\ p[2] = x.system /\ IsPrefix(p[3], x.active)
    BY <1>1, <2>1, <2>2, DigestLength
  <2> QED BY <1>3, <2>3 DEF Digested, p
<1>10. Mine(c, t, d, x)
  <2>1. c.capture <=> t.api = "microphone"
    BY <1>2, <1>4
  <2>2. ~t.closes => sys = x.system
    <3>1. PerTurn(q.api, q.over) \/ q.over.system = 0
      <4>1. q.api \in Apis /\ (q.api = "microphone" => q.over = NoOverride)
            /\ (q.api = "chat" => q.over.system = 0) /\ NoOverride.system = 0
        BY Staging DEF NoOverride
      <4> QED BY <4>1 DEF PerTurn, Apis
    <3> QED BY <1>2, <3>1 DEF Under
  <2> HIDE DEF x, wire, tools, held, sys, c, d, r, t, m, w
  <2>3. Asked(c.asked, t, x)
    BY <1>2, <1>4, <2>2 DEF Asked
  <2> QED BY <1>1, <1>3, <1>4, <2>1, <2>3 DEF Mine
<1>11. t.engine = e /\ runtime' = runtime
  BY <1>2
<1>12. CurrentOK' <=> (t # NoTurn => InHand(t, w, r, d, x, Excepted'))
  BY <1>11 DEF CurrentOK
<1> HIDE DEF x, wire, tools, held, sys, c, d, r, t, m, w
<1>13. ASSUME NEW k \in 1 .. Len(w), w[k].kind # "stop" PROVE Still(w[k], r, t, d, x)
  <2>1. t.n \notin r.turns
    BY <1>2, <1>6
  <2>2. CASE k \in 1 .. m
    <3>1. w[k].n \in 1 .. turns
      BY <1>5, <1>6, <1>13, <2>2
    <3> QED BY <1>2, <2>1, <3>1 DEF Still
  <2>3. CASE k = m + 1
    BY <1>2, <1>5, <1>10, <2>1, <2>3 DEF Still
  <2> QED BY <1>5, <2>2, <2>3
<1>14. ~(InFlight(r) /\ r.n = t.n)
  BY <1>2, <1>6
<1>15. t.end = "none"
  BY <1>2
<1>18. Shut(d) => Counted(t, w, r, x)
  <2> SUFFICES ASSUME Shut(d) PROVE Counted(t, w, r, x)
    OBVIOUS
  <2>1. c.kind = "start"
    BY <1>17 DEF Shut
  <2>2. ASSUME NEW k \in 1 .. Len(w), w[k].kind # "stop", w[k].n = t.n
        PROVE  w[k].kind = "start"
    <3>1. CASE k \in 1 .. m
      <4>1. w[k].n \in 1 .. turns
        BY <1>5, <1>6, <2>2, <3>1
      <4> QED BY <1>2, <2>2, <4>1
    <3>2. CASE k = m + 1
      BY <1>5, <2>1, <3>2
    <3> QED BY <1>5, <3>1, <3>2
  <2> QED BY <1>14, <1>15, <2>2 DEF Counted
<1> DEFINE exc == Excepted'
<1> HIDE DEF exc
<1>16. InHand(t, w, r, d, x, exc)
  BY <1>7, <1>8, <1>9, <1>13, <1>14, <1>15, <1>18 DEF InHand
<1> QED BY <1>12, <1>16 DEF exc

\* The turn, having heard something or not.
Hears(t, u) ==
    /\ u.n = t.n /\ u.api = t.api /\ u.staged = t.staged /\ u.tools = t.tools
    /\ u.closes = t.closes

LEMMA HearsMine ==
    ASSUME NEW t, NEW u, Hears(t, u), NEW b, NEW x
    PROVE  /\ Digested(t, b, x) <=> Digested(u, b, x)
           /\ \A w : Asked(w, t, x) <=> Asked(w, u, x)
           /\ \A c : Mine(c, t, b, x) <=> Mine(c, u, b, x)
<1>1. Digested(t, b, x) <=> Digested(u, b, x)
  BY DEF Hears, Digested
<1>2. \A w : Asked(w, t, x) <=> Asked(w, u, x)
  BY DEF Hears, Asked
<1>3. \A c : Mine(c, t, b, x) <=> Mine(c, u, b, x)
  BY <1>2 DEF Hears, Mine
<1> QED BY <1>1, <1>2, <1>3

\* A runtime at work on the command.
Working(p, c) ==
    /\ p.n = c.n /\ p.wants = c.pins /\ p.asked = c.asked
    /\ p.state = "generating" => ~c.capture

\* A command taken: it is not the turn's, or nothing but stops is left behind it.
LEMMA HandTaken ==
    ASSUME NEW t, t.n \in Nat, NEW q, NEW r, NEW b, NEW x, NEW exc,
           InHand(t, q, r, b, x, exc), Numbers(q, t.n), Took(r, t.n),
           NEW w, NEW m \in Nat, Len(q) = m + 1, Len(w) = m,
           \A k \in 1 .. m : w[k] = q[k + 1],
           NEW c, c = q[1], c.kind # "stop",
           NEW p, NEW u, Hears(t, u), p.turns \subseteq r.turns \cup {c.n},
           InFlight(p) => p = r \/ Working(p, c),
           c.n # t.n => u = t,
           c.n = t.n => u.end \in {"none", "error"},
           c.n = t.n /\ InFlight(p) => p = r \/ u.end = "none",
           c.n = t.n /\ InFlight(p) /\ c.kind = "start" => p = r \/ u.got = Len(p.asked)
    PROVE  InHand(u, w, p, b, x, exc)
<1>1. /\ t.api # "microphone" => t.staged = <<>>
      /\ t.closes => t.api = "turn"
      /\ b.opened => Digested(t, b, x)
  BY DEF InHand
<1>2. \A k \in 1 .. Len(q) : q[k].kind # "stop" => Still(q[k], r, t, b, x)
  BY DEF InHand
<1>3. Still(c, r, t, b, x)
  BY <1>2
<1>4. t.end = "none" /\ t.n \notin r.turns /\ (c.n = t.n => Mine(c, t, b, x))
  BY <1>3 DEF Still
<1>5. InFlight(r) => r.n \in r.turns /\ r.n # t.n
  BY <1>4, NoneIs DEF Took
<1>6. u.end \in {"none", "error"}
  BY <1>4
<1>7. /\ u.api # "microphone" => u.staged = <<>>
      /\ u.closes => u.api = "turn"
  BY <1>1 DEF Hears
<1>8. b.opened => Digested(u, b, x)
  BY <1>1, HearsMine
<1>9. ASSUME NEW k \in 1 .. Len(w), w[k].kind # "stop" PROVE Still(w[k], p, u, b, x)
  <2>1. k + 1 \in 1 .. Len(q) /\ w[k] = q[k + 1] /\ 1 < k + 1 /\ 1 \in 1 .. Len(q)
    OBVIOUS
  <2>2. c.n < w[k].n /\ w[k].n <= t.n /\ c.n \in Nat /\ w[k].n \in Nat
    <3>1. q[k + 1].n \in 1 .. t.n /\ q[1].n \in 1 .. t.n /\ q[1].n < q[k + 1].n
      BY <1>9, <2>1 DEF Numbers
    <3> QED BY <2>1, <3>1
  <2>3. c.n # t.n
    BY <2>2
  <2>4. Still(w[k], r, t, b, x)
    BY <1>2, <1>9, <2>1
  <2>5. u = t /\ t.n \notin p.turns
    BY <1>4, <2>3
  <2> QED BY <2>4, <2>5 DEF Still
<1>10. ASSUME InFlight(p), p.n = u.n PROVE Doing(p, u, b, x)
  <2>1. u.n = t.n
    BY DEF Hears
  <2>2. p # r
    BY <1>5, <1>10, <2>1
  <2>3. p.n = c.n /\ p.wants = c.pins /\ p.asked = c.asked /\ (p.state = "generating" => ~c.capture)
    BY <1>10, <2>2 DEF Working
  <2>4. c.n = t.n /\ u.end = "none"
    BY <1>10, <2>1, <2>2, <2>3
  <2>5. Mine(c, u, b, x)
    BY <1>4, <2>4, HearsMine
  <2>6. p.state = "generating" => u.staged = <<>>
    BY <1>7, <2>3, <2>5 DEF Mine
  <2> QED BY <2>3, <2>4, <2>5, <2>6 DEF Mine, Doing
<1>11. u.end \notin {"answer", "call", "stopped"}
  BY <1>6
<1>12. ASSUME Shut(b) PROVE Counted(u, w, p, x)
  <2>1. Counted(t, q, r, x) /\ u.n = t.n
    BY <1>12 DEF InHand, Hears
  <2>2. ASSUME NEW k \in 1 .. Len(w), w[k].kind # "stop", w[k].n = u.n
        PROVE  w[k].kind = "start"
    <3>1. k + 1 \in 1 .. Len(q) /\ w[k] = q[k + 1]
      OBVIOUS
    <3> QED BY <2>1, <2>2, <3>1 DEF Counted
  <2>3. ASSUME InFlight(p), p.n = u.n PROVE u.got = Len(p.asked)
    <3>1. p # r
      BY <1>5, <2>1, <2>3
    <3>2. c.n = t.n
      BY <2>1, <2>3, <3>1 DEF Working
    <3>3. c.kind = "start"
      <4>1. 1 \in 1 .. Len(q)
        OBVIOUS
      <4> QED BY <2>1, <3>2, <4>1 DEF Counted
    <3> QED BY <2>3, <3>1, <3>2, <3>3
  <2> QED BY <1>11, <2>2, <2>3 DEF Counted
<1> QED BY <1>7, <1>8, <1>9, <1>10, <1>11, <1>12 DEF InHand

\* Nothing is queued that was not, but stops.
Left(w, q) ==
    \A k \in 1 .. Len(w) : w[k].kind # "stop" => \E j \in 1 .. Len(q) : w[k] = q[j]

\* What the reader hears at the end.
Closing(r, t, u) == u.got = t.got /\ (u.end \in {"answer", "call"} => r.state = "generating")

\* No command but a stop taken, and no runtime left at work.
LEMMA HandEnded ==
    ASSUME NEW t, NEW q, NEW r, NEW b, NEW x, NEW exc, NEW top,
           Sound(x), InHand(t, q, r, b, x, exc), Took(r, top),
           NEW w, Left(w, q),
           NEW p, NEW u, Hears(t, u), p.turns \subseteq r.turns, ~InFlight(p),
           u = t \/ (InFlight(r) /\ r.n = t.n /\ Closing(r, t, u)),
           u.end \in {"answer", "call"} /\ Live(p, exc) => Did(p, u, b, x),
           u.end = "stopped" => p = NoRuntime
    PROVE  InHand(u, w, p, b, x, exc)
<1>1. /\ t.api # "microphone" => t.staged = <<>>
      /\ t.closes => t.api = "turn"
      /\ b.opened => Digested(t, b, x)
  BY DEF InHand
<1>2. \A k \in 1 .. Len(q) : q[k].kind # "stop" => Still(q[k], r, t, b, x)
  BY DEF InHand
<1>3. /\ u.api # "microphone" => u.staged = <<>>
      /\ u.closes => u.api = "turn"
  BY <1>1 DEF Hears
<1>4. b.opened => Digested(u, b, x)
  BY <1>1, HearsMine
<1>5. ASSUME NEW k \in 1 .. Len(w), w[k].kind # "stop" PROVE Still(w[k], p, u, b, x)
  <2>1. PICK j \in 1 .. Len(q) : w[k] = q[j]
    BY <1>5 DEF Left
  <2>2. Still(w[k], r, t, b, x)
    BY <1>2, <1>5, <2>1
  <2>3. u = t
    BY <2>2, NoneIs DEF Still, Took
  <2> QED BY <2>2, <2>3 DEF Still
<1>6. ASSUME Shut(b) PROVE Counted(u, w, p, x)
  <2>1. Counted(t, q, r, x) /\ u.n = t.n
    BY <1>6 DEF InHand, Hears
  <2>2. ASSUME NEW k \in 1 .. Len(w), w[k].kind # "stop", w[k].n = u.n
        PROVE  w[k].kind = "start"
    BY <2>1, <2>2 DEF Left, Counted
  <2>3. ASSUME u.end \in {"answer", "call"}, ~u.closes
        PROVE  u.got = Len(Transcript(x, x.system))
    <3>1. CASE u = t
      BY <2>1, <2>3, <3>1 DEF Counted
    <3>2. CASE InFlight(r) /\ r.n = t.n /\ Closing(r, t, u)
      <4>1. Doing(r, t, b, x) /\ ~t.closes
        BY <2>3, <3>2 DEF InHand, Hears
      <4>2. u.got = Len(r.asked) /\ r.state = "generating"
        BY <2>1, <2>3, <3>2, <4>1 DEF Counted, Closing
      <4>3. r.asked = Joined(Transcript(x, x.system), <<>>)
        BY <4>1, <4>2 DEF Doing, Asked
      <4>4. Transcript(x, x.system) \in Seq(Msgs)
        <5>1. x.system \in 0 .. 2
          BY SoundParts DEF Systems
        <5> QED BY <5>1, TranscriptIs
      <4> DEFINE T == Transcript(x, x.system)
      <4>5. Joined(T, <<>>) = T
        <5>1. T \in Seq(Msgs)
          BY <4>4
        <5> HIDE DEF T
        <5> QED BY <5>1, ConcatEmptySeq DEF Joined
      <4> QED BY <4>2, <4>3, <4>5
    <3> QED BY <3>1, <3>2
  <2> QED BY <2>2, <2>3 DEF Counted
<1> QED BY <1>3, <1>4, <1>5, <1>6 DEF InHand

\* What an engine other than the turn's is at, nobody reads.
LEMMA NotRead ==
    ASSUME Types, EnginesOK, NEW e \in Engines, turn # NoTurn, turn.engine # e
    PROVE  /\ InFlight(runtime[e]) => ~Reading(runtime[e].n)
           /\ \A k \in 1 .. Len(queue[e]) :
                 queue[e][k].kind # "stop" => ~Reading(queue[e][k].n)
<1>1. Latest(e) = turns - 1 /\ turns \in Nat /\ turn.n = turns
  BY EngineParts
<1>2. Numbers(queue[e], Latest(e))
  BY DEF EnginesOK, EngineOK, Engine
<1>3. InFlight(runtime[e]) => runtime[e].n \in 1 .. Latest(e)
  BY NoTurnTaken
<1>4. \A n \in 1 .. Latest(e) : ~Reading(n)
  BY <1>1 DEF Reading
<1>5. \A k \in 1 .. Len(queue[e]) : queue[e][k].kind # "stop" => queue[e][k].n \in 1 .. Latest(e)
  BY <1>2 DEF Numbers
<1> QED BY <1>3, <1>4, <1>5

\* The turn in flight, after a step of one engine.
LEMMA TurnHand ==
    ASSUME CurrentOK, UNCHANGED <<bk, s, unsettled, edited>>, Heard, NEW e \in Engines,
           \A z \in Engines \ {e} : queue'[z] = queue[z] /\ runtime'[z] = runtime[z],
           TurnOK, BooksOK,
           ASSUME turn # NoTurn, turn.engine # e PROVE turn' = turn,
           ASSUME turn # NoTurn, turn.engine = e
           PROVE  InHand(turn', queue'[e], runtime'[e], bk, s, Excepted)
    PROVE  CurrentOK'
<1> SUFFICES ASSUME turn' # NoTurn
             PROVE  InHand(turn', queue'[turn'.engine], runtime'[turn'.engine], bk', s', Excepted')
  BY DEF CurrentOK
<1>1. turn # NoTurn /\ turn'.engine = turn.engine
  BY DEF Heard
<1>2. bk' = bk /\ s' = s /\ Excepted' = Excepted
  BY DEF Excepted
<1>3. turn.engine \in Engines
  BY <1>1 DEF TurnOK, InTurn
<1>4. CASE turn.engine = e
  BY <1>1, <1>2, <1>4
<1>5. CASE turn.engine # e
  <2>1. turn' = turn
    BY <1>1, <1>5
  <2>2. queue'[turn.engine] = queue[turn.engine] /\ runtime'[turn.engine] = runtime[turn.engine]
    BY <1>3, <1>5
  <2>3. InHand(turn, queue[turn.engine], runtime[turn.engine], bk, s, Excepted)
    BY <1>1 DEF CurrentOK
  <2> QED BY <1>2, <2>1, <2>2, <2>3
<1> QED BY <1>4, <1>5

LEMMA HeardHears ==
    ASSUME Heard, turn # NoTurn
    PROVE  Hears(turn, turn')
BY DEF Heard, Hears

\* A start is acknowledged with all its messages.
Acked(c, got) == c.kind = "start" => got = Len(c.asked)

LEMMA CommandHand ==
    ASSUME Types, EnginesOK, CurrentOK, NEW e \in Engines,
           NEW kind \in {"start", "continue"}, Command(e, kind), Taken(e), UNCHANGED Controlled,
           \A z \in Engines \ {e} : runtime'[z] = runtime[z],
           NEW c, c = queue[e][1], NEW got, NEW p, p = runtime'[e], NEW r, r = runtime[e],
           turn' = Ended(c.n, "error") \/ turn' = Told(c.n, got, "none"),
           p.turns \subseteq r.turns \cup {c.n},
           InFlight(p) => p = r \/ (turn' = Told(c.n, got, "none") /\ Working(p, c)),
           Acked(c, got)
    PROVE  CurrentOK'
<1> DEFINE q == queue[e]
           w == queue'[e]
<1>1. /\ \A z \in Engines \ {e} : queue'[z] = queue[z]
      /\ c.kind = kind /\ c.kind # "stop"
  BY TakenIs
<1>2. PICK m \in Nat : /\ Len(q) = m + 1 /\ Len(w) = m
                       /\ \A k \in 1 .. m : w[k] = q[k + 1]
  BY TakenIs
<1>3. TurnOK /\ BooksOK
  BY DEF Types
<1>4. Heard
  BY <1>3, HeardIs
<1>5. UNCHANGED <<bk, s, unsettled, edited>>
  BY DEF Controlled, session, binding, history
<1>6. ASSUME turn # NoTurn, turn.engine # e PROVE turn' = turn
  <2>1. ~Reading(c.n)
    BY <1>1, <1>2, <1>6, NotRead
  <2> QED BY <2>1, <1>3, HeardIs
<1> HIDE DEF q, w
<1>7. ASSUME turn # NoTurn, turn.engine = e
      PROVE  InHand(turn', w, p, bk, s, Excepted)
  <2> DEFINE t == turn
             u == turn'
  <2>1. InHand(t, q, r, bk, s, Excepted)
    BY <1>7 DEF CurrentOK, q
  <2>2. Latest(e) = t.n /\ t.n \in Nat
    BY <1>7, EngineParts
  <2>3. Numbers(q, Latest(e)) /\ Took(r, Latest(e))
    BY DEF EnginesOK, EngineOK, Engine, q
  <2>4. Numbers(q, t.n) /\ Took(r, t.n)
    BY <2>2, <2>3
  <2>5. Hears(t, u)
    BY <1>4, <1>7, HeardHears
  <2>6. Reading(c.n) <=> c.n = t.n
    BY <1>7 DEF Reading
  <2>7. c.n # t.n => u = t
    <3>1. ~Reading(c.n) => turn' = turn
      BY ZenonT(30), <1>3, HeardIs
    <3> QED BY <2>6, <3>1
  <2>8. c = q[1] /\ 1 \in 1 .. Len(q)
    BY <1>2 DEF q
  <2>9. t.end = "none"
    BY <1>1, <2>1, <2>8 DEF InHand, Still
  <2>10. ASSUME c.n = t.n
         PROVE  /\ u.end \in {"none", "error"}
                /\ turn' = Told(c.n, got, "none") => u.end = "none" /\ u.got = got
    <3>1. Reading(c.n) /\ turn.end = "none"
      BY <2>6, <2>9, <2>10
    <3>2. turn' = Told(c.n, got, "none") => u.end = "none" /\ u.got = got
      BY <1>3, <3>1, HeardIs
    <3>3. turn' = Ended(c.n, "error") => u.end = "error"
      BY <1>3, <3>1, HeardIs
    <3> QED BY <3>2, <3>3
  <2>11. InFlight(p) => p = r \/ Working(p, c)
    OBVIOUS
  <2>12. c.n = t.n /\ InFlight(p) => p = r \/ u.end = "none"
    BY <2>10
  <2>13. c.n = t.n => u.end \in {"none", "error"}
    BY <2>10
  <2>15. c.n = t.n /\ InFlight(p) /\ c.kind = "start" => p = r \/ u.got = Len(p.asked)
    BY <2>10 DEF Working, Acked
  <2> HIDE DEF t, u
  <2>14. InHand(u, w, p, bk, s, Excepted)
    BY <1>1, <1>2, <2>1, <2>2, <2>4, <2>5, <2>7, <2>8, <2>11, <2>12, <2>13, <2>15, HandTaken
  <2> QED BY <2>14 DEF u
<1>8. queue'[e] = w /\ runtime'[e] = p
  BY DEF w
<1> QED BY <1>1, <1>3, <1>4, <1>5, <1>6, <1>7, <1>8, TurnHand

LEMMA StartHand ==
    ASSUME Types, EnginesOK, CurrentOK, NEW e \in Engines, StartChat(e) \/ Rebuild(e)
    PROVE  CurrentOK'
<1>1. PICK kind \in {"start", "continue"} : Command(e, kind)
  BY DEF StartChat, Rebuild
<1>2. Taken(e) /\ UNCHANGED Controlled
  BY DEF StartChat, Rebuild
<1> DEFINE c == queue[e][1]
           r == runtime[e]
           p == runtime'[e]
<1>3. Head(queue[e]) = c
  BY <1>1, <1>2, TakenIs
<1>4. PICK messages : Start(e, c, messages) /\ (c.kind = "start" => messages = c.messages)
  <2>1. CASE StartChat(e)
    BY <1>3, <2>1 DEF StartChat
  <2>2. CASE Rebuild(e)
    <3>1. c.kind = "continue"
      BY <1>3, <2>2 DEF Rebuild, Command
    <3> QED BY <1>3, <2>2, <3>1 DEF Rebuild
  <2> QED BY <2>1, <2>2
<1>16. c.kind = "start" => messages = c.asked
  <2>1. Commanded(queue[e])
    BY DEF EnginesOK, EngineOK, Engine
  <2>2. 1 \in 1 .. Len(queue[e])
    <3>1. Len(queue[e]) >= 1
      BY <1>1, <1>2, TakenIs
    <3>2. Len(queue[e]) \in Nat
      BY EngineParts
    <3> QED BY <3>1, <3>2
  <2> QED BY <1>4, <2>1, <2>2 DEF Commanded
<1> DEFINE o == Opened(c, messages)
<1>5. /\ o.turns = {c.n} /\ o.n = c.n /\ o.asked = c.asked /\ o.wants = c.pins
      /\ o.state = "generating" => ~c.capture
  BY OpenedParts
<1>6. \/ runtime' = runtime /\ turn' = Ended(c.n, "error")
      \/ runtime' = [runtime EXCEPT ![e] = NoRuntime] /\ turn' = Told(c.n, Len(messages), "none")
      \/ runtime' = [runtime EXCEPT ![e] = o] /\ turn' = Told(c.n, Len(messages), "none")
      \/ runtime' = [runtime EXCEPT ![e] = NoRuntime] /\ turn' = Ended(c.n, "error")
  BY <1>4 DEF Start
<1> HIDE DEF c, o
<1>7. \A z \in Engines \ {e} : runtime'[z] = runtime[z]
  BY <1>6, OthersStay
<1>8. \/ p = r /\ turn' = Ended(c.n, "error")
      \/ p = NoRuntime
      \/ p = o /\ turn' = Told(c.n, Len(messages), "none")
  BY <1>6, OthersStay
<1>9. turn' = Ended(c.n, "error") \/ turn' = Told(c.n, Len(messages), "none")
  BY <1>6
<1>10. c = queue[e][1]
  BY DEF c
<1> DEFINE got == Len(messages)
<1> HIDE DEF p, r, got
<1>11. p.turns \subseteq r.turns \cup {c.n}
  BY <1>5, <1>8, NoneIs
<1>12. Working(o, c)
  BY <1>5 DEF Working
<1>13. InFlight(p) => p = r \/ (turn' = Told(c.n, got, "none") /\ Working(p, c))
  BY <1>8, <1>12, NoneIs DEF got
<1>14. p = runtime'[e] /\ r = runtime[e]
  BY DEF p, r
<1>15. turn' = Ended(c.n, "error") \/ turn' = Told(c.n, got, "none")
  BY <1>9 DEF got
<1>17. Acked(c, got)
  BY <1>16 DEF got, Acked
<1> QED BY <1>1, <1>2, <1>7, <1>10, <1>11, <1>13, <1>14, <1>15, <1>17, CommandHand

LEMMA ContinueHand ==
    ASSUME Types, EnginesOK, CurrentOK, NEW e \in Engines, ContinueChat(e)
    PROVE  CurrentOK'
<1> DEFINE c == queue[e][1]
           r == runtime[e]
           p == runtime'[e]
           got == Len(c.messages)
<1>1. Command(e, "continue") /\ Taken(e) /\ UNCHANGED Controlled /\ r # NoRuntime
  BY DEF ContinueChat
<1>2. Head(queue[e]) = c
  BY <1>1, TakenIs
<1>3. c \in Calls /\ r \in Runtimes
  <2>1. QueueOK
    BY DEF Types
  <2> QED BY <1>1, <1>2, <2>1, HeadIs, EngineParts
<1> DEFINE a == Continued(r, c)
           i == Idle(a, <<>>)
<1>4. \/ runtime' = runtime /\ turn' = Ended(c.n, "error")
      \/ runtime' = [runtime EXCEPT ![e] = NoRuntime]
      \/ runtime' = [runtime EXCEPT ![e] = a] /\ turn' = Told(c.n, got, "none")
      \/ runtime' = [runtime EXCEPT ![e] = i]
  BY <1>2 DEF ContinueChat
<1>5. turn' = Ended(c.n, "error") \/ turn' = Told(c.n, got, "none")
  BY <1>2 DEF ContinueChat
<1>6. /\ a \in Runtimes /\ a.turns = r.turns \cup {c.n} /\ Working(a, c)
  BY <1>3, ContinuedParts DEF Working
<1>7. i.turns = a.turns /\ ~InFlight(i)
  <2>1. a \in Runtimes /\ <<>> \in Seq(Msgs)
    BY <1>6, Replies
  <2> HIDE DEF a
  <2> QED BY <2>1, IdleParts
<1> HIDE DEF a, i, c
<1>8. \A z \in Engines \ {e} : runtime'[z] = runtime[z]
  BY <1>4, OthersStay
<1>9. \/ p = r /\ turn' = Ended(c.n, "error")
      \/ p = NoRuntime
      \/ p = a /\ turn' = Told(c.n, got, "none")
      \/ p = i
  BY <1>4, OthersStay
<1>10. c = queue[e][1] /\ p = runtime'[e] /\ r = runtime[e]
  BY DEF c
<1> HIDE DEF p, r, got
<1>11. p.turns \subseteq r.turns \cup {c.n}
  BY <1>6, <1>7, <1>9, NoneIs
<1>12. InFlight(p) => p = r \/ (turn' = Told(c.n, got, "none") /\ Working(p, c))
  BY <1>6, <1>7, <1>9, NoneIs
<1>13. Acked(c, got)
  <2>1. c.kind = "continue"
    BY <1>1, <1>10, TakenIs
  <2> QED BY <2>1 DEF Acked
<1> QED BY <1>1, <1>5, <1>8, <1>10, <1>11, <1>12, <1>13, CommandHand

\* A runtime that comes to rest with the reply its turn heard of holds the transcript and it.
LEMMA RestDid ==
    ASSUME NEW r \in Runtimes, NEW t, NEW u, NEW b, NEW x, Sound(x), NEW exc,
           Doing(r, t, b, x), Viewed(r, exc), r # NoRuntime, r.state = "generating",
           Hears(t, u), NEW w \in Seq(Msgs), w = Answered(u, x),
           NEW p, p = Idle(r, w), Live(p, exc)
    PROVE  Did(p, u, b, x)
<1>1. /\ p.turns = r.turns /\ p.state = "idle" /\ p.context = r.context \o w /\ p.pins = r.pins
  BY IdleParts
<1>2. InFlight(r) /\ Live(r, exc)
  BY <1>1 DEF InFlight, Live
<1>3. r.context = r.asked /\ r.pins = r.wants
  BY <1>2 DEF Viewed
<1>4. r.wants = <<t.tools, b.thinking>> /\ t.staged = <<>> /\ Asked(r.asked, t, x)
  BY DEF Doing
<1>5. p.pins = <<u.tools, b.thinking>>
  BY <1>1, <1>3, <1>4 DEF Hears
<1>6. ASSUME ~u.closes PROVE p.context = Joined(Transcript(x, x.system), w)
  <2>1. ~t.closes
    BY <1>6 DEF Hears
  <2>2. r.asked = Joined(Transcript(x, x.system), t.staged)
    BY <1>4, <2>1 DEF Asked
  <2>3. Transcript(x, x.system) \in Seq(Msgs)
    <3>1. x.system \in 0 .. 2
      BY SoundParts DEF Systems
    <3> QED BY <3>1, TranscriptIs
  <2>4. r.asked = Transcript(x, x.system)
    BY <1>4, <2>2, <2>3 DEF Joined
  <2> QED BY <1>1, <1>3, <2>4 DEF Joined
<1> QED BY <1>1, <1>5, <1>6 DEF Did

\* What a runtime is left with at the end is what its turn hears of.
Spoken(p, r, w, u, end, x) ==
    end \in {"answer", "call"} /\ u.end = end =>
        r.state = "generating" /\ w = Answered(u, x)

LEMMA RestHand ==
    ASSUME Types, EnginesOK, CurrentOK, UNCHANGED <<bk, s, unsettled, edited>>,
           NEW e \in Engines,
           \A z \in Engines \ {e} : queue'[z] = queue[z] /\ runtime'[z] = runtime[z],
           NEW v, v = queue'[e],
           Left(v, queue[e]),
           NEW p, p = runtime'[e], NEW r, r = runtime[e], NEW w \in Seq(Msgs),
           p = NoRuntime \/ (InFlight(r) /\ p = Idle(r, w)),
           NEW end, turn' = turn \/ (InFlight(r) /\ turn' = Ended(r.n, end)),
           end = "stopped" => p = NoRuntime,
           NEW u, u = turn', Spoken(p, r, w, u, end, s)
    PROVE  CurrentOK'
<1>1. TurnOK /\ BooksOK
  BY DEF Types
<1>2. Heard
  BY <1>1, HeardIs
<1>3. ASSUME turn # NoTurn, turn.engine # e PROVE turn' = turn
  <2>1. InFlight(r) => ~Reading(r.n)
    BY <1>3, NotRead
  <2> QED BY <1>1, <2>1, HeardIs
<1>4. InFlight(r) => r # NoRuntime /\ r \in Runtimes
  BY NoneIs, EngineParts
<1>5. p.turns \subseteq r.turns /\ ~InFlight(p) /\ (p # NoRuntime => p.turns = r.turns)
  BY <1>4, NoneIs, IdleParts
<1>6. ASSUME turn # NoTurn, turn.engine = e
      PROVE  InHand(turn', v, p, bk, s, Excepted)
  <2> DEFINE t == turn
             q == queue[e]
  <2>1. InHand(t, q, r, bk, s, Excepted)
    BY <1>6 DEF CurrentOK
  <2>2. Took(r, Latest(e)) /\ Viewed(r, Excepted)
    BY DEF EnginesOK, EngineOK, Engine
  <2>3. Hears(t, u)
    BY <1>2, <1>6, HeardHears
  <2>4. u = t \/ (InFlight(r) /\ r.n = t.n /\ t.end = "none" /\ u.end = end /\ u.got = t.got)
    <3>1. CASE turn' = turn
      BY <3>1
    <3>2. CASE InFlight(r) /\ turn' = Ended(r.n, end) /\ turn' # turn
      <4>1. Reading(r.n)
        BY <1>1, <3>2, HeardIs
      <4>2. turn.end = "none"
        BY <1>1, <3>2, HeardIs
      <4>3. turn'.end = end /\ turn'.got = turn.got
        BY <1>1, <3>2, <4>1, <4>2, HeardIs
      <4> QED BY <1>6, <3>2, <4>1, <4>2, <4>3 DEF Reading
    <3> QED BY <3>1, <3>2
  <2> DEFINE exc == Excepted
  <2>5. InFlight(r) /\ r.n = t.n => Doing(r, t, bk, s)
    BY <2>1 DEF InHand
  <2>6. t.end \in {"answer", "call"} /\ Live(r, exc) => Did(r, t, bk, s)
    BY <2>1 DEF InHand
  <2>7. t.end = "stopped" => r = NoRuntime
    BY <2>1 DEF InHand
  <2>8. Sound(s)
    BY DEF Types, LogOK
  <2>9. end \in {"answer", "call"} /\ u.end = end =>
           r.state = "generating" /\ w = Answered(u, s)
    BY DEF Spoken
  <2> HIDE DEF t, q, exc
  <2>10. ASSUME u.end \in {"answer", "call"}, Live(p, exc) PROVE Did(p, u, bk, s)
    <3>1. p # NoRuntime /\ InFlight(r) /\ p = Idle(r, w)
      BY <2>10 DEF Live
    <3>2. CASE u = t
      <4>1. Live(r, exc)
        BY <1>4, <1>5, <2>10, <3>1 DEF Live
      <4>2. Did(r, t, bk, s)
        BY <2>6, <2>10, <3>2, <4>1
      <4> QED BY <3>1, <4>2 DEF Did, InFlight
    <3>3. CASE InFlight(r) /\ r.n = t.n /\ t.end = "none" /\ u.end = end /\ u.got = t.got
      <4>1. Doing(r, t, bk, s)
        BY <2>5, <3>3
      <4>2. r.state = "generating" /\ w = Answered(u, s)
        BY <2>9, <2>10, <3>1, <3>3
      <4>3. Viewed(r, exc)
        BY <2>2 DEF exc
      <4> QED BY <1>4, <2>3, <2>8, <2>10, <3>1, <4>1, <4>2, <4>3, RestDid
    <3> QED BY <2>4, <3>2, <3>3
  <2>11. u.end = "stopped" => p = NoRuntime
    BY <2>4, <2>7, NoneIs
  <2>12. InHand(t, q, r, bk, s, exc)
    BY <2>1 DEF t, q, exc
  <2>13. Left(v, q)
    BY DEF q
  <2>14. u = t \/ (InFlight(r) /\ r.n = t.n /\ Closing(r, t, u))
    BY <2>4, <2>9 DEF Closing
  <2> DEFINE top == Latest(e)
  <2>15. Took(r, top)
    BY <2>2
  <2> HIDE DEF top
  <2>16. p.turns \subseteq r.turns /\ ~InFlight(p)
    BY <1>5
  <2>17. u.end \in {"answer", "call"} /\ Live(p, exc) => Did(p, u, bk, s)
    BY <2>10
  <2>18. InHand(u, v, p, bk, s, exc)
    BY <2>3, <2>8, <2>11, <2>12, <2>13, <2>14, <2>15, <2>16, <2>17, HandEnded
  <2> QED BY <2>18 DEF exc
<1> QED BY <1>1, <1>2, <1>3, <1>6, TurnHand

LEMMA LeftSelf == ASSUME NEW q PROVE Left(q, q)
BY DEF Left

\* A stop taken, or nothing of the queue.
LEMMA StopHand ==
    ASSUME Types, EnginesOK, CurrentOK, NEW e \in Engines, StopChat(e) \/ Swap(e) \/ Evict(e)
    PROVE  CurrentOK'
<1> DEFINE q == queue[e]
           v == queue'[e]
           p == runtime'[e]
           r == runtime[e]
<1>1. UNCHANGED <<bk, s, unsettled, edited>>
  BY DEF StopChat, Swap, Evict, Controlled, session, binding, history
<1>2. runtime' = [runtime EXCEPT ![e] = NoRuntime]
  BY DEF StopChat, Swap, Evict
<1>3. /\ \A z \in Engines \ {e} : runtime'[z] = runtime[z]
      /\ p = NoRuntime
  BY <1>2, OthersStay
<1>4. (\A z \in Engines \ {e} : queue'[z] = queue[z]) /\ Left(v, q)
  <2>1. CASE StopChat(e)
    <3>1. Command(e, "stop") /\ Taken(e)
      BY <2>1 DEF StopChat
    <3>2. \A z \in Engines \ {e} : queue'[z] = queue[z]
      BY <3>1, TakenIs
    <3>3. PICK m \in Nat : /\ Len(q) = m + 1 /\ Len(v) = m
                           /\ \A k \in 1 .. m : v[k] = q[k + 1]
      BY <3>1, TakenIs
    <3> HIDE DEF q, v
    <3>4. \A k \in 1 .. m : k + 1 \in 1 .. Len(q)
      BY <3>3
    <3> QED BY <3>2, <3>3, <3>4 DEF Left
  <2>2. CASE Swap(e) \/ Evict(e)
    <3>1. queue' = queue
      BY <2>2 DEF Swap, Evict
    <3> QED BY <3>1, LeftSelf
  <2> QED BY <2>1, <2>2
<1>5. turn' = turn \/ (InFlight(r) /\ turn' = Ended(r.n, "stopped"))
  BY DEF StopChat, Swap, Evict
<1> DEFINE w == <<Partial>>
<1>6. w \in Seq(Msgs)
  BY Replies
<1> HIDE DEF w, p, r, v
<1>7. p = runtime'[e] /\ r = runtime[e] /\ v = queue'[e]
  BY DEF p, r, v
<1> DEFINE end == "stopped"
<1>8. turn' = turn \/ (InFlight(r) /\ turn' = Ended(r.n, end))
  BY <1>5 DEF end
<1> DEFINE u == turn'
<1>9. Spoken(p, r, w, u, end, s)
  BY DEF Spoken, end
<1> HIDE DEF u, end
<1>10. u = turn'
  BY DEF u
<1>11. end = "stopped" => p = NoRuntime
  BY <1>3
<1> QED BY <1>9, <1>10, <1>11, <1>1, <1>3, <1>4, <1>6, <1>7, <1>8, <1>9, RestHand

\* A generation ends.
LEMMA EndHand ==
    ASSUME Types, EnginesOK, CurrentOK, NEW e \in Engines, Finish(e) \/ Break(e)
    PROVE  CurrentOK'
<1> DEFINE p == runtime'[e]
           r == runtime[e]
           v == queue'[e]
<1>1. UNCHANGED <<bk, s, unsettled, edited, queue>>
  BY DEF Finish, Break, Controlled, session, binding, history
<1>2. (\A z \in Engines \ {e} : queue'[z] = queue[z]) /\ Left(v, queue[e])
  BY <1>1, LeftSelf
<1>3. InFlight(r)
  BY DEF Finish, Break, InFlight
<1> DEFINE Ends(w, end) ==
      /\ turn' = Ended(r.n, end)
      /\ \/ runtime' = [runtime EXCEPT ![e] = NoRuntime]
         \/ runtime' = [runtime EXCEPT ![e] = Idle(r, w)]
<1>4. \/ Ends(<<Partial>>, "error")
      \/ r.state = "generating" /\ Ends(<<Answer>>, "answer")
      \/ r.state = "generating" /\ Ends(<<CallOf(Len(s.records) + 1)>>, "call")
  <2>1. CASE Break(e)
    BY <2>1 DEF Break
  <2>2. CASE Finish(e)
    <3>1. r.state = "generating"
      BY <2>2 DEF Finish
    <3>2. PICK reply \in {Answer, CallOf(Len(s.records) + 1)} :
             /\ runtime' = [runtime EXCEPT ![e] = IF Reading(@.n) THEN Idle(@, <<reply>>) ELSE NoRuntime]
             /\ turn' = Ended(r.n, IF reply = Answer THEN "answer" ELSE "call")
      BY <2>2 DEF Finish
    <3>3. \/ runtime' = [runtime EXCEPT ![e] = NoRuntime]
          \/ runtime' = [runtime EXCEPT ![e] = Idle(r, <<reply>>)]
      BY <3>2
    <3>4. CASE reply = Answer
      BY <3>1, <3>2, <3>3, <3>4
    <3>5. CASE reply # Answer
      <4>1. reply = CallOf(Len(s.records) + 1) /\ turn' = Ended(r.n, "call")
        BY <3>2, <3>5
      <4> QED BY <3>1, <3>3, <4>1
    <3> QED BY <3>4, <3>5
  <2> QED BY <2>1, <2>2
<1>5. PICK w \in Seq(Msgs), end \in {"error", "answer", "call"} :
         /\ Ends(w, end)
         /\ end = "error" \/ r.state = "generating"
         /\ end = "answer" => w = <<Answer>>
         /\ end = "call" => w = <<CallOf(Len(s.records) + 1)>>
  <2>1. /\ <<Partial>> \in Seq(Msgs) /\ <<Answer>> \in Seq(Msgs)
        /\ <<CallOf(Len(s.records) + 1)>> \in Seq(Msgs)
    BY Replies
  <2> HIDE DEF Ends, r
  <2> QED BY <1>4, <2>1
<1> DEFINE i == Idle(r, w)
<1> HIDE DEF i
<1>6. /\ \A z \in Engines \ {e} : runtime'[z] = runtime[z]
      /\ p = NoRuntime \/ p = i
  <2>1. \/ runtime' = [runtime EXCEPT ![e] = NoRuntime]
        \/ runtime' = [runtime EXCEPT ![e] = i]
    BY <1>5 DEF i
  <2> QED BY <2>1, OthersStay
<1>7. p = NoRuntime \/ (InFlight(r) /\ p = Idle(r, w))
  BY <1>3, <1>6 DEF i
<1>8. turn' = turn \/ (InFlight(r) /\ turn' = Ended(r.n, end))
  BY <1>3, <1>5
<1> DEFINE u == turn'
<1>9. Spoken(p, r, w, u, end, s)
  <2> HIDE DEF Ends, u
  <2> QED BY <1>5 DEF Answered, Spoken
<1>10. end = "stopped" => p = NoRuntime
  BY <1>5
<1> HIDE DEF p, r, v, u, Ends
<1>11. p = runtime'[e] /\ r = runtime[e] /\ v = queue'[e] /\ u = turn'
  BY DEF p, r, v, u
<1>12. UNCHANGED <<bk, s, unsettled, edited>>
  BY <1>1
<1>13. \A z \in Engines \ {e} : queue'[z] = queue[z] /\ runtime'[z] = runtime[z]
  BY <1>2, <1>6
<1>14. w \in Seq(Msgs) /\ Left(v, queue[e])
  BY <1>2
<1> QED BY <1>7, <1>8, <1>9, <1>10, <1>11, <1>12, <1>13, <1>14, RestHand

LEMMA ControllersHand ==
    ASSUME Types, EnginesOK, CurrentOK, Controllers \/ (\E e \in Engines : Swap(e))
    PROVE  CurrentOK'
BY StartHand, ContinueHand, StopHand, EndHand DEF Controllers

\* What leaves the turn in flight and its engine alone.
LEMMA NotedHand ==
    ASSUME CurrentOK,
           \/ \E e \in Engines : NoteSwap(e) \/ ClearSent(e)
           \/ UNCHANGED vars
    PROVE  CurrentOK'
<1>1. UNCHANGED <<turn, queue, runtime, bk, s, unsettled, edited>>
  BY DEF NoteSwap, ClearSent, vars, session, binding, history
<1> QED BY <1>1 DEF CurrentOK, Excepted

\* The turn cancelled.
LEMMA CancelHand ==
    ASSUME Types, EnginesOK, CurrentOK, Cancel
    PROVE  CurrentOK'
<1> DEFINE e == turn.engine
           q == queue[e]
           c == [kind |-> "stop", n |-> turn.n]
           v == queue'[e]
<1>1. /\ turn # NoTurn /\ queue' = [queue EXCEPT ![e] = Append(@, c)]
      /\ UNCHANGED <<turn, runtime, bk, s, unsettled, edited>>
  BY DEF Cancel, session, binding, history
<1>2. e \in Engines
  BY <1>1 DEF Types, TurnOK, InTurn
<1>3. q \in Seq(Calls \cup Stops) /\ Len(q) \in Nat
  BY <1>2, QueueParts DEF Types
<1>4. c.kind = "stop"
  OBVIOUS
<1> HIDE DEF c
<1>5. v = Append(q, c)
  BY <1>1, <1>2 DEF Types, QueueOK
<1> HIDE DEF v, q
<1>6. /\ Len(v) = Len(q) + 1 /\ v[Len(q) + 1] = c
      /\ \A k \in 1 .. Len(q) : v[k] = q[k]
  BY <1>3, <1>5
<1>7. InHand(turn, q, runtime[e], bk, s, Excepted)
  BY <1>1 DEF CurrentOK, q
<1>8. InHand(turn, v, runtime[e], bk, s, Excepted)
  <2>1. ASSUME NEW k \in 1 .. Len(v), v[k].kind # "stop"
        PROVE  Still(v[k], runtime[e], turn, bk, s)
    <3>1. k \in 1 .. Len(q) /\ v[k] = q[k]
      BY <1>3, <1>4, <1>6, <2>1
    <3> QED BY <1>7, <2>1, <3>1 DEF InHand
  <2>2. Shut(bk) => Counted(turn, v, runtime[e], s)
    <3> SUFFICES ASSUME Shut(bk) PROVE Counted(turn, v, runtime[e], s)
      OBVIOUS
    <3>1. Counted(turn, q, runtime[e], s)
      BY <1>7 DEF InHand
    <3>2. ASSUME NEW k \in 1 .. Len(v), v[k].kind # "stop" PROVE k \in 1 .. Len(q) /\ v[k] = q[k]
      BY <1>3, <1>4, <1>6, <3>2
    <3> QED BY <3>1, <3>2 DEF Counted
  <2> QED BY <1>7, <2>1, <2>2 DEF InHand
<1> QED BY <1>1, <1>8 DEF CurrentOK, Excepted, v

\* A digest of the session is one of the session with messages added.
LEMMA DigestedAdded ==
    ASSUME NEW x, Sound(x), NEW ms \in Seq(Stored), NEW y, y = AddedAll(x, ms),
           NEW t, NEW b, Digested(t, b, x)
    PROVE  Digested(t, b, y)
<1>1. b.prefix[3] \in Seq(Nat) /\ IsPrefix(b.prefix[3], x.active)
  BY DEF Digested, Digests
<1> DEFINE p == b.prefix[3]
<1> HIDE DEF p
<1>2. p \in Seq(Nat) /\ IsPrefix(p, x.active)
  BY <1>1 DEF p
<1>3. \A i \in 1 .. Len(p) : p[i] \in 1 .. Len(x.records)
  BY <1>2, ProjectionPrefix
<1>4. IsPrefix(p, y.active)
  BY <1>2, <1>3, PrefixStable
<1>5. y.system = x.system
  <2>1. x \in Logs
    BY SoundParts
  <2> QED BY <2>1 DEF AddedAll, Logs
<1> QED BY <1>4, <1>5 DEF Digested, p

LEMMA CommitHand ==
    ASSUME Types, EnginesOK, CurrentOK, Commit
    PROVE  CurrentOK'
<1> DEFINE e == turn.engine
           r == runtime[e]
           p == runtime'[e]
           q == queue[e]
           t == turn
           u == turn'
           y == s'
<1>1. /\ turn # NoTurn /\ turn' = [turn EXCEPT !.staged = <<>>] /\ t.api = "microphone"
      /\ UNCHANGED <<bk, queue, unsettled, edited>>
      /\ y = AddedAll(s, t.staged)
      /\ r.state = "capturing" /\ r.n = t.n /\ runtime' = [runtime EXCEPT ![e].state = "generating"]
  BY DEF Commit, binding, history
<1>2. e \in Engines /\ t.staged \in Seq(Stored) /\ turn \in InTurn
  BY <1>1 DEF Types, TurnOK, InTurn
<1>3. r \in Runtimes /\ r # NoRuntime /\ InFlight(r)
  BY <1>1, <1>2, NoneIs, EngineParts DEF InFlight
<1>4. p = [r EXCEPT !.state = "generating"]
  BY <1>1, <1>2 DEF Types, RuntimeOK
<1>5. /\ p.turns = r.turns /\ p.n = r.n /\ p.asked = r.asked /\ p.wants = r.wants
      /\ p.state = "generating"
  <2> HIDE DEF r, p
  <2> QED BY <1>3, <1>4 DEF Runtimes
<1>6. /\ u.n = t.n /\ u.engine = e /\ u.api = t.api /\ u.staged = <<>> /\ u.tools = t.tools
      /\ u.closes = t.closes /\ u.end = t.end /\ u.got = t.got
  BY <1>1, <1>2 DEF InTurn
<1>7. InHand(t, q, r, bk, s, Excepted)
  BY <1>1 DEF CurrentOK
<1>8. Sound(s) /\ t.n \in r.turns
  BY <1>1, <1>2, <1>3, NoTurnTaken, EngineParts
<1>9. CurrentOK' <=> (u # NoTurn => InHand(u, q, p, bk, y, Excepted))
  BY <1>1, <1>6 DEF CurrentOK, Excepted
<1> DEFINE exc == Excepted
<1> HIDE DEF e, r, p, q, t, u, y, exc
<1>10. Doing(r, t, bk, s)
  <2>1. InFlight(r) /\ r.n = t.n
    BY <1>1, <1>3
  <2> QED BY <1>7, <2>1 DEF InHand
<1>11. u.end = "none"
  BY <1>6, <1>10 DEF Doing
<1>12. \A c : Asked(c, t, s) => Asked(c, u, y)
  <2> SUFFICES ASSUME NEW c, Asked(c, t, s), ~u.closes
               PROVE  c = Joined(Transcript(y, y.system), u.staged)
    BY DEF Asked
  <2>1. c = Joined(Transcript(s, s.system), t.staged)
    BY <1>6 DEF Asked
  <2>2. s.system \in 0 .. 2 /\ y.system = s.system
    <3>1. s \in Logs /\ s.system \in Systems
      BY <1>8, SoundParts
    <3> QED BY <1>1, <3>1 DEF AddedAll, Logs, Systems
  <2>3. Transcript(y, y.system) = Joined(Transcript(s, s.system), t.staged)
    BY <1>1, <1>2, <1>8, <2>2, TranscriptAdded DEF Joined, t
  <2>4. Transcript(y, y.system) \in Seq(Msgs)
    <3>1. Sound(y)
      <4>1. t.staged \in Seq(Stored)
        BY <1>2 DEF t
      <4> QED BY <1>1, <1>8, <4>1, AddedAllSound
    <3> QED BY <2>2, <3>1, TranscriptIs
  <2>5. u.staged = <<>>
    BY <1>6
  <2> DEFINE T == Transcript(y, y.system)
  <2>6. T = Joined(T, <<>>)
    <3>1. T \in Seq(Msgs)
      BY <2>4
    <3> HIDE DEF T
    <3> QED BY <3>1 DEF Joined
  <2> QED BY <2>1, <2>3, <2>5, <2>6
<1>13. bk.opened => Digested(u, bk, y)
  <2> SUFFICES ASSUME bk.opened PROVE Digested(u, bk, y)
    OBVIOUS
  <2>1. Digested(t, bk, s)
    BY <1>7 DEF InHand
  <2>2. t.staged \in Seq(Stored)
    BY <1>2 DEF t
  <2>3. Digested(t, bk, y)
    BY <1>1, <1>8, <2>1, <2>2, DigestedAdded
  <2> QED BY <1>6, <2>3 DEF Digested
<1>14. \A k \in 1 .. Len(q) : q[k].kind = "stop"
  BY <1>7, <1>8 DEF InHand, Still
<1>15. Doing(p, u, bk, y)
  BY <1>5, <1>6, <1>10, <1>12 DEF Doing
<1>16. u.closes => u.api = "turn"
  BY <1>6, <1>7 DEF InHand
<1>18. Shut(bk) => Counted(u, q, p, y)
  <2>1. Shut(bk) => Counted(t, q, r, s)
    BY <1>7 DEF InHand
  <2> QED BY <1>1, <1>3, <1>5, <1>6, <1>11, <1>14, <2>1 DEF Counted
<1>17. InHand(u, q, p, bk, y, exc)
  BY <1>6, <1>11, <1>13, <1>14, <1>15, <1>16, <1>18 DEF InHand
<1> QED BY <1>9, <1>17 DEF exc

\* No turn is in flight after the others.
LEMMA NoneInHand ==
    ASSUME Owner \/ Complete \/ Leave \/ LeaveAsync \/ LeaveMicrophone
    PROVE  CurrentOK'
<1>1. turn' = NoTurn
  <2>1. CASE Owner
    <3>1. \/ Edits
          \/ \E m \in Pushed : Push(m)
          \/ Clear
          \/ \E ids, at : Fork(ids, at)
          \/ Reopen
          \/ \E e \in Engines, m \in Pushed : Refuse(e, m, 0)
      BY <2>1, OwnerIs
    <3> QED BY <3>1 DEF Edits, Push, Clear, Fork, Reopen, Refuse
  <2>2. CASE Complete
    BY <2>2 DEF Complete
  <2>3. CASE Leave \/ LeaveAsync \/ LeaveMicrophone
    BY <2>3 DEF Leave, LeaveAsync, LeaveMicrophone, Unsettled
  <2> QED BY <2>1, <2>2, <2>3
<1> QED BY <1>1 DEF CurrentOK

-----------------------------------------------------------------------------
(* A turn that settles.                                                    *)

\* What it leaves the bookkeeping as.
Settles(d, b, t, x) ==
    d.opened =>
        /\ d.thinking = b.thinking
        /\ t.api = "chat" \/ ~t.closes
        /\ \/ b.opened /\ d.own = b.own /\ d.prefix = b.prefix
           \/ /\ d.own
              /\ \E count \in Nat : count > 0 /\ d.prefix = Digest(x, count, t.tools)

LEMMA CompleteParts ==
    ASSUME Types, Complete
    PROVE  /\ turn # NoTurn /\ turn' = NoTurn /\ turn.staged = <<>>
           /\ turn.end \in {"answer", "call", "stopped"}
           /\ UNCHANGED <<parked, bound, queue, runtime, turns, unsettled, edited>>
           /\ Settles(bk', bk, turn, s)
           /\ turn.end # "stopped" =>
                 Answered(turn, s) \in Seq(Stored) /\ s' = AddedAll(s, Answered(turn, s))
<1>1. /\ turn # NoTurn /\ turn' = NoTurn /\ turn.staged = <<>>
      /\ turn.end \in {"answer", "call", "stopped"}
      /\ UNCHANGED <<parked, bound, queue, runtime, turns, unsettled, edited>>
  BY DEF Complete, history
<1>2. /\ turn.tools \in Tools /\ turn.got \in Nat /\ turn.engine \in Engines /\ bk \in Bindings
      /\ sent \in [Engines -> Nat] /\ turn.closes \in BOOLEAN
  BY <1>1 DEF Types, LogOK, BooksOK, TurnOK, InTurn
<1> DEFINE e == turn.engine
           n == (IF bk.opened THEN sent[e] ELSE 0) + turn.got
           p == Digest(s, n, turn.tools)
           b == IF turn.got = 0 THEN bk ELSE [bk EXCEPT !.opened = TRUE, !.prefix = p, !.own = TRUE]
           d == bk'
<1>3. Settled(bk).b = b
  BY DEF Settled
<1>4. bk' = IF turn.api # "chat" /\ (turn.end = "stopped" \/ turn.closes)
            THEN Closed(Settled(bk).b) ELSE Settled(bk).b
  BY DEF Complete, Replied
<1>5. turn.got # 0 => n \in Nat /\ n > 0
  BY <1>2
<1> HIDE DEF n, e
<1>6. p \in Digests \/ turn.got = 0
  <2> SUFFICES ASSUME turn.got # 0 PROVE p \in Digests
    OBVIOUS
  <2>1. Sound(s)
    BY DEF Types, LogOK
  <2> QED BY <1>2, <1>5, <2>1, DigestIs
<1>7. /\ b \in Bindings
      /\ b.thinking = bk.thinking
      /\ turn.got = 0 => b = bk
      /\ turn.got # 0 => b.own = TRUE /\ b.prefix = p
  <2> HIDE DEF p
  <2> QED BY <1>2, <1>6 DEF Bindings
<1>8. Settles(d, bk, turn, s)
  <2> SUFFICES ASSUME d.opened
               PROVE  /\ d.thinking = bk.thinking
                      /\ turn.api = "chat" \/ ~turn.closes
                      /\ \/ bk.opened /\ d.own = bk.own /\ d.prefix = bk.prefix
                         \/ /\ d.own
                            /\ \E count \in Nat : count > 0 /\ d.prefix = Digest(s, count, turn.tools)
    BY DEF Settles
  <2>1. d = b /\ (turn.api = "chat" \/ ~turn.closes)
    <3>1. ~Closed(b).opened
      BY <1>7, BindingParts
    <3>2. Settled(bk).b = b
      BY <1>3
    <3> HIDE DEF b
    <3> QED BY <1>4, <3>1, <3>2
  <2>2. CASE turn.got = 0
    <3>1. d = bk
      BY <1>7, <2>1, <2>2
    <3> QED BY <2>1, <3>1
  <2>3. CASE turn.got # 0
    <3>1. d.own = TRUE /\ d.prefix = Digest(s, n, turn.tools) /\ n \in Nat /\ n > 0
      BY <1>5, <1>7, <2>1, <2>3
    <3>2. d.thinking = bk.thinking
      BY <1>7, <2>1
    <3> HIDE DEF d, p, b
    <3> QED BY <2>1, <3>1, <3>2
  <2> QED BY <2>2, <2>3
<1>9. turn.end # "stopped" =>
         Answered(turn, s) \in Seq(Stored) /\ s' = AddedAll(s, Answered(turn, s))
  <2> SUFFICES ASSUME turn.end # "stopped"
               PROVE  Answered(turn, s) \in Seq(Stored) /\ s' = AddedAll(s, Answered(turn, s))
    OBVIOUS
  <2>1. Reply = Answered(turn, s)
    BY <1>1 DEF Reply, Answered
  <2>2. s' = AddedAll(s, Reply)
    BY DEF Complete, Replied
  <2> QED BY <1>1, <2>1, <2>2, ReplyIs
<1> HIDE DEF d
<1>10. d = bk'
  BY DEF d
<1> QED BY <1>1, <1>8, <1>9, <1>10

\* Either way the digest is one of the session the turn found.
LEMMA SettledDigest ==
    ASSUME NEW d, NEW b, NEW t, t.tools \in Tools, NEW x, Sound(x), Settles(d, b, t, x), d.opened,
           ASSUME b.opened PROVE Digested(t, b, x)
    PROVE  Digested(t, d, x)
<1>1. CASE b.opened /\ d.own = b.own /\ d.prefix = b.prefix
  <2>1. Digested(t, b, x)
    BY <1>1
  <2> QED BY <1>1, <2>1 DEF Digested
<1>2. ASSUME NEW count \in Nat, count > 0, d.prefix = Digest(x, count, t.tools)
      PROVE  Digested(t, d, x)
  BY <1>2, DigestIs DEF Digested
<1> QED BY <1>1, <1>2 DEF Settles

\* A digest of the session names records of it.
LEMMA DigestedListed ==
    ASSUME NEW t, NEW d, NEW x, Sound(x), Digested(t, d, x), NEW ms \in Seq(Stored)
    PROVE  Listed(d, AddedAll(x, ms))
<1> DEFINE p == d.prefix[3]
           y == AddedAll(x, ms)
           n == Len(x.records)
           m == Len(y.records)
<1>1. d.prefix \in Digests /\ p \in Seq(Nat) /\ IsPrefix(p, x.active)
  BY DEF Digested, Digests
<1>2. n \in Nat /\ m \in Nat /\ n <= m
  BY RecordsAdded
<1> HIDE DEF p, y, n, m
<1>3. \A i \in 1 .. Len(p) : p[i] \in 1 .. n
  BY <1>1, ProjectionPrefix DEF n
<1>4. 1 .. n \subseteq 1 .. m
  BY <1>2
<1>5. \A i \in 1 .. Len(p) : p[i] \in 1 .. m
  BY <1>3, <1>4
<1> QED BY <1>1, <1>5 DEF Listed, p, y, m

LEMMA AnswerIs ==
    ASSUME NEW t, NEW x, Sound(x), NEW w, w = Answered(t, x)
    PROVE  w \in Seq(Stored) /\ Len(w) = 1 /\ w[1].role = "assistant"
<1>1. Len(x.records) + 1 \in Nat
  BY SoundParts
<1>2. \E m \in Stored : m.role = "assistant" /\ w = <<m>>
  <2>1. Answer \in Stored /\ Answer.role = "assistant"
    BY Sentences
  <2>2. CallOf(Len(x.records) + 1) \in Stored /\ CallOf(Len(x.records) + 1).role = "assistant"
    BY <1>1, Sentences
  <2> QED BY <2>1, <2>2 DEF Answered
<1>3. \A m \in Stored : <<m>> \in Seq(Stored) /\ Len(<<m>>) = 1 /\ <<m>>[1] = m
  OBVIOUS
<1> QED BY <1>2, <1>3

\* A sequence and one more element.
LEMMA OneMore ==
    ASSUME NEW X, NEW u \in Seq(X), NEW w \in Seq(X), Len(w) = 1, NEW v, v = Joined(u, w)
    PROVE  v \in Seq(X) /\ Len(v) = Len(u) + 1 /\ v[Len(v)] = w[1] /\ v # <<>>
<1>1. v = u \o w
  BY DEF Joined
<1>2. v \in Seq(X) /\ Len(v) = Len(u) + Len(w)
  BY <1>1, ConcatProperties
<1>3. Len(u) \in Nat /\ Len(u) + 1 \in 1 .. Len(u) + Len(w)
  OBVIOUS
<1>4. v[Len(u) + 1] = w[1]
  <2> DEFINE k == Len(u) + 1
  <2>1. k \in 1 .. Len(u) + Len(w) /\ ~(k <= Len(u)) /\ k - Len(u) = 1
    BY <1>3
  <2>2. \A i \in 1 .. Len(u) + Len(w) : (u \o w)[i] = IF i <= Len(u) THEN u[i] ELSE w[i - Len(u)]
    BY ConcatProperties
  <2> HIDE DEF k
  <2>3. v[k] = w[k - Len(u)]
    BY <1>1, <2>1, <2>2
  <2> QED BY <2>1, <2>3 DEF k
<1>5. v # <<>>
  BY <1>2, <1>3
<1> QED BY <1>2, <1>4, <1>5

\* The runtime of a turn that settled goes beyond the digest by its reply, and it is a prefix
\* of the transcript that has the reply.
LEMMA DidHolds ==
    ASSUME NEW r \in Runtimes, NEW t, NEW b, NEW x, Sound(x), Did(r, t, b, x), ~t.closes,
           NEW d, Digested(t, d, x), d.thinking = b.thinking,
           NEW y, y = AddedAll(x, Answered(t, x))
    PROVE  Holds(r, d, y)
<1> DEFINE w == Answered(t, x)
           T == Transcript(x, x.system)
           C == r.context
           p == d.prefix
<1>1. w \in Seq(Stored) /\ Len(w) = 1 /\ w[1].role = "assistant"
  <2>1. w = Answered(t, x)
    OBVIOUS
  <2> HIDE DEF w
  <2> QED BY <2>1, AnswerIs
<1>2. p[1] = t.tools /\ p[2] = x.system /\ p[3] \in Seq(Nat) /\ IsPrefix(p[3], x.active)
  BY DEF Digested, Digests
<1>3. x.system \in 0 .. 2
  BY SoundParts DEF Systems
<1>4. T \in Seq(Msgs) /\ Len(T) = Offset(x.system) + Len(x.active)
  <2>1. T = Transcript(x, x.system)
    OBVIOUS
  <2> HIDE DEF T
  <2> QED BY <1>3, <2>1, TranscriptIs
<1>5. C = Joined(T, w)
  BY DEF Did
<1>6. r.state = "idle" /\ r.pins = <<p[1], d.thinking>>
  BY <1>2 DEF Did
<1>7. w \in Seq(Msgs)
  <2>1. Stored \subseteq Msgs
    BY DEF Msgs
  <2> HIDE DEF w
  <2> QED BY <1>1, <2>1, SeqMonotonic
<1>8. Transcript(y, p[2]) = Joined(T, w)
  <2>1. Transcript(y, x.system) = Joined(T, w)
    BY <1>1, <1>3, TranscriptAdded DEF Joined
  <2> QED BY <1>2, <2>1
<1> HIDE DEF w, T, C, p
<1>9. C \in Seq(Msgs) /\ Len(C) = Len(T) + 1 /\ C[Len(C)] = w[1] /\ C # <<>>
  BY <1>1, <1>4, <1>5, <1>7, OneMore
<1>10. Len(p[3]) <= Len(x.active) /\ Len(p[3]) \in Nat /\ Len(x.active) \in Nat
  <2> DEFINE i == p[3]
  <2>1. i \in Seq(Nat) /\ IsPrefix(i, x.active)
    BY <1>2
  <2> HIDE DEF i
  <2>2. Len(i) <= Len(x.active) /\ Len(i) \in Nat
    BY <2>1, ProjectionPrefix
  <2> QED BY <2>2, SoundParts DEF i
<1>11. Offset(p[2]) + Len(p[3]) < Len(C)
  <2> DEFINE o == Offset(x.system)
             k == Len(x.active)
             j == Len(p[3])
             l == Len(T)
  <2>1. o \in Nat /\ l = o + k /\ j <= k /\ j \in Nat /\ k \in Nat
    BY <1>3, <1>4, <1>10 DEF Offset
  <2>2. Len(C) = l + 1 /\ Offset(p[2]) = o
    BY <1>2, <1>9
  <2> HIDE DEF o, k, j, l
  <2>3. o + j < l + 1
    BY <2>1
  <2> QED BY <2>2, <2>3 DEF j
<1>12. IsPrefix(C, Transcript(y, p[2]))
  <2>1. IsPrefix(C, C)
    BY <1>9, PrefixSelf
  <2> QED BY <1>5, <1>8, <2>1
<1> QED BY <1>1, <1>6, <1>9, <1>11, <1>12 DEF Holds, C, p

\* The turn's own engine.
LEMMA SettledEngine ==
    ASSUME NEW q, NEW r, r # NoRuntime => r \in Runtimes, NEW t, t.tools \in Tools,
           NEW b, NEW x, Sound(x), NEW exc, NEW top,
           Engine(q, r, b, x, exc, top, top), InHand(t, q, r, b, x, exc),
           t.end \in {"answer", "call", "stopped"},
           NEW d, Settles(d, b, t, x), NEW ms \in Seq(Stored), NEW y, y = AddedAll(x, ms),
           t.end # "stopped" => y = AddedAll(x, Answered(t, x))
    PROVE  Engine(q, r, d, y, exc, 0, top)
<1>1. /\ Numbers(q, top) /\ Took(r, top) /\ Commanded(q)
      /\ Awaited(q, r, exc) /\ Viewed(r, exc) /\ Opening(q, r, b, x, exc, top)
  BY DEF Engine
<1>2. Opening(q, r, d, y, exc, 0)
  <2> SUFFICES ASSUME d.opened
               PROVE  /\ d.own /\ Listed(d, y)
                      /\ \A k \in 1 .. Len(q) : OnItsWay(q[k], exc, 0)
                      /\ Live(r, exc) => 0 \in r.turns \/ Holds(r, d, y)
    BY DEF Opening
  <2>1. ASSUME b.opened PROVE Digested(t, b, x) /\ b.own
    BY <1>1, <2>1 DEF InHand, Opening
  <2>2. Digested(t, d, x)
    BY <2>1, SettledDigest
  <2>3. d.own
    BY <2>1 DEF Settles
  <2>4. Listed(d, y)
    BY <2>2, DigestedListed
  <2>5. \A k \in 1 .. Len(q) : OnItsWay(q[k], exc, 0)
    BY DEF InHand, Still, OnItsWay
  <2>6. ASSUME Live(r, exc) PROVE Holds(r, d, y)
    <3>1. r # NoRuntime /\ r \in Runtimes
      BY <2>6 DEF Live
    <3>2. t.end # "stopped"
      BY <3>1 DEF InHand
    <3>3. Did(r, t, b, x)
      BY <2>6, <3>2 DEF InHand
    <3>4. ~t.closes
      BY DEF Settles, InHand
    <3>5. d.thinking = b.thinking
      BY DEF Settles
    <3>6. y = AddedAll(x, Answered(t, x))
      BY <3>2
    <3> QED BY <2>2, <3>1, <3>3, <3>4, <3>5, <3>6, DidHolds
  <2> QED BY <2>3, <2>4, <2>5, <2>6
<1> QED BY <1>1, <1>2 DEF Engine

LEMMA CompleteEngines ==
    ASSUME Types, Types', EnginesOK, CurrentOK, Complete
    PROVE  EnginesOK'
<1>1. /\ turn # NoTurn /\ turn' = NoTurn
      /\ turn.end \in {"answer", "call", "stopped"}
      /\ UNCHANGED <<parked, bound, queue, runtime, turns, unsettled, edited>>
      /\ Settles(bk', bk, turn, s)
      /\ turn.end # "stopped" => s' = AddedAll(s, Answered(turn, s))
  BY CompleteParts
<1>2. PICK ms \in Seq(Stored) : s' = AddedAll(s, ms)
  BY CompleteKeeps
<1>3. turn.tools \in Tools /\ turn.engine \in Engines /\ turns = turn.n /\ Sound(s)
  BY <1>1 DEF Types, TurnOK, InTurn, LogOK
<1>0. PICK e \in Engines : e = turn.engine
  BY <1>3
<1>4. /\ bound = e /\ bound' = e /\ Excepted' = Excepted
      /\ \A z \in Engines : Current(z)' = 0 /\ Latest(z)' = turns
  BY <1>0, <1>1, EngineParts, <1>3 DEF Excepted, Current, Latest
<1>5. /\ Latest(e) = turns /\ Current(e) = turns /\ turns \in Nat
      /\ \A z \in Engines \ {e} : Latest(z) = turns - 1 /\ Current(z) = 0
  BY <1>0, <1>1, <1>3, EngineParts
<1>6. EngineOK(e)'
  <2> DEFINE q == queue[e]
             r == runtime[e]
             exc == Excepted
             y == s'
             d == bk'
             top == turns
  <2>1. Engine(q, r, bk, s, exc, top, top)
    <3>1. Engine(queue[e], runtime[e], BooksOf(e), s, Excepted, Current(e), Latest(e))
      BY <1>3 DEF EnginesOK, EngineOK
    <3> QED BY <1>4, <1>5, <3>1 DEF BooksOf
  <2>2. InHand(turn, q, r, bk, s, exc)
    BY <1>0, <1>1 DEF CurrentOK
  <2>3. r # NoRuntime => r \in Runtimes
    BY <1>3, EngineParts
  <2>4. y = AddedAll(s, ms) /\ Settles(d, bk, turn, s)
    BY <1>1, <1>2
  <2>5. turn.end # "stopped" => y = AddedAll(s, Answered(turn, s))
    BY <1>1
  <2> HIDE DEF q, r, exc, y, d, top
  <2>6. Engine(q, r, d, y, exc, 0, top)
    BY <1>1, <1>3, <2>1, <2>2, <2>3, <2>4, <2>5, SettledEngine
  <2> QED
    <3>1. /\ queue'[e] = q /\ runtime'[e] = r /\ BooksOf(e)' = d /\ s' = y /\ Excepted' = exc
          /\ Current(e)' = 0 /\ Latest(e)' = top
      BY <1>1, <1>4 DEF BooksOf, q, r, d, y, exc, top
    <3> QED BY <2>6, <3>1 DEF EngineOK
<1>7. ASSUME NEW z \in Engines \ {e} PROVE EngineOK(z)'
  <2> DEFINE d == BooksOf(z)'
             b == BooksOf(z)
             more == Excepted'
             r == runtime'[z]
             next == Current(z)'
  <2>1. Engine(queue'[z], runtime'[z], BooksOf(z), s, Excepted, Current(z), Latest(z))
    BY <1>1 DEF EnginesOK, EngineOK
  <2>2. d = b /\ more = Excepted /\ next = Current(z)
    BY <1>1, <1>4, <1>5, <1>7 DEF BooksOf
  <2>3. Same(d, b) /\ Excepted \subseteq more
    BY <2>2, SameSelf
  <2>4. Latest(z) <= Latest(z)'
    BY <1>4, <1>5
  <2>5. Len(s.records) <= Len(s'.records)
    BY <1>2, <1>3, RecordsAdded
  <2>6. ASSUME d.opened, b.opened, Listed(b, s), Live(r, more),
               Current(z) \in r.turns \/ Holds(r, b, s)
        PROVE  next \in r.turns \/ Holds(r, d, s')
    <3>1. CASE Holds(r, b, s)
      <4>1. r \in Runtimes
        BY <1>1, <2>6 DEF Live, Types, RuntimeOK
      <4>2. Listed(b, s)
        BY <2>6
      <4> HIDE DEF r, b
      <4>3. Holds(r, b, s')
        BY <1>2, <1>3, <3>1, <4>1, <4>2, HoldsAdded
      <4> QED BY <2>2, <4>3
    <3> QED BY <2>2, <2>6, <3>1
  <2>7. ASSUME d.opened PROVE next = Current(z) \/ Current(z) \in more \/ Current(z) = 0
    BY <2>2
  <2> HIDE DEF d, b, more, r, next
  <2>8. /\ d = BooksOf(z)' /\ b = BooksOf(z) /\ more = Excepted' /\ r = runtime'[z]
        /\ next = Current(z)'
    BY DEF d, b, more, r, next
  <2> QED BY <1>7, <2>1, <2>3, <2>4, <2>5, <2>6, <2>7, <2>8, EngineKept
<1> QED BY <1>6, <1>7 DEF EnginesOK

-----------------------------------------------------------------------------
(* What holds of every engine holds at every step.                         *)

LEMMA InitEngines == Init => EnginesOK /\ CurrentOK
<1> SUFFICES ASSUME Init PROVE EnginesOK /\ CurrentOK
  OBVIOUS
<1>1. /\ turn = NoTurn /\ turns = 0 /\ bk = NoBinding /\ parked = [e \in Engines |-> NoBinding]
      /\ queue = [e \in Engines |-> <<>>] /\ runtime = [e \in Engines |-> NoRuntime]
  BY DEF Init
<1>2. CurrentOK
  BY <1>1 DEF CurrentOK
<1>3. ASSUME NEW e \in Engines PROVE EngineOK(e)
  <2> DEFINE q == queue[e]
             r == runtime[e]
             b == BooksOf(e)
  <2>1. Len(q) = 0 /\ r = NoRuntime /\ ~b.opened
    BY <1>1, BindingParts DEF BooksOf
  <2> HIDE DEF q, r, b
  <2>2. \A k \in 1 .. Len(q) : FALSE
    BY <2>1
  <2>3. Numbers(q, Latest(e)) /\ Commanded(q) /\ Awaited(q, r, Excepted)
    BY <2>2 DEF Numbers, Commanded, Awaited
  <2>4. Took(r, Latest(e)) /\ Viewed(r, Excepted)
    BY <2>1, NoneIs DEF Took, Viewed
  <2>5. Opening(q, r, b, s, Excepted, Current(e))
    BY <2>1 DEF Opening
  <2>6. Engine(q, r, b, s, Excepted, Current(e), Latest(e))
    BY <2>3, <2>4, <2>5 DEF Engine
  <2> QED BY <2>6 DEF EngineOK, q, r, b
<1> QED BY <1>2, <1>3 DEF EnginesOK

LEMMA ElsewhereEngines ==
    ASSUME Types, Types', EnginesOK, CurrentOK, Elsewhere
    PROVE  EnginesOK' /\ CurrentOK'
<1>1. CASE Leave \/ LeaveAsync \/ LeaveMicrophone
  <2>1. EnginesOK'
    BY <1>1, LeaveEngines
  <2>2. CurrentOK'
    BY <1>1, NoneInHand
  <2> QED BY <2>1, <2>2
<1>2. CASE Cancel
  BY <1>2, CancelEngines, CancelHand
<1>3. CASE Controllers
  BY <1>3, ControllersEngines, ControllersHand
<1>4. ASSUME NEW e \in Engines, Swap(e) PROVE EnginesOK' /\ CurrentOK'
  BY <1>4, WorkEngines, ControllersHand
<1>5. CASE (\E e \in Engines : NoteSwap(e) \/ ClearSent(e)) \/ UNCHANGED vars
  BY <1>5, NotedEngines, NotedHand
<1> QED BY <1>1, <1>2, <1>3, <1>4, <1>5 DEF Elsewhere, Others

LEMMA EnginesStep ==
    Types /\ Types' /\ EnginesOK /\ CurrentOK /\ [Next]_vars => EnginesOK' /\ CurrentOK'
<1> SUFFICES ASSUME Types, Types', EnginesOK, CurrentOK, [Next]_vars PROVE EnginesOK' /\ CurrentOK'
  OBVIOUS
<1>1. CASE Owner
  <2>1. EnginesOK'
    BY <1>1, OwnerEngines
  <2>2. CurrentOK'
    BY <1>1, NoneInHand
  <2> QED BY <2>1, <2>2
<1>2. CASE Commit
  BY <1>2, CommitEngines, CommitHand
<1>3. CASE Complete
  <2>1. EnginesOK'
    BY <1>3, CompleteEngines
  <2>2. CurrentOK'
    BY <1>3, NoneInHand
  <2> QED BY <2>1, <2>2
<1>4. CASE Elsewhere
  BY <1>4, ElsewhereEngines
<1>5. ASSUME NEW e \in Engines, NEW q \in Requests,
             Dispatch(e, q.api, q.staged, q.over, q.thinking)
      PROVE  EnginesOK' /\ CurrentOK'
  <2>1. EnginesOK'
    BY <1>5, DispatchEngines
  <2>2. CurrentOK'
    BY <1>5, DispatchHand
  <2> QED BY <2>1, <2>2
<1> QED BY <1>1, <1>2, <1>3, <1>4, <1>5, NextIs

LEMMA EnginesMean == Types /\ EnginesOK => ViewIsTranscript
<1> SUFFICES ASSUME Types, EnginesOK, NEW e \in Engines,
                    InFlight(runtime[e]), runtime[e].turns \cap Excepted = {}
             PROVE  runtime[e].context = runtime[e].asked /\ runtime[e].pins = runtime[e].wants
  BY DEF ViewIsTranscript
<1>1. Viewed(runtime[e], Excepted)
  BY DEF EnginesOK, EngineOK, Engine
<1>2. runtime[e] # NoRuntime
  BY NoneIs
<1> QED BY <1>1, <1>2 DEF Viewed, Live

\* However the session was edited, whatever engine it was run on and whatever was evicted,
\* swapped or forgotten meanwhile, a turn an engine accepts runs on exactly the transcript
\* it was dispatched with, under its tools and reasoning policy ("slower, never wrong",
\* begin in api/chat.rs; note_engine, prefix_still_held and tail_is_appendable in
\* api/session.rs), but for the two exceptions ViewIsTranscript names.
THEOREM TurnSeesItsTranscript == Spec => []ViewIsTranscript
<1> DEFINE IInv == Types /\ EnginesOK /\ CurrentOK
<1>1. Init => IInv
  BY InitTypes, InitEngines
<1>2. IInv /\ [Next]_vars => IInv'
  BY TypesStep, EnginesStep
<1>3. IInv => ViewIsTranscript
  BY EnginesMean
<1> QED BY <1>1, <1>2, <1>3, PTL DEF Spec

-----------------------------------------------------------------------------
(* The follow-up of a turn that settled is a continuation.                 *)

\* The books cover the first n messages of the transcript; of what is beyond them, only the
\* first is a model's.
Covered(x, b, n, tools) ==
    n <= Len(Transcript(x, x.system)) /\ b.prefix = Digest(x, n, tools)
Trailing(t, n) == \A k \in 1 .. Len(t) : n < k /\ t[k].role = "assistant" => k = n + 1
Unspoken(ms) == \A k \in 1 .. Len(ms) : ms[k].role # "assistant"

Extends(u, t, ms) ==
    /\ \A k \in 1 .. Len(t) : u[k] = t[k]
    /\ \A k \in 1 .. Len(ms) : u[Len(t) + k] = ms[k]

\* The transcript of a session with messages added.
LEMMA AddedTranscript ==
    ASSUME NEW x, Sound(x), NEW ms \in Seq(Stored), NEW y, y = AddedAll(x, ms),
           NEW t, t = Transcript(x, x.system), NEW u, u = Transcript(y, y.system)
    PROVE  /\ y.system = x.system /\ y.tools = x.tools /\ Sound(y)
           /\ t \in Seq(Msgs) /\ u \in Seq(Msgs) /\ u = Joined(t, ms)
           /\ Len(t) \in Nat /\ Len(ms) \in Nat /\ Len(u) = Len(t) + Len(ms)
           /\ Extends(u, t, ms)
<1>1. y.system = x.system /\ y.tools = x.tools
  <2>1. x \in Logs
    BY SoundParts
  <2> QED BY <2>1 DEF AddedAll, Logs
<1>2. x.system \in 0 .. 2
  BY SoundParts DEF Systems
<1>3. Sound(y)
  BY AddedAllSound
<1>4. u = t \o ms
  <2>1. Transcript(y, x.system) = Transcript(x, x.system) \o ms
    BY <1>2, TranscriptAdded
  <2> QED BY <1>1, <2>1
<1>5. t \in Seq(Msgs)
  BY <1>2, TranscriptIs
<1>6. ms \in Seq(Msgs)
  <2>1. Stored \subseteq Msgs
    BY DEF Msgs
  <2> QED BY <2>1, SeqMonotonic
<1> DEFINE v == t \o ms
<1>7. /\ v \in Seq(Msgs) /\ Len(v) = Len(t) + Len(ms)
      /\ \A k \in 1 .. Len(t) : v[k] = t[k]
      /\ \A k \in 1 .. Len(ms) : v[Len(t) + k] = ms[k]
  BY <1>5, <1>6, Sequences
<1>8. Len(t) \in Nat /\ Len(ms) \in Nat
  BY <1>5, <1>6, LenProperties
<1>9. u = v
  BY <1>4
<1> HIDE DEF v
<1>10. Extends(u, t, ms)
  BY <1>7, <1>9 DEF Extends
<1> QED BY <1>1, <1>3, <1>4, <1>5, <1>7, <1>8, <1>9, <1>10 DEF Joined

LEMMA CoveredAdded ==
    ASSUME NEW x, Sound(x), NEW ms \in Seq(Stored), NEW y, y = AddedAll(x, ms),
           NEW n \in Nat, NEW b, NEW tools, Covered(x, b, n, tools)
    PROVE  Covered(y, b, n, tools)
<1> DEFINE t == Transcript(x, x.system)
           u == Transcript(y, y.system)
<1>1. n <= Len(t) /\ b.prefix = Digest(x, n, tools)
  BY DEF Covered
<1>2. Digest(y, n, tools) = Digest(x, n, tools)
  BY <1>1, DigestStable
<1>3. Len(u) = Len(t) + Len(ms) /\ Len(t) \in Nat /\ Len(ms) \in Nat
  <2>1. t = Transcript(x, x.system) /\ u = Transcript(y, y.system)
    OBVIOUS
  <2> HIDE DEF t, u
  <2> QED BY <2>1, AddedTranscript
<1> HIDE DEF t
<1>4. n <= Len(u)
  <2> HIDE DEF u
  <2> QED BY <1>1, <1>3
<1> QED BY <1>1, <1>2, <1>4 DEF Covered

\* Nothing the model says is added, or one reply right after what is covered.
LEMMA TrailingMore ==
    ASSUME NEW x, Sound(x), NEW ms \in Seq(Stored), NEW y, y = AddedAll(x, ms),
           NEW t, t = Transcript(x, x.system), NEW u, u = Transcript(y, y.system),
           NEW n \in Nat, Trailing(t, n), Unspoken(ms)
    PROVE  Trailing(u, n)
<1>1. /\ y.system = x.system /\ y.tools = x.tools /\ Sound(y)
      /\ t \in Seq(Msgs) /\ u \in Seq(Msgs) /\ u = Joined(t, ms)
      /\ Len(t) \in Nat /\ Len(ms) \in Nat /\ Len(u) = Len(t) + Len(ms)
      /\ Extends(u, t, ms)
  BY AddedTranscript
<1>2. SUFFICES ASSUME NEW k \in 1 .. Len(u), n < k, u[k].role = "assistant" PROVE k = n + 1
  BY DEF Trailing
<1>3. CASE k \in 1 .. Len(t)
  <2>1. u[k] = t[k]
    BY <1>1, <1>3 DEF Extends
  <2> QED BY <1>2, <1>3, <2>1 DEF Trailing
<1>4. CASE k \notin 1 .. Len(t)
  <2>1. k - Len(t) \in 1 .. Len(ms) /\ Len(t) + (k - Len(t)) = k
    BY <1>1, <1>4
  <2>2. u[Len(t) + (k - Len(t))] = ms[k - Len(t)]
    BY <1>1, <2>1 DEF Extends
  <2> QED BY <1>2, <2>1, <2>2 DEF Unspoken
<1> QED BY <1>3, <1>4

LEMMA TrailingReply ==
    ASSUME NEW x, Sound(x), NEW ms \in Seq(Stored), Len(ms) <= 1, NEW y, y = AddedAll(x, ms),
           NEW t, t = Transcript(x, x.system), NEW u, u = Transcript(y, y.system),
           NEW n, n = Len(t)
    PROVE  Trailing(u, n)
<1>1. Len(t) \in Nat /\ Len(ms) \in Nat /\ Len(u) = Len(t) + Len(ms)
  BY AddedTranscript
<1>2. \A k \in 1 .. Len(u) : n < k => k = n + 1
  BY <1>1
<1> QED BY <1>2 DEF Trailing

\* Such a tail may be appended to a reply of the engine's own.
LEMMA TrailingAppendable ==
    ASSUME NEW x, Sound(x), NEW t, t = Transcript(x, x.system), NEW n \in Nat, n > 0, n <= Len(t),
           Trailing(t, n), NEW b, b.own
    PROVE  TailIsAppendable(x, b, n)
<1> DEFINE o == Offset(x.system)
           v == View(x.active, x.records)
           la == Len(x.active)
           m == 1 + n - Len(Prompt(x.system))
           tail == SubSeq(v, m, la)
<1>1. x.system \in 0 .. 2
  BY SoundParts DEF Systems
<1>2. /\ Len(Prompt(x.system)) = o /\ Len(t) = o + la /\ v \in Seq(Stored) /\ Len(v) = la
      /\ \A k \in 1 .. la : t[o + k] = v[k]
  <2>1. /\ Len(Prompt(x.system)) = o /\ Len(t) = o + la /\ v \in Seq(Stored) /\ Len(v) = la
    BY <1>1, TranscriptIs
  <2>2. o = Offset(x.system) /\ v = View(x.active, x.records)
    OBVIOUS
  <2> HIDE DEF o, v
  <2>3. \A k \in 1 .. Len(x.active) : t[o + k] = v[k]
    BY <1>1, <2>2, TranscriptAt
  <2> QED BY <2>1, <2>3
<1>3. o \in 0 .. 1 /\ la \in Nat
  BY SoundParts DEF Offset
<1> HIDE DEF o, v, la
<1>4. m = 1 + n - o /\ m \in Nat /\ m >= 1
  BY <1>2, <1>3
<1> HIDE DEF m
<1>5. /\ tail \in Seq(Stored) /\ Len(tail) = (IF m <= la THEN la - m + 1 ELSE 0)
      /\ \A k \in 1 .. Len(tail) : tail[k] = v[m + k - 1]
  BY <1>2, <1>3, <1>4, Slice
<1>6. DOMAIN tail = 1 .. Len(tail)
  <2> HIDE DEF tail
  <2> QED BY <1>5
<1> HIDE DEF tail
<1>7. ASSUME NEW k \in 1 .. Len(tail), tail[k].role = "assistant" PROVE k = 1
  <2>1. m + k - 1 \in 1 .. la /\ o + (m + k - 1) = n + k
    BY <1>3, <1>4, <1>5
  <2>2. tail[k] = t[n + k]
    <3>1. tail[k] = v[m + k - 1]
      BY <1>5
    <3>2. t[o + (m + k - 1)] = v[m + k - 1]
      BY <1>2, <2>1
    <3> QED BY <2>1, <3>1, <3>2
  <2>3. n + k \in 1 .. Len(t) /\ n < n + k
    BY <1>2, <1>3, <2>1
  <2>4. n + k = n + 1
    BY <1>7, <2>2, <2>3 DEF Trailing
  <2> QED BY <2>4
<1>8. \A k \in DOMAIN tail : tail[k].role = "assistant" => k = 1 /\ b.own
  BY <1>6, <1>7
<1> QED BY <1>8 DEF TailIsAppendable, tail, v, m, la

\* Books under which the next turn is a continuation; books a turn in flight can rely on.
Warmed(b, x, n, g) ==
    /\ b.opened /\ b.own /\ b.gen = g
    /\ n > 0 /\ Covered(x, b, n, x.tools) /\ Trailing(Transcript(x, x.system), n)
Sure(b, x, n, tools) == b.opened => n = 0 \/ Covered(x, b, n, tools)

WarmOK ==
    warm # NoEngine =>
        turn = NoTurn /\ bound = warm /\ Warmed(bk, s, sent[warm], generation[warm])
HeardOK ==
    turn # NoTurn => ~turn.cold /\ Sure(bk, s, sent[turn.engine], turn.tools)

\* The controllers tell a turn that is in flight, and change nothing the owner keeps.
LEMMA ControllersHear ==
    ASSUME Types, Controllers \/ (\E e \in Engines : Swap(e))
    PROVE  Heard /\ UNCHANGED <<s, bk, bound, sent, generation, warm>>
<1>1. UNCHANGED <<s, bk, bound, sent, generation, warm>>
  BY DEF Controllers, StartChat, ContinueChat, Rebuild, StopChat, Finish, Break, Evict, Swap,
         Controlled, session, binding
<1>2. \/ turn' = turn
      \/ \E n, end : turn' = Ended(n, end)
      \/ \E n, got, end : turn' = Told(n, got, end)
  <2>1. CASE \E e \in Engines : StartChat(e) \/ Rebuild(e)
    BY <2>1 DEF StartChat, Rebuild, Start
  <2>2. CASE \E e \in Engines : ContinueChat(e)
    BY <2>2 DEF ContinueChat
  <2>3. CASE \E e \in Engines : StopChat(e) \/ Finish(e) \/ Break(e) \/ Evict(e) \/ Swap(e)
    BY <2>3 DEF StopChat, Finish, Break, Evict, Swap
  <2> QED BY <2>1, <2>2, <2>3 DEF Controllers
<1>3. Heard
  <2>1. TurnOK
    BY DEF Types
  <2> QED BY <1>2, <2>1, HeardIs
<1> QED BY <1>1, <1>3

LEMMA HearingWarm ==
    ASSUME WarmOK, HeardOK, Heard, UNCHANGED <<s, bk, bound, sent, generation, warm>>
    PROVE  WarmOK' /\ HeardOK'
<1>1. WarmOK'
  BY DEF WarmOK, Heard
<1>2. HeardOK'
  <2> SUFFICES ASSUME turn' # NoTurn
               PROVE  ~turn'.cold /\ Sure(bk', s', sent'[turn'.engine], turn'.tools)
    BY DEF HeardOK
  <2>1. turn # NoTurn /\ turn'.cold = turn.cold /\ turn'.engine = turn.engine
        /\ turn'.tools = turn.tools
    BY DEF Heard
  <2> QED BY <2>1 DEF HeardOK
<1> QED BY <1>1, <1>2

LEMMA NotedWarm ==
    ASSUME Types, HeardOK, NEW e \in Engines, NoteSwap(e) \/ ClearSent(e)
    PROVE  WarmOK' /\ HeardOK'
<1>1. /\ warm' = NoEngine /\ UNCHANGED <<turn, bk, s>>
      /\ sent' = [sent EXCEPT ![e] = 0]
  BY DEF NoteSwap, ClearSent, session, binding
<1>2. WarmOK'
  BY <1>1 DEF WarmOK
<1>3. HeardOK'
  <2> SUFFICES ASSUME turn # NoTurn
               PROVE  ~turn.cold /\ Sure(bk, s, sent'[turn.engine], turn.tools)
    BY <1>1 DEF HeardOK
  <2>1. ~turn.cold /\ Sure(bk, s, sent[turn.engine], turn.tools)
    BY DEF HeardOK
  <2>2. sent'[turn.engine] \in {0, sent[turn.engine]}
    <3>1. turn.engine \in Engines /\ sent \in [Engines -> Nat]
      BY DEF Types, TurnOK, InTurn, BooksOK
    <3> QED BY <1>1, <3>1
  <2> QED BY <2>1, <2>2 DEF Sure
<1> QED BY <1>2, <1>3

LEMMA CommitWarm ==
    ASSUME Types, WarmOK, HeardOK, Commit
    PROVE  WarmOK' /\ HeardOK'
<1>1. /\ turn # NoTurn /\ turn' = [turn EXCEPT !.staged = <<>>]
      /\ UNCHANGED <<bk, bound, sent, warm>>
      /\ s' = AddedAll(s, turn.staged)
  BY DEF Commit, binding
<1>2. WarmOK'
  BY <1>1 DEF WarmOK
<1>3. /\ turn \in InTurn /\ turn.staged \in Seq(Stored) /\ turn.engine \in Engines
      /\ sent[turn.engine] \in Nat /\ Sound(s)
  BY <1>1 DEF Types, LogOK, TurnOK, BooksOK, InTurn
<1>4. turn'.cold = turn.cold /\ turn'.engine = turn.engine /\ turn'.tools = turn.tools
  BY <1>1, <1>3 DEF InTurn
<1>5. Sure(bk, s', sent[turn.engine], turn.tools)
  <2>1. Sure(bk, s, sent[turn.engine], turn.tools)
    BY <1>1 DEF HeardOK
  <2> DEFINE n == sent[turn.engine]
             tools == turn.tools
             ms == turn.staged
             y == s'
  <2>2. n \in Nat /\ ms \in Seq(Stored) /\ y = AddedAll(s, ms)
    BY <1>1, <1>3
  <2> HIDE DEF n, tools, ms, y
  <2>3. Covered(s, bk, n, tools) => Covered(y, bk, n, tools)
    BY <1>3, <2>2, CoveredAdded
  <2> QED BY <2>1, <2>3 DEF Sure, n, tools, y
<1>6. HeardOK'
  BY <1>1, <1>4, <1>5 DEF HeardOK
<1> QED BY <1>2, <1>6

\* A turn left with its books.
LEMMA LeaveWarm ==
    ASSUME WarmOK, Leave \/ LeaveAsync \/ LeaveMicrophone
    PROVE  WarmOK' /\ HeardOK'
<1>1. turn # NoTurn /\ turn' = NoTurn /\ warm' = warm
  BY DEF Leave, LeaveAsync, LeaveMicrophone, Unsettled
<1> QED BY <1>1 DEF WarmOK, HeardOK

\* A message pushed that is not the model's leaves the engine warm.
LEMMA PushWarm ==
    ASSUME Types, WarmOK, NEW m \in Pushed, Push(m)
    PROVE  WarmOK' /\ HeardOK'
<1>1. /\ turn' = NoTurn /\ s' = Added(s, m)
      /\ UNCHANGED <<bk, bound, sent, generation>>
      /\ warm' = IF m.role = "assistant" THEN NoEngine ELSE warm
  BY DEF Push, binding, engines
<1>2. HeardOK'
  BY <1>1 DEF HeardOK
<1>3. Sound(s) /\ m \in Stored
  BY Sentences DEF Types, LogOK
<1> DEFINE ms == <<m>>
           y == s'
<1>4. y = AddedAll(s, ms) /\ ms \in Seq(Stored)
  <2>1. Added(s, m) = AddedAll(s, ms)
    BY <1>3, AddedSound
  <2> QED BY <1>1, <1>3, <2>1
<1>5. Len(ms) = 1 /\ ms[1] = m
  OBVIOUS
<1> HIDE DEF ms, y
<1>6. ASSUME warm' # NoEngine
      PROVE  turn' = NoTurn /\ bound' = warm' /\ Warmed(bk, y, sent[warm], generation[warm])
  <2>1. warm' = warm /\ m.role # "assistant"
    BY <1>1, <1>6
  <2>2. bound = warm /\ Warmed(bk, s, sent[warm], generation[warm])
    BY <1>6, <2>1 DEF WarmOK
  <2>3. Unspoken(ms)
    BY <1>5, <2>1 DEF Unspoken
  <2> DEFINE n == sent[warm]
             tools == s.tools
             t == Transcript(s, s.system)
             u == Transcript(y, y.system)
  <2>4. n \in Nat
    BY <1>6, <2>1 DEF Types, BooksOK
  <2>5. Covered(s, bk, n, tools) /\ Trailing(t, n)
    BY <2>2 DEF Warmed
  <2>6. t = Transcript(s, s.system) /\ u = Transcript(y, y.system)
    OBVIOUS
  <2> HIDE DEF n, tools, t, u
  <2>7. Covered(y, bk, n, tools)
    BY <1>3, <1>4, <2>4, <2>5, CoveredAdded
  <2>8. Trailing(u, n)
    BY <1>3, <1>4, <2>3, <2>4, <2>5, <2>6, TrailingMore
  <2>9. y.tools = tools
    BY <1>3, <1>4, <2>6, AddedTranscript DEF tools
  <2> QED BY <1>1, <2>1, <2>2, <2>6, <2>7, <2>8, <2>9 DEF Warmed, n
<1>7. WarmOK'
  <2>1. warm' # NoEngine => warm' = warm
    BY <1>1
  <2> QED BY <1>1, <1>6, <2>1 DEF WarmOK, y
<1> QED BY <1>2, <1>7

LEMMA OwnerWarm ==
    ASSUME Types, WarmOK, Owner
    PROVE  WarmOK' /\ HeardOK'
<1>1. CASE \E m \in Pushed : Push(m)
  BY <1>1, PushWarm
<1>2. CASE Edits \/ Clear \/ (\E ids, at : Fork(ids, at)) \/ Reopen
           \/ (\E e \in Engines, m \in Pushed : Refuse(e, m, 0))
  <2>1. warm' = NoEngine /\ turn' = NoTurn
    BY <1>2 DEF Edits, Clear, Fork, Reopen, Refuse
  <2> QED BY <2>1 DEF WarmOK, HeardOK
<1> QED BY <1>1, <1>2, OwnerIs

\* What keeps the bindings of a dispatched turn open.
Goes(b, e, x, over, thinking, tools, wire, d) ==
    /\ NoteEngine(b, e).opened /\ NoteEngine(b, e).gen = generation[e]
    /\ NoteEngine(b, e).thinking = thinking
    /\ over.system = 0 /\ ~\E k \in DOMAIN wire : wire[k].role = "assistant"
    /\ PrefixStillHeld(x, d, sent[e], tools)
    /\ TailIsAppendable(x, d, sent[e])

LEMMA BooksGo ==
    ASSUME NEW b \in Bindings, parked \in [Engines -> Bindings], NEW e \in Engines, NEW x,
           generation \in [Engines -> Nat],
           NEW over, NEW thinking \in Thinking, NEW tools, NEW wire,
           NEW d, d = Books(b, e, x, over, thinking, tools, wire)
    PROVE  /\ d.prefix = NoteEngine(b, e).prefix /\ d.own = NoteEngine(b, e).own
           /\ Goes(b, e, x, over, thinking, tools, wire, d) => d.opened
<1> DEFINE f == Books(b, e, x, over, thinking, tools, wire)
<1>1. f = d
  OBVIOUS
<1>2. /\ f \in Bindings /\ f.gen = generation[e] /\ f.thinking = thinking
      /\ f.prefix = NoteEngine(b, e).prefix /\ f.own = NoteEngine(b, e).own
      /\ NoteEngine(b, e) \in Bindings
      /\ f.opened => /\ NoteEngine(b, e).opened
                     /\ NoteEngine(b, e).gen = generation[e]
                     /\ NoteEngine(b, e).thinking = thinking
      /\ f.opened => over.system = 0 /\ ~\E k \in DOMAIN wire : wire[k].role = "assistant"
      /\ f.opened => PrefixStillHeld(x, f, sent[e], tools)
      /\ f.opened => TailIsAppendable(x, f, sent[e])
      /\ /\ NoteEngine(b, e).opened
         /\ NoteEngine(b, e).gen = generation[e]
         /\ NoteEngine(b, e).thinking = thinking
         /\ over.system = 0
         /\ ~\E k \in DOMAIN wire : wire[k].role = "assistant"
         /\ PrefixStillHeld(x, f, sent[e], tools)
         /\ TailIsAppendable(x, f, sent[e])
         => f.opened
  BY BooksAre
<1> HIDE DEF f
<1>3. Goes(b, e, x, over, thinking, tools, wire, f) => f.opened
  BY <1>2 DEF Goes
<1> QED BY <1>1, <1>2, <1>3

\* Warm books are continued by a turn of the same kind that adds nothing the model said.
LEMMA WarmContinues ==
    ASSUME NEW b \in Bindings, parked \in [Engines -> Bindings], NEW e \in Engines, bound = e,
           generation \in [Engines -> Nat], NEW x, Sound(x), NEW n \in Nat, n = sent[e],
           Warmed(b, x, n, generation[e]), NEW ms \in Seq(Stored), Unspoken(ms),
           NEW y, y = AddedAll(x, ms), NEW thinking \in Thinking, thinking = b.thinking,
           NEW wire \in Seq(Stored), Unspoken(wire),
           NEW over, over.system = 0, NEW tools, tools = y.tools,
           NEW d, d = Books(b, e, y, over, thinking, tools, wire)
    PROVE  d.opened
<1> DEFINE t == Transcript(x, x.system)
           u == Transcript(y, y.system)
<1>1. b.opened /\ b.own /\ b.gen = generation[e] /\ n > 0 /\ Covered(x, b, n, x.tools) /\ Trailing(t, n)
  BY DEF Warmed
<1>2. NoteEngine(b, e) = b
  BY DEF NoteEngine
<1>3. /\ d.prefix = b.prefix /\ d.own = b.own
      /\ Goes(b, e, y, over, thinking, tools, wire, d) => d.opened
  BY <1>2, BooksGo
<1>4. ~\E k \in DOMAIN wire : wire[k].role = "assistant"
  <2>1. DOMAIN wire = 1 .. Len(wire)
    OBVIOUS
  <2> QED BY <2>1 DEF Unspoken
<1>5. t = Transcript(x, x.system) /\ u = Transcript(y, y.system)
  OBVIOUS
<1> HIDE DEF t, u
<1>6. y.tools = x.tools /\ Sound(y)
  BY <1>5, AddedTranscript
<1> DEFINE old == x.tools
<1> HIDE DEF old
<1>7. Covered(y, b, n, old)
  <2>1. Covered(x, b, n, old)
    BY <1>1 DEF old
  <2> QED BY <2>1, CoveredAdded
<1>8. Trailing(u, n)
  BY <1>1, <1>5, TrailingMore
<1>9. n <= Len(u) /\ b.prefix = Digest(y, n, tools)
  BY <1>5, <1>6, <1>7 DEF Covered, old
<1>10. PrefixStillHeld(y, d, n, tools)
  BY <1>1, <1>3, <1>5, <1>9 DEF PrefixStillHeld
<1>11. TailIsAppendable(y, d, n)
  <2>1. d.own
    BY <1>1, <1>3
  <2> QED BY <1>1, <1>5, <1>6, <1>8, <1>9, <2>1, TrailingAppendable
<1> QED BY <1>1, <1>2, <1>3, <1>4, <1>10, <1>11 DEF Goes

LEMMA DispatchWarm ==
    ASSUME Types, Types', WarmOK, NEW e \in Engines, NEW q \in Requests,
           Dispatch(e, q.api, q.staged, q.over, q.thinking)
    PROVE  WarmOK' /\ HeardOK'
<1> DEFINE x == s'
           d == bk'
           wire == Wired(q)
           tools == Offered(q, x)
           n == sent[e]
<1>1. warm' = NoEngine /\ turn = NoTurn /\ UNCHANGED sent /\ turn'.engine = e
  BY DEF Dispatch
<1>2. WarmOK'
  BY <1>1 DEF WarmOK
<1>3. /\ bk \in Bindings /\ sent \in [Engines -> Nat] /\ parked \in [Engines -> Bindings]
      /\ generation \in [Engines -> Nat] /\ Sound(s) /\ n \in Nat
  BY DEF Types, LogOK, BooksOK
<1>4. /\ Sound(x) /\ wire \in Seq(Stored)
      /\ d.opened => PrefixStillHeld(x, d, n, tools)
  BY DispatchParts
<1>5. turn'.tools = tools
  BY DispatchBooks DEF Offered
<1>6. Sure(d, x, n, tools)
  <2> HIDE DEF x, d, n, tools
  <2> QED BY <1>4 DEF Sure, Covered, PrefixStillHeld
<1>7. turn'.cold =
         /\ ~d.opened /\ warm = e /\ q.over = NoOverride /\ q.thinking = bk.thinking
         /\ \A k \in DOMAIN q.staged : q.staged[k].role # "assistant"
  BY DEF Dispatch
<1>8. ASSUME turn'.cold PROVE FALSE
  <2>1. /\ ~d.opened /\ warm = e /\ q.over = NoOverride /\ q.thinking = bk.thinking
        /\ \A k \in DOMAIN q.staged : q.staged[k].role # "assistant"
    BY <1>7, <1>8
  <2>2. bound = e /\ Warmed(bk, s, n, generation[e])
    <3>1. warm # NoEngine
      BY <2>1, NoEngineAssumption
    <3> QED BY <2>1, <3>1 DEF WarmOK
  <2>3. q.over.system = 0 /\ q.over.tools = -1 /\ ~PerTurn(q.api, q.over)
    BY <2>1 DEF NoOverride, PerTurn
  <2>4. d = Books(bk, e, x, q.over, q.thinking, tools, wire)
    BY <2>3, DispatchBooks DEF Offered, Wired
  <2>5. q.staged \in Seq(Stored) /\ q.thinking \in Thinking
    BY Staging
  <2>6. Unspoken(q.staged)
    <3>1. DOMAIN q.staged = 1 .. Len(q.staged)
      BY <2>5
    <3> QED BY <2>1, <3>1 DEF Unspoken
  <2>7. Unspoken(wire)
    <3>1. CASE q.api = "microphone"
      <4> DEFINE one == <<Recording>>
                 w == q.staged
      <4>1. wire = w \o one
        BY <3>1 DEF Wired
      <4>2. Recording.role # "assistant" /\ one \in Seq(Stored)
        BY Sentences, Staging
      <4>3. Len(one) = 1 /\ one[1] = Recording
        OBVIOUS
      <4> HIDE DEF one, w, wire
      <4>4. /\ Len(wire) = Len(w) + Len(one)
            /\ \A k \in 1 .. Len(w) : wire[k] = w[k]
            /\ \A k \in 1 .. Len(one) : wire[Len(w) + k] = one[k]
            /\ Len(w) \in Nat
        BY <2>5, <4>1, <4>2, Sequences DEF w
      <4>5. Unspoken(w)
        BY <2>6 DEF w
      <4>6. wire[Len(w) + 1] = Recording /\ Len(wire) = Len(w) + 1
        BY <4>3, <4>4
      <4>7. ASSUME NEW k \in 1 .. Len(wire) PROVE wire[k].role # "assistant"
        <5>1. k \in 1 .. Len(w) \/ k = Len(w) + 1
          BY <4>4, <4>6
        <5> QED BY <4>2, <4>4, <4>5, <4>6, <5>1 DEF Unspoken
      <4> QED BY <4>7 DEF Unspoken
    <3>2. CASE q.api # "microphone"
      <4>1. Len(wire) = 0
        BY <3>2 DEF Wired
      <4> HIDE DEF wire
      <4>2. \A k \in 1 .. Len(wire) : FALSE
        BY <4>1
      <4> QED BY <4>2 DEF Unspoken
    <3> QED BY <3>1, <3>2
  <2>8. \E ms \in Seq(Stored) : Unspoken(ms) /\ x = AddedAll(s, ms)
    <3>1. x = IF q.api = "microphone" THEN s ELSE AddedAll(s, q.staged)
      BY DispatchKeeps
    <3>2. <<>> \in Seq(Stored) /\ AddedAll(s, <<>>) = s
      <4>1. s \in Logs /\ Additions(<<>>) = <<>> /\ <<>> \in Seq(Stored)
        BY <1>3 DEF Sound, Additions
      <4> QED BY <4>1, ReplayAdditions, ReplayNone
    <3>3. Unspoken(<<>>)
      BY DEF Unspoken
    <3> HIDE DEF x
    <3> QED BY <2>5, <2>6, <3>1, <3>2, <3>3
  <2>9. PICK ms \in Seq(Stored) : Unspoken(ms) /\ x = AddedAll(s, ms)
    BY <2>8
  <2>10. tools = x.tools
    BY <2>3 DEF Offered
  <2> DEFINE over == q.over
             thinking == q.thinking
  <2>11. /\ thinking \in Thinking /\ thinking = bk.thinking /\ over.system = 0
         /\ d = Books(bk, e, x, over, thinking, tools, wire) /\ n = sent[e]
    BY <2>1, <2>3, <2>4, <2>5
  <2> HIDE DEF over, thinking, x, d, wire, tools, n
  <2>12. d.opened
    BY <1>3, <1>4, <2>2, <2>7, <2>9, <2>10, <2>11, WarmContinues
  <2> QED BY <2>1, <2>12
<1>9. HeardOK'
  <2>1. sent'[turn'.engine] = n
    BY <1>1
  <2> QED BY <1>5, <1>6, <1>8, <2>1 DEF HeardOK
<1> QED BY <1>2, <1>9

\* A reply of one message or none, added to books that cover the whole transcript, leaves
\* them warm.
LEMMA WarmReply ==
    ASSUME NEW x, Sound(x), NEW ms \in Seq(Stored), Len(ms) <= 1, NEW y, y = AddedAll(x, ms),
           NEW n \in Nat, n > 0, n = Len(Transcript(x, x.system)),
           NEW d, d.opened, d.own, NEW g, d.gen = g, Covered(x, d, n, x.tools)
    PROVE  Warmed(d, y, n, g)
<1> DEFINE t == Transcript(x, x.system)
           u == Transcript(y, y.system)
           old == x.tools
<1>1. t = Transcript(x, x.system) /\ u = Transcript(y, y.system) /\ n = Len(t)
  OBVIOUS
<1>2. Covered(x, d, n, old)
  OBVIOUS
<1> HIDE DEF t, u, old
<1>3. y.tools = x.tools
  BY <1>1, AddedTranscript
<1>4. Covered(y, d, n, old)
  BY <1>2, CoveredAdded
<1>5. Trailing(u, n)
  BY <1>1, TrailingReply
<1>6. old = y.tools
  BY <1>3 DEF old
<1> QED BY <1>1, <1>4, <1>5, <1>6 DEF Warmed

\* What a turn that leaves the engine warm has settled: it was acknowledged to the last
\* message it sent, of a transcript that is not empty.
LEMMA SettledWarm ==
    ASSUME Types, EnginesOK, CurrentOK, HeardOK, Complete, warm' # NoEngine,
           NEW e \in Engines, e = turn.engine
    PROVE  /\ warm' = e /\ bound' = e /\ generation' = generation
           /\ sent'[e] \in Nat /\ sent'[e] > 0 /\ sent'[e] = Len(Transcript(s, s.system))
           /\ bk'.opened /\ bk'.own /\ bk'.gen = generation[e]
           /\ Covered(s, bk', sent'[e], s.tools)
<1>1. /\ turn # NoTurn /\ turn.end \in {"answer", "call"} /\ ~turn.closes
      /\ turn.tools = s.tools /\ generation[e] = bk.gen /\ warm' = e
      /\ sent'[e] = Len(Transcript(s, s.system)) /\ sent'[e] > 0
      /\ UNCHANGED <<bound, generation>>
      /\ sent' = Settled(bk).sent /\ bk' = Settled(bk).b
  BY DEF Complete, Replied
<1>2. /\ turn \in InTurn /\ turn.got \in Nat /\ bound = e /\ Sound(s)
      /\ bk \in Bindings /\ sent \in [Engines -> Nat]
  BY <1>1 DEF Types, LogOK, TurnOK, BooksOK, InTurn
<1> DEFINE T == Transcript(s, s.system)
           n == sent'[e]
           d == bk'
           old == s.tools
<1>3. n = Len(T) /\ n > 0 /\ n \in Nat
  <2>1. T \in Seq(Msgs)
    <3>1. s.system \in 0 .. 2
      BY <1>2, SoundParts DEF Systems
    <3> QED BY <1>2, <3>1, TranscriptIs
  <2>2. Len(T) \in Nat
    BY <2>1
  <2> QED BY <1>1, <2>2
<1>4. CASE turn.got = 0
  <2>1. d = bk /\ n = sent[e]
    BY <1>1, <1>4 DEF Settled
  <2>2. bk.opened
    <3> SUFFICES ASSUME ~bk.opened PROVE FALSE
      OBVIOUS
    <3>1. InHand(turn, queue[e], runtime[e], bk, s, Excepted)
      BY <1>1 DEF CurrentOK
    <3>2. Counted(turn, queue[e], runtime[e], s)
      BY <3>1 DEF InHand, Shut
    <3>3. turn.got = Len(T)
      BY <1>1, <3>2 DEF Counted
    <3> QED BY <1>3, <1>4, <3>3
  <2>3. bk.own
    <3>1. Engine(queue[e], runtime[e], BooksOf(e), s, Excepted, Current(e), Latest(e))
      BY DEF EnginesOK, EngineOK
    <3>2. BooksOf(e) = bk
      BY <1>2 DEF BooksOf
    <3> QED BY <2>2, <3>1, <3>2 DEF Engine, Opening
  <2>4. Covered(s, bk, n, turn.tools)
    <3>1. Sure(bk, s, sent[e], turn.tools)
      BY <1>1 DEF HeardOK
    <3> HIDE DEF n
    <3> QED BY <1>3, <2>1, <2>2, <3>1 DEF Sure
  <2> HIDE DEF n, d
  <2>5. d.opened /\ d.own /\ d.gen = generation[e] /\ Covered(s, d, n, s.tools)
    BY <1>1, <2>1, <2>2, <2>3, <2>4
  <2> QED BY <1>1, <1>2, <1>3, <2>5 DEF n, d
<1>5. CASE turn.got # 0
  <2> DEFINE count == (IF bk.opened THEN sent[e] ELSE 0) + turn.got
             p == Digest(s, count, turn.tools)
  <2>1. d = [bk EXCEPT !.opened = TRUE, !.prefix = p, !.own = TRUE]
    BY <1>1, <1>5 DEF Settled
  <2>2. sent' = [sent EXCEPT ![e] = count]
    BY <1>1, <1>5 DEF Settled
  <2>3. n = count
    BY <1>2, <2>2
  <2>4. p = Digest(s, n, old)
    BY <1>1, <2>3
  <2> HIDE DEF p, n, d, old
  <2>5. d.opened = TRUE /\ d.own = TRUE /\ d.gen = bk.gen /\ d.prefix = p
    BY <1>2, <2>1 DEF Bindings
  <2>6. Covered(s, d, n, old)
    BY <1>3, <2>4, <2>5 DEF Covered
  <2>7. d.opened /\ d.own /\ d.gen = generation[e]
    BY <1>1, <2>5
  <2> QED BY <1>1, <1>2, <1>3, <2>6, <2>7 DEF n, d, old
<1> QED BY <1>2, <1>4, <1>5

LEMMA CompleteWarm ==
    ASSUME Types, EnginesOK, CurrentOK, HeardOK, Complete
    PROVE  WarmOK' /\ HeardOK'
<1>1. turn # NoTurn /\ turn' = NoTurn
  BY DEF Complete
<1>2. HeardOK'
  BY <1>1 DEF HeardOK
<1>3. Sound(s) /\ turn.engine \in Engines
  BY <1>1 DEF Types, LogOK, TurnOK, InTurn
<1>4. PICK e \in Engines : e = turn.engine
  BY <1>3
<1>5. ASSUME warm' # NoEngine PROVE WarmOK'
  <2> DEFINE y == s'
             d == bk'
             n == sent'[e]
             g == generation[e]
             old == s.tools
  <2>1. /\ warm' = e /\ bound' = e /\ generation' = generation
        /\ n \in Nat /\ n > 0 /\ n = Len(Transcript(s, s.system))
        /\ d.opened /\ d.own /\ d.gen = g /\ Covered(s, d, n, old)
    BY <1>4, <1>5, SettledWarm
  <2>2. PICK ms \in Seq(Stored) : Len(ms) <= 1 /\ y = AddedAll(s, ms)
    BY CompleteKeeps
  <2>3. Covered(s, d, n, s.tools)
    BY <2>1
  <2> HIDE DEF y, d, n, g, old
  <2>4. Warmed(d, y, n, g)
    BY <1>3, <2>1, <2>2, <2>3, WarmReply
  <2> QED BY <1>1, <2>1, <2>4 DEF WarmOK, y, d, n, g
<1>6. ASSUME warm' = NoEngine PROVE WarmOK'
  BY <1>6 DEF WarmOK
<1> QED BY <1>2, <1>5, <1>6

-----------------------------------------------------------------------------
(* Every step leaves an engine warm that was warm, or says that it is not. *)

LEMMA InitWarm == Init => WarmOK /\ HeardOK
<1> SUFFICES ASSUME Init PROVE WarmOK /\ HeardOK
  OBVIOUS
<1>1. turn = NoTurn /\ warm = NoEngine
  BY DEF Init
<1> QED BY <1>1 DEF WarmOK, HeardOK

LEMMA ElsewhereWarm ==
    ASSUME Types, WarmOK, HeardOK, Elsewhere
    PROVE  WarmOK' /\ HeardOK'
<1>1. CASE Leave \/ LeaveAsync \/ LeaveMicrophone
  BY <1>1, LeaveWarm
<1>2. CASE Cancel \/ UNCHANGED vars
  <2>1. Heard /\ UNCHANGED <<s, bk, bound, sent, generation, warm>>
    BY <1>2 DEF Cancel, vars, session, binding, Heard
  <2> QED BY <2>1, HearingWarm
<1>3. CASE Controllers
  <2>1. Heard /\ UNCHANGED <<s, bk, bound, sent, generation, warm>>
    BY <1>3, ControllersHear
  <2> QED BY <2>1, HearingWarm
<1>4. ASSUME NEW e \in Engines, Swap(e) PROVE WarmOK' /\ HeardOK'
  <2>1. Heard /\ UNCHANGED <<s, bk, bound, sent, generation, warm>>
    BY <1>4, ControllersHear
  <2> QED BY <2>1, HearingWarm
<1>5. CASE \E e \in Engines : NoteSwap(e) \/ ClearSent(e)
  BY <1>5, NotedWarm
<1> QED BY <1>1, <1>2, <1>3, <1>4, <1>5 DEF Elsewhere, Others

LEMMA WarmStep ==
    Types /\ Types' /\ EnginesOK /\ CurrentOK /\ WarmOK /\ HeardOK /\ [Next]_vars
        => WarmOK' /\ HeardOK'
<1> SUFFICES ASSUME Types, Types', EnginesOK, CurrentOK, WarmOK, HeardOK, [Next]_vars
             PROVE  WarmOK' /\ HeardOK'
  OBVIOUS
<1>1. CASE Owner
  BY <1>1, OwnerWarm
<1>2. CASE Commit
  BY <1>2, CommitWarm
<1>3. CASE Complete
  BY <1>3, CompleteWarm
<1>4. CASE Elsewhere
  BY <1>4, ElsewhereWarm
<1>5. ASSUME NEW e \in Engines, NEW q \in Requests,
             Dispatch(e, q.api, q.staged, q.over, q.thinking)
      PROVE  WarmOK' /\ HeardOK'
  BY <1>5, DispatchWarm
<1> QED BY <1>1, <1>2, <1>3, <1>4, <1>5, NextIs

\* A turn that settled leaves its engine warm: unless something else was said, edited, forked
\* or loaded since, the next turn on it with the same prompt, tools and thinking continues
\* the chat the engine holds and is never sent as a new start (note_engine,
\* prefix_still_held and tail_is_appendable in api/session.rs, and settle in api/event.rs).
THEOREM FollowUpsAreWarm == Spec => []FollowUpIsWarm
<1> DEFINE IInv == Types /\ EnginesOK /\ CurrentOK /\ WarmOK /\ HeardOK
<1>1. Init => IInv
  BY InitTypes, InitEngines, InitWarm
<1>2. IInv /\ [Next]_vars => IInv'
  <2> SUFFICES ASSUME IInv, [Next]_vars PROVE IInv'
    OBVIOUS
  <2>1. Types'
    BY TypesStep
  <2>2. EnginesOK' /\ CurrentOK'
    BY <2>1, EnginesStep
  <2>3. WarmOK' /\ HeardOK'
    BY <2>1, WarmStep
  <2> QED BY <2>1, <2>2, <2>3
<1>3. IInv => FollowUpIsWarm
  BY DEF HeardOK, FollowUpIsWarm
<1> QED BY <1>1, <1>2, <1>3, PTL DEF Spec
=============================================================================
