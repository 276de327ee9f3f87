--------------------------- MODULE RuntimeProofs ---------------------------
(* Proofs about MemoryPolicy, for every host and every model, and about the *)
(* admissions of RuntimeAdmission.                                          *)
EXTENDS RuntimeAdmission, FiniteSetTheorems, NaturalsInduction, WellFoundedInduction, TLAPS

----------------------------------------------------------------------------
(* The ceilings.                                                            *)

LEMMA LesserIs ==
    ASSUME NEW a \in Int, NEW b \in Int
    PROVE  /\ Lesser(a, b) \in Int /\ Lesser(a, b) <= a /\ Lesser(a, b) <= b
           /\ Lesser(a, b) = a \/ Lesser(a, b) = b
BY DEF Lesser

LEMMA GreaterIs ==
    ASSUME NEW a \in Int, NEW b \in Int
    PROVE  /\ Greater(a, b) \in Int /\ Greater(a, b) >= a /\ Greater(a, b) >= b
           /\ Greater(a, b) = a \/ Greater(a, b) = b
BY DEF Greater

LEMMA ReserveNat ==
    ASSUME NEW h \in Hosts
    PROVE  SystemReserve(h) \in Nat /\ PagingAllowance(h) \in Nat
<1>1. /\ h.total \in Nat /\ h.avail \in Nat /\ h.paging \in Nat
      /\ h.reserve \in Nat \cup {None}
  BY DEF Hosts
<1>2. SystemReserve(h) \in Nat
  <2>1. Within(h.total \div 16, 512, 4096) \in Nat
    BY <1>1 DEF Within, Lesser, Greater
  <2>2. (IF h.reserve = None THEN Within(h.total \div 16, 512, 4096) ELSE h.reserve) \in Nat
    BY <1>1, <2>1
  <2> QED BY <1>1, <2>2 DEF SystemReserve, Lesser, Greater
<1>3. PagingAllowance(h) \in Nat
  <2>1. h.total \div 8 \in Nat
    BY <1>1
  <2> QED BY <1>1, <2>1 DEF PagingAllowance, Lesser
<1> QED BY <1>2, <1>3

LEMMA DesktopNat ==
    ASSUME NEW h \in Hosts, NEW rss \in Nat
    PROVE  DesktopSoft(h, rss) \in Nat /\ DesktopHard(h, rss) \in Nat
           /\ DesktopSoft(h, rss) <= DesktopHard(h, rss)
<1> DEFINE reserve == SystemReserve(h)
           all == rss + h.avail + PagingAllowance(h)
           soft == Lesser(Minus(all, reserve), (h.total \div 4) * 3)
           hard == Lesser(Minus(all, reserve \div 2), Minus(h.total, reserve \div 2))
<1>1. /\ h.total \in Nat /\ h.avail \in Nat /\ h.commit \in Nat \cup {None}
  BY DEF Hosts
<1>2. reserve \in Nat /\ all \in Nat /\ reserve \div 2 \in Nat /\ h.total \div 4 \in Nat
  BY <1>1, ReserveNat
<1> HIDE DEF reserve, all
<1>3. soft \in Nat /\ hard \in Nat
  BY <1>1, <1>2 DEF Minus, Lesser, Greater
<1> HIDE DEF soft, hard
<1>4. CommitCap(h, rss, soft) \in Nat /\ CommitCap(h, rss, hard) \in Nat
  BY <1>1, <1>2, <1>3 DEF CommitCap, Minus, Lesser, Greater, reserve, None
<1>5. DesktopSoft(h, rss) = CommitCap(h, rss, soft)
  BY DEF DesktopSoft, soft, all, reserve
<1>6. DesktopHard(h, rss) = Greater(CommitCap(h, rss, hard), DesktopSoft(h, rss))
  BY DEF DesktopHard, hard, all, reserve
<1> QED BY <1>4, <1>5, <1>6 DEF Greater

LEMMA MobileNat ==
    ASSUME NEW h \in Hosts, NEW rss \in Nat
    PROVE  /\ MobileBudgets(h, rss).soft \in Nat /\ MobileBudgets(h, rss).hard \in Nat
           /\ MobileBudgets(h, rss).soft <= MobileBudgets(h, rss).hard
<1> DEFINE free == Lesser(h.avail, Minus(h.total, rss))
           soft == Lesser(Lesser(rss + free \div 2, 4608), h.total \div 2)
           hard == Lesser(Lesser(rss + (free * 3) \div 4, 6144), (h.total \div 4) * 3)
<1>1. h.total \in Nat /\ h.avail \in Nat
  BY DEF Hosts
<1>2. free \in Nat
  BY <1>1 DEF Lesser, Minus, Greater
<1> HIDE DEF free
<1>3. soft \in Nat /\ hard \in Nat
  BY <1>1, <1>2 DEF Lesser
<1>4. /\ MobileBudgets(h, rss).soft = soft
      /\ MobileBudgets(h, rss).hard = Greater(hard, soft)
  BY DEF MobileBudgets, BaseBudgets, Budgets, free
<1> HIDE DEF soft, hard
<1> QED BY <1>3, <1>4 DEF Greater

\* "Hard limit is always at or above the soft limit": whatever the host
\* reports, so the pressure levels are ordered (memory_policy.rs:170-175).
THEOREM HardAtLeastSoft ==
    ASSUME NEW h \in Hosts, NEW rss \in Nat
    PROVE  /\ SnapshotBudgets(h, rss).soft \in Nat
           /\ SnapshotBudgets(h, rss).hard \in Nat
           /\ SnapshotBudgets(h, rss).soft <= SnapshotBudgets(h, rss).hard
<1>1. CASE h.mobile
  BY <1>1, MobileNat DEF SnapshotBudgets
<1>2. CASE ~h.mobile
  BY <1>2, DesktopNat DEF SnapshotBudgets, Budgets
<1> QED BY <1>1, <1>2

\* The second guard of an admission follows from the first: what keeps the
\* process under its soft limit finds the pressure below severe, on every host
\* (memory_governor.rs:131-146).
THEOREM GuardImpliesPressure ==
    ASSUME NEW h \in Hosts, NEW rss \in Nat, NEW extra \in Nat,
           NEW budget \in Nat \cup {None},
           ProcessAllows(Governor(h, rss, budget), extra)
    PROVE  PressureAllows(Governor(h, rss, budget))
<1> DEFINE b == SnapshotBudgets(h, rss)
<1>1. b.soft \in Nat /\ b.hard \in Nat /\ b.soft <= b.hard
  BY HardAtLeastSoft
<1>2. b = [soft |-> b.soft, hard |-> b.hard, inference |-> b.inference]
  BY DEF SnapshotBudgets, MobileBudgets, Budgets
<1>3. /\ Governor(h, rss, budget).rss = rss
      /\ Governor(h, rss, budget).pressure = Pressure(rss, b)
      /\ Governor(h, rss, budget).budgets.soft = b.soft
  BY <1>2 DEF Governor
<1> HIDE DEF b
<1>4. rss < b.soft
  BY <1>1, <1>3 DEF ProcessAllows
<1>5. Pressure(rss, b) \in {Normal, Constrained}
  BY <1>1, <1>4 DEF Pressure
<1> QED BY <1>3, <1>5 DEF PressureAllows, Severe, Normal, Constrained

\* Loading weights does not lower the ceiling they are measured against: the
\* host's memory moves into the process, the soft limit stays
\* (memory_snapshot.rs:104-107).  CeilingHolds for every host without paging.
THEOREM CeilingStable ==
    ASSUME NEW before \in Hosts, NEW after \in Hosts, NEW rss \in Nat, NEW grown \in Nat,
           ~before.mobile, rss <= grown,
           after = [before EXCEPT !.avail = after.avail],
           rss + before.avail <= grown + after.avail,
           before.commit = None
    PROVE  SnapshotBudgets(before, rss).soft <= SnapshotBudgets(after, grown).soft
<1>1. /\ after.total = before.total /\ after.mobile = before.mobile
      /\ after.commit = None /\ after.reserve = before.reserve
      /\ before.total \in Nat /\ before.avail \in Nat /\ after.avail \in Nat
  BY DEF Hosts
<1>2. SystemReserve(after) = SystemReserve(before) /\ SystemReserve(before) \in Nat
  BY <1>1, ReserveNat DEF SystemReserve
<1>3. PagingAllowance(before) = 0 /\ PagingAllowance(after) = 0
  BY <1>1 DEF PagingAllowance
<1> DEFINE cap == (before.total \div 4) * 3
           reserve == SystemReserve(before)
<1>4. cap \in Nat
  BY <1>1
<1>5. /\ DesktopSoft(before, rss) = Lesser(Minus(rss + before.avail + 0, reserve), cap)
      /\ DesktopSoft(after, grown) = Lesser(Minus(grown + after.avail + 0, reserve), cap)
  BY <1>1, <1>2, <1>3 DEF DesktopSoft, CommitCap
<1> HIDE DEF cap, reserve
<1>6. reserve \in Nat
  BY <1>2 DEF reserve
<1>7. DesktopSoft(before, rss) <= DesktopSoft(after, grown)
  BY <1>1, <1>4, <1>5, <1>6 DEF Lesser, Minus, Greater
<1> QED BY <1>1, <1>7 DEF SnapshotBudgets, Budgets

\* On a phone "a large process cannot create room by growing": what is left
\* below the soft limit only shrinks while the process takes memory the host
\* had free (memory_snapshot.rs:82-87).
THEOREM RoomShrinks ==
    ASSUME NEW before \in Hosts, NEW after \in Hosts, NEW rss \in Nat, NEW more \in Nat,
           before.mobile, after = [before EXCEPT !.avail = after.avail],
           after.avail + more = before.avail
    PROVE  SnapshotBudgets(after, rss + more).soft - (rss + more)
              <= SnapshotBudgets(before, rss).soft - rss
<1> DEFINE total == before.total
           free1 == Lesser(before.avail, Minus(total, rss))
           free2 == Lesser(after.avail, Minus(total, rss + more))
<1>1. /\ after.total = total /\ after.mobile
      /\ total \in Nat /\ before.avail \in Nat /\ after.avail \in Nat
  BY DEF Hosts
<1>2. /\ SnapshotBudgets(before, rss).soft
            = Lesser(Lesser(rss + free1 \div 2, 4608), total \div 2)
      /\ SnapshotBudgets(after, rss + more).soft
            = Lesser(Lesser(rss + more + free2 \div 2, 4608), total \div 2)
  BY <1>1 DEF SnapshotBudgets, MobileBudgets, BaseBudgets, Budgets
<1>3. free1 \in Nat /\ free2 \in Nat /\ free2 <= free1
  BY <1>1 DEF Lesser, Minus, Greater
<1> HIDE DEF total, free1, free2
<1>4. total \in Nat
  BY <1>1
<1> QED BY <1>2, <1>3, <1>4 DEF Lesser

----------------------------------------------------------------------------
(* Plans.                                                                   *)

LEMMA NeededNat ==
    ASSUME NEW info \in Infos, NEW context \in Nat
    PROVE  /\ Needed(info, context) \in Nat /\ Kv(info) \in Nat
           /\ Needed(info, context) = Needed(info, 0) + Kv(info) * context
<1>1. info.file \in Nat /\ info.kv \in Nat \cup {None}
  BY DEF Infos
<1>2. Kv(info) \in Nat
  BY <1>1 DEF Kv, Or, AssumedKv
<1>3. Kv(info) * context \in Nat /\ Kv(info) * 0 = 0
  BY <1>2
<1>4. (IF info.kv = None THEN (info.file * 6) \div 5 ELSE info.file) \in Nat
  BY <1>1
<1> QED BY <1>2, <1>3, <1>4 DEF Needed, Overhead

LEMMA PlanTotalNat ==
    ASSUME NEW info \in Infos, NEW weights \in Nat, NEW context \in Nat,
           NEW sessions \in Nat, NEW vision \in BOOLEAN
    PROVE  PlanTotal(info, weights, context, sessions, vision) \in Nat \ {0}
<1> DEFINE fixed == Needed(info, 0)
           cache == (Needed(info, context) - fixed) * Greater(sessions, 1)
           work == UpTo(fixed - info.file, 1024)
<1>1. fixed \in Nat /\ info.file \in Nat
  BY NeededNat DEF Infos
<1>2. Needed(info, context) - fixed \in Nat
  <2>1. Kv(info) * context \in Nat
    BY NeededNat
  <2> QED BY <1>1, <2>1, NeededNat
<1>3. Greater(sessions, 1) \in Nat
  BY DEF Greater
<1>4. cache \in Nat
  BY <1>2, <1>3
<1> HIDE DEF cache
<1>5. UpTo(cache, 1024) \in Nat
  BY <1>4 DEF UpTo
<1>6. work \in Int
  BY <1>1 DEF UpTo
<1> HIDE DEF work
<1>7. Greater(work, 500) \in Nat /\ Greater(work, 500) >= 500
  BY <1>6 DEF Greater
<1>8. PlanTotal(info, weights, context, sessions, vision)
        = weights + UpTo(cache, 1024) + (Greater(work, 500) + (IF vision THEN 1024 ELSE 0))
  BY DEF PlanTotal, cache, work
<1> QED BY <1>5, <1>7, <1>8

LEMMA PlanContextNat ==
    ASSUME NEW info \in Infos, NEW weights, NEW request \in Nat \cup {None},
           NEW sessions, NEW vision, NEW budget
    PROVE  PlanContext(info, weights, request, sessions, vision, budget) \in Nat
<1>1. info.train \in Nat \cup {None}
  BY DEF Infos
<1>2. Lesser(4096, Or(info.train, 4096)) \in Nat
  BY <1>1 DEF Lesser, Or
<1>3. Or(request, Lesser(4096, Or(info.train, 4096))) \in Nat
  BY <1>2 DEF Or
<1> QED BY <1>3 DEF PlanContext

\* A plan asks for something, and for no more than the budget it was made
\* for, the share of a draft model included (residency_policy.rs:115-137,
\* 216-274).
THEOREM PlanWithinBudget ==
    ASSUME NEW info \in Infos, NEW weights \in Nat,
           NEW request \in Nat \cup {None}, NEW sessions \in Nat, NEW vision \in BOOLEAN,
           NEW draft \in Nat, NEW budget \in Nat,
           Plan(info, weights, request, sessions, vision, draft, budget) # None
    PROVE  /\ Plan(info, weights, request, sessions, vision, draft, budget) \in Nat \ {0}
           /\ Plan(info, weights, request, sessions, vision, draft, budget) <= budget
<1> DEFINE left == Minus(budget, draft)
           context == PlanContext(info, weights, request, sessions, vision, left)
           own == PlanTotal(info, weights, context, sessions, vision)
<1>1. left \in Nat /\ (left = 0 \/ left + draft = budget)
  BY DEF Minus, Greater
<1>2. own \in Nat \ {0}
  <2>1. context \in Nat
    BY PlanContextNat
  <2>2. PlanTotal(info, weights, context, sessions, vision) \in Nat \ {0}
    <3> HIDE DEF context, left
    <3> QED BY <2>1, PlanTotalNat, Zenon
  <2> QED BY <2>2
<1>3. Plan(info, weights, request, sessions, vision, draft, budget)
        = IF own <= left THEN own + draft ELSE None
  BY DEF Plan
<1> HIDE DEF own, left
<1> QED BY <1>1, <1>2, <1>3

\* The advice of a fit is honest: a model whose header says what a token costs
\* fits with the largest context the function names, unless that is the floor
\* of 2048 (fit.rs:150-156); and whoever is told that only the context is too
\* large is told of a context that fits.
THEOREM AdviceIsHonest ==
    ASSUME NEW info \in Infos, NEW budget \in Nat, NEW request \in Nat \cup {None}
    PROVE  /\ (info.kv # None /\ MaxContext(info, budget, 1) > 2048)
                 => FitVerdict(info, budget, None) = "Fits"
           /\ FitVerdict(info, budget, request) = "ContextTooLarge"
                 => FitVerdict(info, budget, MaxContext(info, budget, 1)) = "Fits"
<1> DEFINE largest == MaxContext(info, budget, 1)
           cost == Kv(info)
           room == Minus(Minus(budget, info.file), Overhead)
<1>1. info.file \in Nat /\ cost \in Nat
  BY DEF Infos, Kv, Or, AssumedKv
<1>2. room \in Nat /\ (room = 0 \/ room + Overhead + info.file = budget)
  BY <1>1 DEF Minus, Greater, Overhead
<1>3. Greater(cost * Greater(1, 1), 1) \in Nat \ {0}
  BY <1>1 DEF Greater
<1> DEFINE unit == Greater(cost * Greater(1, 1), 1)
           tokens == room \div unit
<1>4. tokens \in Nat /\ unit * tokens <= room
  BY <1>2, <1>3
<1>5. cost <= unit
  BY <1>1 DEF Greater
<1>6. /\ largest \in Nat
      /\ largest > 2048 => largest <= tokens
  <2>1. (tokens \div 1024) * 1024 \in Nat /\ (tokens \div 1024) * 1024 <= tokens
    BY <1>4
  <2>2. Or(info.train, 4096) \in Nat
    BY DEF Infos, Or
  <2>3. largest = Lesser(Greater((tokens \div 1024) * 1024, 2048),
                         Greater(Or(info.train, 4096), 2048))
    BY DEF MaxContext, FitContext
  <2> HIDE DEF largest, tokens
  <2> QED BY <1>4, <2>1, <2>2, <2>3 DEF Lesser, Greater
<1>7. ASSUME info.kv # None, largest > 2048
      PROVE  FitVerdict(info, budget, None) = "Fits"
  <2>1. cost * largest <= unit * tokens
    <3> HIDE DEF largest, tokens, unit, cost
    <3>1. unit \in Nat /\ tokens \in Nat
      BY <1>3, <1>4 DEF unit
    <3>2. cost * largest <= unit * largest
      BY <1>1, <1>5, <1>6, <3>1
    <3>3. unit * largest <= unit * tokens
      BY <1>6, <1>7, <3>1
    <3> QED BY <1>1, <1>6, <3>1, <3>2, <3>3
  <2>2. room > 0
    <3>1. tokens > 0
      BY <1>4, <1>6, <1>7
    <3> HIDE DEF tokens, room, unit
    <3> QED BY <1>2, <1>3, <1>4, <3>1 DEF unit
  <2>3. Needed(info, largest) = info.file + Overhead + cost * largest
    BY <1>7 DEF Needed
  <2>4. cost * largest \in Nat
    BY <1>1, <1>6
  <2> HIDE DEF largest, cost, room, unit, tokens
  <2>5. unit * tokens <= room
    BY <1>4
  <2>6. unit * tokens \in Nat
    BY <1>3, <1>4 DEF unit
  <2>7. Needed(info, largest) <= budget /\ info.file < budget
    BY <1>1, <1>2, <2>1, <2>2, <2>3, <2>4, <2>5, <2>6 DEF Overhead
  <2>8. Needed(info, largest) \in Nat
    BY <1>6, NeededNat DEF largest
  <2>9. Or(None, largest) = largest
    BY DEF Or
  <2> QED BY <1>1, <2>7, <2>8, <2>9 DEF FitVerdict, largest
<1>8. ASSUME FitVerdict(info, budget, request) = "ContextTooLarge"
      PROVE  FitVerdict(info, budget, largest) = "Fits"
  <2>1. largest # None
    BY <1>6 DEF None
  <2>2. Needed(info, largest) \in Nat
    BY <1>6, NeededNat
  <2>3. Or(request, largest) \in Nat
    BY <1>6 DEF Or
  <2>4. Needed(info, Or(request, largest)) \in Nat
    BY <2>3, NeededNat
  <2>5. FitVerdict(info, budget, largest)
          = IF info.file >= budget THEN "TooLarge"
            ELSE IF Needed(info, largest) <= budget THEN "Fits" ELSE "TooLarge"
    <3> HIDE DEF largest
    <3> QED BY <1>1, <2>1, <2>2 DEF FitVerdict, Or, largest
  <2>6. /\ ~(info.file >= budget)
        /\ ~(Needed(info, Or(request, largest)) > budget
              /\ Needed(info, largest) > budget)
    <3> HIDE DEF largest
    <3> QED BY <1>1, <1>8, <2>2, <2>4 DEF FitVerdict, largest
  <2>7. Needed(info, Or(request, largest)) > budget
    <3> HIDE DEF largest
    <3> QED BY <1>1, <1>8, <2>2, <2>4, <2>6 DEF FitVerdict, largest
  <2> HIDE DEF largest
  <2> QED BY <1>1, <2>2, <2>5, <2>6, <2>7
<1> QED BY <1>7, <1>8

\* What a load plans for is admitted: a plan made for the room beside the
\* ledger passes every check of the admission that follows it, as long as the
\* host has not changed between the two (runtime.rs:840-861).
THEOREM PlannedIsAdmitted ==
    ASSUME NEW h \in Hosts, NEW rss \in Nat, NEW budget \in Nat \cup {None},
           NEW held \in Nat, NEW total \in Nat \ {0},
           total <= AvailableBeside(Governor(h, rss, budget), held)
    PROVE  Allows(Governor(h, rss, budget), held, total)
<1> DEFINE g == Governor(h, rss, budget)
           b == SnapshotBudgets(h, rss)
<1>1. b.soft \in Nat /\ b.hard \in Nat
  BY HardAtLeastSoft
<1>2. b.inference \in Nat
  <2>1. CASE ~h.mobile
    BY <2>1, <1>1 DEF SnapshotBudgets, Budgets
  <2>2. CASE h.mobile
    <3>1. b.inference = EffectiveBudgets(h).inference
      BY <2>2 DEF SnapshotBudgets, MobileBudgets, Budgets
    <3> DEFINE base == BaseBudgets(MachineTier(h))
               soft == Lesser(base.soft, h.avail \div 2)
    <3>2. base.soft \in Nat \ {0} /\ base.inference \in Nat
      BY DEF BaseBudgets, Budgets
    <3>3. soft \in Nat
      BY <3>2 DEF Lesser, Hosts
    <3>4. (base.inference * soft) \in Nat
      BY <3>2, <3>3
    <3>5. (base.inference * soft) \div base.soft \in Int
      BY <3>2, <3>4
    <3>6. Greater((base.inference * soft) \div base.soft, 1) \in Nat
      BY <3>5 DEF Greater
    <3>7. \/ EffectiveBudgets(h).inference = base.inference
          \/ EffectiveBudgets(h).inference
               = Greater((base.inference * soft) \div base.soft, 1)
      BY DEF EffectiveBudgets, Budgets
    <3> QED BY <3>1, <3>2, <3>6, <3>7
  <2> QED BY <2>1, <2>2
<1>3. b = [soft |-> b.soft, hard |-> b.hard, inference |-> b.inference]
  BY DEF SnapshotBudgets, MobileBudgets, Budgets
<1>4. /\ g.rss = rss /\ g.budgets.soft = b.soft
      /\ g.budgets.inference \in Nat
  <2>1. g.rss = rss /\ g.budgets = IF budget = None THEN b ELSE [b EXCEPT !.inference = budget]
    BY DEF Governor
  <2> QED BY <1>2, <1>3, <2>1
<1> HIDE DEF g, b
<1>5. /\ total <= g.budgets.inference - held
      /\ total <= b.soft - rss - 1
  BY <1>1, <1>4 DEF AvailableBeside, AvailableForModel, Minus, Greater, Lesser, g
<1>6. ProcessAllows(g, total)
  BY <1>1, <1>4, <1>5 DEF ProcessAllows
<1>7. PressureAllows(g)
  BY <1>6, GuardImpliesPressure DEF g
<1> QED BY <1>4, <1>5, <1>6, <1>7 DEF Allows, g
----------------------------------------------------------------------------
(* The sum over everything that holds memory.                               *)

Held == Ids \cup Workers

LEMMA LeastNat ==
    ASSUME NEW T \in SUBSET Nat, T # {}
    PROVE  \E n \in T : \A m \in T : n <= m
<1> DEFINE R == OpToRel(<, Nat)
<1>1. IsWellFoundedOn(R, Nat)
  BY NatLessThanWellFounded
<1>2. \E x \in T : \A y \in T : ~ (<<y, x>> \in R)
  <2> HIDE DEF R
  <2> QED BY <1>1, WFMin
<1>3. \A x, y \in Nat : y < x => <<y, x>> \in R
  BY DEF OpToRel
<1> HIDE DEF R
<1>4. PICK x \in T : \A y \in T : ~ (<<y, x>> \in R)
  BY <1>2
<1>5. \A y \in T : ~ (y < x)
  BY <1>3, <1>4
<1> QED BY <1>4, <1>5

\* The partial sums of a sequence of amounts exist: the recursive definition
\* of Total has a value.
LEMMA SumsExist ==
    ASSUME NEW N \in Nat, NEW v, \A n \in 1 .. N : v[n] \in Nat
    PROVE  \E s \in [0 .. N -> Nat] :
              s[0] = 0 /\ \A n \in 1 .. N : s[n] = s[n - 1] + v[n]
<1> DEFINE Sums(k, s) == /\ s \in [0 .. k -> Nat] /\ s[0] = 0
                         /\ \A n \in 1 .. k : s[n] = s[n - 1] + v[n]
           Without == {k \in 0 .. N : ~ \E s : Sums(k, s)}
<1>1. SUFFICES ASSUME Without # {} PROVE FALSE
  <2>1. N \notin Without => \E s : Sums(N, s)
    OBVIOUS
  <2> QED BY <2>1
<1>2. PICK k \in Without : \A m \in Without : k <= m
  <2>1. Without \in SUBSET Nat
    OBVIOUS
  <2> HIDE DEF Without
  <2> QED BY <1>1, <2>1, LeastNat
<1>3. k # 0
  <2>1. Sums(0, [n \in 0 .. 0 |-> 0])
    OBVIOUS
  <2> QED BY <1>2, <2>1
<1>4. k - 1 \in 0 .. N /\ k - 1 \notin Without
  <2>1. k \in 0 .. N
    OBVIOUS
  <2>2. k - 1 \in 0 .. N /\ ~ (k <= k - 1)
    BY <1>3, <2>1
  <2> HIDE DEF Without
  <2> QED BY <1>2, <2>2
<1>5. PICK s : Sums(k - 1, s)
  BY <1>4
<1> DEFINE t == [n \in 0 .. k |-> IF n = k THEN s[k - 1] + v[k] ELSE s[n]]
<1>6. Sums(k, t)
  <2>1. k \in 1 .. N /\ v[k] \in Nat /\ s[k - 1] \in Nat
    BY <1>2, <1>3, <1>5
  <2>2. t \in [0 .. k -> Nat] /\ t[0] = 0
    BY <1>3, <1>5, <2>1
  <2>3. ASSUME NEW n \in 1 .. k
        PROVE  t[n] = t[n - 1] + v[n]
    BY <1>5, <2>1
  <2> QED BY <2>2, <2>3
<1> QED BY <1>2, <1>6

LEMMA HoldersAre ==
    /\ Cardinality(Held) \in Nat
    /\ Holders \in [1 .. Cardinality(Held) -> Held] /\ Len(Holders) = Cardinality(Held)
    /\ \A i, j \in 1 .. Len(Holders) : Holders[i] = Holders[j] => i = j
<1> DEFINE n == Cardinality(Held)
<1>1. n \in Nat /\ ExistsBijection(1 .. n, Held)
  BY FS_CardinalityType, RuntimeAssumption DEF RuntimeAssumption, Held
<1>2. \E f \in [1 .. n -> Held] : IsInjective(f)
  <2> HIDE DEF n
  <2> QED BY <1>1 DEF ExistsBijection, Bijection, Injection, IsInjective
<1>3. Holders \in [1 .. n -> Held] /\ IsInjective(Holders)
  BY <1>2 DEF Holders, SetToSeq, Held
<1> HIDE DEF n
<1>4. Len(Holders) = n
  BY <1>1, <1>3
<1> QED BY <1>1, <1>3, <1>4 DEF IsInjective, n

\* Total is the last of the partial sums.
LEMMA TotalIs ==
    ASSUME NEW a \in [Held -> Nat]
    PROVE  \E s \in [0 .. Len(Holders) -> Nat] :
              /\ s[0] = 0
              /\ \A n \in 1 .. Len(Holders) : s[n] = s[n - 1] + a[Holders[n]]
              /\ Total(a) = s[Len(Holders)]
<1> DEFINE N == Len(Holders)
           v == [n \in 1 .. N |-> a[Holders[n]]]
           sum[n \in 0 .. N] == IF n = 0 THEN 0 ELSE sum[n - 1] + a[Holders[n]]
<1>1. N \in Nat /\ \A n \in 1 .. N : Holders[n] \in Held /\ a[Holders[n]] \in Nat
  BY HoldersAre
<1>2. PICK s \in [0 .. N -> Nat] : s[0] = 0 /\ \A n \in 1 .. N : s[n] = s[n - 1] + v[n]
  <2>1. \A n \in 1 .. N : v[n] \in Nat
    BY <1>1
  <2> HIDE DEF v, N
  <2> QED BY <1>1, <2>1, SumsExist
<1>3. s = [n \in 0 .. N |-> IF n = 0 THEN 0 ELSE s[n - 1] + a[Holders[n]]]
  <2> HIDE DEF N
  <2> QED BY <1>1, <1>2
<1>4. sum = [n \in 0 .. N |-> IF n = 0 THEN 0 ELSE sum[n - 1] + a[Holders[n]]]
  <2> HIDE DEF N
  <2> QED BY <1>3 DEF sum
<1>5. Total(a) = sum[N]
  BY DEF Total
<1> HIDE DEF sum
<1>6. sum \in [0 .. N -> Nat]
  <2> HIDE DEF N
  <2> DEFINE Off == {n \in 0 .. N : sum[n] # s[n]}
  <2>1. Off = {}
    <3>1. SUFFICES ASSUME Off # {} PROVE FALSE
      OBVIOUS
    <3>2. PICK n \in Off : \A m \in Off : n <= m
      <4>1. Off \in SUBSET Nat
        BY <1>1
      <4> HIDE DEF Off
      <4> QED BY <3>1, <4>1, LeastNat
    <3>3. n # 0
      BY <1>2, <1>4
    <3>4. n - 1 \in 0 .. N /\ n - 1 \notin Off
      BY <1>1, <3>2, <3>3
    <3> QED BY <1>1, <1>2, <1>4, <3>2, <3>3, <3>4
  <2> QED BY <1>1, <1>2, <1>4, <2>1
<1> HIDE DEF N
<1>7. sum[0] = 0 /\ \A n \in 1 .. N : sum[n] = sum[n - 1] + a[Holders[n]]
  BY <1>1, <1>4
<1> QED BY <1>5, <1>6, <1>7 DEF N

\* A sum grows by no more than what is put on one holder.
LEMMA TotalGrowth ==
    ASSUME NEW a \in [Held -> Nat], NEW b \in [Held -> Nat], NEW x, NEW more \in Nat,
           \A y \in Held : b[y] <= a[y] + (IF y = x THEN more ELSE 0)
    PROVE  Total(a) \in Nat /\ Total(b) \in Nat /\ Total(b) <= Total(a) + more
<1> DEFINE N == Len(Holders)
<1>1. N \in Nat /\ \A n \in 1 .. N : Holders[n] \in Held
  BY HoldersAre
<1>2. PICK s \in [0 .. N -> Nat] :
         /\ s[0] = 0 /\ Total(a) = s[N]
         /\ \A n \in 1 .. N : s[n] = s[n - 1] + a[Holders[n]]
  BY TotalIs
<1>3. PICK t \in [0 .. N -> Nat] :
         /\ t[0] = 0 /\ Total(b) = t[N]
         /\ \A n \in 1 .. N : t[n] = t[n - 1] + b[Holders[n]]
  BY TotalIs
\* Up to n, the holder x may or may not have been met.
<1> DEFINE Met(n) == \E k \in 1 .. n : Holders[k] = x
           Above == {n \in 0 .. N : ~ (t[n] <= s[n] + (IF Met(n) THEN more ELSE 0))}
<1>4. Above = {}
  <2>1. SUFFICES ASSUME Above # {} PROVE FALSE
    OBVIOUS
  <2>2. PICK n \in Above : \A m \in Above : n <= m
    <3>1. Above \in SUBSET Nat
      BY <1>1
    <3> HIDE DEF Above
    <3> QED BY <2>1, <3>1, LeastNat
  <2> HIDE DEF N
  <2>3. n # 0
    BY <1>1, <1>2, <1>3
  <2>4. n \in 1 .. N /\ n - 1 \in 0 .. N /\ n - 1 \notin Above
    BY <1>1, <2>2, <2>3
  <2>5. t[n - 1] <= s[n - 1] + (IF Met(n - 1) THEN more ELSE 0)
    BY <2>4
  <2>6. /\ s[n] = s[n - 1] + a[Holders[n]] /\ t[n] = t[n - 1] + b[Holders[n]]
        /\ b[Holders[n]] <= a[Holders[n]] + (IF Holders[n] = x THEN more ELSE 0)
    BY <1>1, <1>2, <1>3, <2>4
  <2>7. /\ s[n - 1] \in Nat /\ t[n - 1] \in Nat
        /\ a[Holders[n]] \in Nat /\ b[Holders[n]] \in Nat
    BY <1>1, <1>2, <1>3, <2>4
  <2>8. Holders[n] = x => ~Met(n - 1)
    BY HoldersAre, <1>1, <2>4 DEF N
  <2>9. Met(n) <=> (Met(n - 1) \/ Holders[n] = x)
    <3> HIDE DEF Above
    <3>1. n \in Nat /\ n >= 1
      BY <1>1, <2>4
    <3>2. 1 .. n = (1 .. n - 1) \cup {n}
      BY <3>1
    <3> QED BY <3>2
  <2>10. ~ (t[n] <= s[n] + (IF Met(n) THEN more ELSE 0))
    BY <2>2
  <2> HIDE DEF Met, Above
  <2>11. CASE Holders[n] = x
    BY <2>5, <2>6, <2>7, <2>8, <2>9, <2>10, <2>11
  <2>12. CASE Holders[n] # x /\ Met(n - 1)
    BY <2>5, <2>6, <2>7, <2>9, <2>10, <2>12
  <2>13. CASE Holders[n] # x /\ ~Met(n - 1)
    BY <2>5, <2>6, <2>7, <2>9, <2>10, <2>13
  <2> QED BY <2>11, <2>12, <2>13
<1>5. N \in 0 .. N /\ s[N] \in Nat /\ t[N] \in Nat
  BY <1>1
<1> HIDE DEF N, Met
<1> QED BY <1>2, <1>3, <1>4, <1>5

----------------------------------------------------------------------------
(* Image jobs.                                                              *)

Holding == {"room", "deciding", "loading"}

CallRecords ==
    [at : Stages, op : Ops, id : Ids \cup Workers \cup {Nobody}, need : Nat]

Types ==
    /\ known \subseteq Ids
    /\ resident \in [Ids -> BOOLEAN]
    /\ charge \in [Ids -> Nat]
    /\ job \in [Images -> {"none", "running", "ended"}]
    /\ call \in [Callers -> CallRecords]

\* A call names what its operation is about.
OpsFit ==
    \A c \in Callers :
       /\ call[c].op \in {"load", "turn", "preload", "evict"} => call[c].id \in Texts
       /\ call[c].op \in {"loadImage", "job", "preloadImage", "evictImage"}
             => call[c].id \in Images
       /\ call[c].op = "reserve" => call[c].id \in Workers

\* Who makes room, decides or loads holds the lock; a job that asked for no
\* memory found its context there, and no other step takes it away meanwhile.
Admissions ==
    \A c \in Callers :
       call[c].at \in Holding =>
          /\ lock = c
          /\ (call[c].op = "job" /\ call[c].need = 0) => resident[call[c].id]

JInv == Types /\ OpsFit /\ Admissions /\ JobKeepsItsContext

LEMMA AskedNat ==
    ASSUME Types, OpsFit, NEW c \in Callers, Fits(c)
    PROVE  Asks(c) \in Nat
<1>1. CASE call[c].op = "load"
  <2> DEFINE m == call[c].id
             left == Minus(AvailableBeside(MemoryGovernor, Ledger), 0)
             own == PlanTotal(Info[m], Weights[m],
                      PlanContext(Info[m], Weights[m], None, 1, FALSE, left), 1, FALSE)
  <2>1. Info[m] \in Infos /\ Weights[m] \in Nat
    BY <1>1, RuntimeAssumption DEF RuntimeAssumption, OpsFit
  <2>2. own \in Nat
    <3> DEFINE context == PlanContext(Info[m], Weights[m], None, 1, FALSE, left)
    <3>1. context \in Nat
      BY <2>1, PlanContextNat
    <3>2. 1 \in Nat /\ FALSE \in BOOLEAN
      OBVIOUS
    <3>3. PlanTotal(Info[m], Weights[m], context, 1, FALSE) \in Nat
      <4> HIDE DEF context, m
      <4> QED BY <2>1, <3>1, <3>2, PlanTotalNat, Zenon
    <3> QED BY <3>3
  <2>3. Asks(c) = IF own <= left THEN own + 0 ELSE None
    BY <1>1 DEF Asks, PlanOf, Plan
  <2>4. Asks(c) # None
    BY DEF Fits
  <2> HIDE DEF own, left
  <2> QED BY <2>2, <2>3, <2>4
<1>2. CASE call[c].op # "load"
  BY <1>2 DEF Types, CallRecords, Asks
<1> QED BY <1>1, <1>2

\* Moving a call on, with or without a new amount, keeps it a call.
LEMMA MovedCall ==
    ASSUME NEW r \in CallRecords, NEW s \in Stages, NEW n \in Nat
    PROVE  /\ [r EXCEPT !.at = s, !.need = n] \in CallRecords
           /\ [r EXCEPT !.at = s] \in CallRecords
           /\ Quiet \in CallRecords
BY DEF CallRecords, Quiet, Stages, Ops

USE RuntimeAssumption DEF RuntimeAssumption, Stages, Ops, Holding, Quiet, Ids

LEMMA IdealNat ==
    ASSUME NEW m \in Texts
    PROVE  Ideal(m) \in Nat
<1>1. Info[m] \in Infos /\ Weights[m] \in Nat
  OBVIOUS
<1>2. Lesser(4096, Or(Info[m].train, 4096)) \in Nat
  BY <1>1 DEF Infos, Lesser, Or
<1> DEFINE context == Lesser(4096, Or(Info[m].train, 4096))
<1>3. ASSUME NEW v \in BOOLEAN
      PROVE  PlanTotal(Info[m], Weights[m], context, 1, v) \in Nat
  <2>1. context \in Nat /\ 1 \in Nat
    BY <1>2
  <2> HIDE DEF context
  <2> QED BY <1>1, <2>1, PlanTotalNat, Zenon
<1> HIDE DEF context
<1>4. PlanTotal(Info[m], Weights[m], context, 1, FALSE) \in Nat
  BY <1>3
<1>5. Ideal(m) = PlanTotal(Info[m], Weights[m], context, 1, FALSE)
  BY Zenon DEF Ideal, context
<1> QED BY <1>4, <1>5, Zenon

LEMMA AskKeeps ==
    ASSUME JInv, NEW c \in Callers, NEW op \in Ops, NEW x \in Ids \cup Workers, Ask(c, op, x)
    PROVE  JInv'
BY DEF JInv, Types, CallRecords, OpsFit, Admissions, JobKeepsItsContext, Ask, Applies

LEMMA EnterLoadKeeps ==
    ASSUME JInv, NEW c \in Callers, EnterLoad(c)
    PROVE  JInv'
<1> USE DEF JInv, EnterLoad, Enter, Makes, Keep, Victims, Evictable, Busy, At, Done, Retired,
            UnloadText
<1>a. Ideal(call[c].id) \in Nat /\ call[c] \in CallRecords
  BY IdealNat DEF OpsFit, Types
<1>b. [call[c] EXCEPT !.at = "room", !.need = Ideal(call[c].id)] \in CallRecords
  BY <1>a, MovedCall
<1>c. call' = [call EXCEPT ![c] = [call[c] EXCEPT !.at = "room", !.need = Ideal(call[c].id)]]
  BY DEF Types
<1>d. call' \in [Callers -> CallRecords]
  BY <1>b, <1>c DEF Types
<1>1. Types'
  BY <1>d DEF Types, OpsFit
<1>2. OpsFit'
  BY DEF Types, OpsFit, CallRecords
<1>3. Admissions'
  BY DEF Types, OpsFit, Admissions, CallRecords
<1>4. JobKeepsItsContext'
  BY DEF Types, CallRecords, OpsFit, Admissions, JobKeepsItsContext
<1> QED BY <1>1, <1>2, <1>3, <1>4

LEMMA EnterReserveKeeps ==
    ASSUME JInv, NEW c \in Callers, EnterReserve(c)
    PROVE  JInv'
<1> USE DEF JInv, EnterReserve, Enter, Makes, Keep, Victims, Evictable, Busy, At, Done, Retired,
            UnloadText
<1>a. Peak[call[c].id] \in Nat /\ call[c] \in CallRecords
  BY DEF OpsFit, Types
<1>b. [call[c] EXCEPT !.at = "room", !.need = Peak[call[c].id]] \in CallRecords
  BY <1>a, MovedCall
<1>c. call' = [call EXCEPT ![c] = [call[c] EXCEPT !.at = "room", !.need = Peak[call[c].id]]]
  BY DEF Types
<1>d. call' \in [Callers -> CallRecords]
  BY <1>b, <1>c DEF Types
<1>1. Types'
  BY <1>d DEF Types, OpsFit
<1>2. OpsFit'
  BY DEF Types, OpsFit, CallRecords
<1>3. Admissions'
  BY DEF Types, OpsFit, Admissions, CallRecords
<1>4. JobKeepsItsContext'
  BY DEF Types, CallRecords, OpsFit, Admissions, JobKeepsItsContext
<1> QED BY <1>1, <1>2, <1>3, <1>4

LEMMA EnterRestoreKeeps ==
    ASSUME JInv, NEW c \in Callers, EnterRestore(c)
    PROVE  JInv'
<1> USE DEF JInv, EnterRestore, Enter, Makes, Keep, Victims, Evictable, Busy, At, Done, Retired,
            UnloadText
<1>a. charge[call[c].id] \in Nat /\ call[c] \in CallRecords
  BY DEF OpsFit, Types
<1>b. [call[c] EXCEPT !.at = "room", !.need = charge[call[c].id]] \in CallRecords
  BY <1>a, MovedCall
<1>c. call' = [call EXCEPT ![c] = [call[c] EXCEPT !.at = "room", !.need = charge[call[c].id]]]
  BY DEF Types
<1>d. call' \in [Callers -> CallRecords]
  BY <1>b, <1>c DEF Types
<1>1. Types'
  BY <1>d DEF Types, OpsFit
<1>2. OpsFit'
  BY DEF Types, OpsFit, CallRecords
<1>3. Admissions'
  BY DEF Types, OpsFit, Admissions, CallRecords
<1>4. JobKeepsItsContext'
  BY DEF Types, CallRecords, OpsFit, Admissions, JobKeepsItsContext
<1> QED BY <1>1, <1>2, <1>3, <1>4

LEMMA FoundRestoredKeeps ==
    ASSUME JInv, NEW c \in Callers, FoundRestored(c)
    PROVE  JInv'
BY DEF JInv, Types, CallRecords, OpsFit, Admissions, JobKeepsItsContext, FoundRestored, Enter, Makes, Keep,
       Evictable, Busy, At, Done, Retired, UnloadText

LEMMA EnterImageKeeps ==
    ASSUME JInv, NEW c \in Callers, EnterImage(c)
    PROVE  JInv'
<1> USE DEF JInv, EnterImage, Enter, Makes, Keep, Victims, Evictable, Busy, At, Done, Retired,
            UnloadText
<1>a. (IF resident[call[c].id] THEN 0 ELSE Peak[call[c].id]) \in Nat /\ call[c] \in CallRecords
  BY DEF OpsFit, Types
<1>b. [call[c] EXCEPT !.at = "room", !.need = (IF resident[call[c].id] THEN 0 ELSE Peak[call[c].id])] \in CallRecords
  BY <1>a, MovedCall
<1>c. call' = [call EXCEPT ![c] = [call[c] EXCEPT !.at = "room", !.need = (IF resident[call[c].id] THEN 0 ELSE Peak[call[c].id])]]
  BY DEF Types
<1>d. call' \in [Callers -> CallRecords]
  BY <1>b, <1>c DEF Types
<1>1. Types'
  BY <1>d DEF Types, OpsFit
<1>2. OpsFit'
  BY DEF Types, OpsFit, CallRecords
<1>3. Admissions'
  BY DEF Types, OpsFit, Admissions, CallRecords
<1>4. JobKeepsItsContext'
  BY DEF Types, CallRecords, OpsFit, Admissions, JobKeepsItsContext
<1> QED BY <1>1, <1>2, <1>3, <1>4

LEMMA EvictOldestKeeps ==
    ASSUME JInv, NEW c \in Callers, EvictOldest(c)
    PROVE  JInv'
<1> USE DEF JInv, EvictOldest, Enter, Makes, Keep, Victims, Evictable, Busy, At, Done, Retired,
            UnloadText
<1>a. PICK x \in Evictable(Keep(c)) :
        \/ x \in Texts /\ UnloadText(x) /\ call' = Retired(x)
        \/ /\ x \in Images /\ resident' = [resident EXCEPT ![x] = FALSE]
           /\ UNCHANGED <<loaded, parked, call>>
  OBVIOUS
<1>b. call' \in [Callers -> CallRecords]
  <2>1. CASE x \in Texts /\ call' = Retired(x)
    <3>1. \A d \in Callers :
            (IF call[d].at = "running" /\ call[d].id = x THEN Quiet ELSE call[d]) \in CallRecords
      BY MovedCall DEF Types
    <3> QED BY <2>1, <3>1
  <2>2. CASE UNCHANGED call
    BY <2>2 DEF Types
  <2> QED BY <1>a, <2>1, <2>2
<1>c. resident' \in [Ids -> BOOLEAN]
  BY <1>a DEF Types
<1>1. Types'
  BY <1>b, <1>c DEF Types
<1>2. OpsFit'
  BY DEF Types, OpsFit
<1>3. Admissions'
  BY DEF Types, OpsFit, Admissions
<1>4. JobKeepsItsContext'
  BY DEF Types, CallRecords, OpsFit, Admissions, JobKeepsItsContext
<1> QED BY <1>1, <1>2, <1>3, <1>4

LEMMA RoomEndsKeeps ==
    ASSUME JInv, NEW c \in Callers, RoomEnds(c)
    PROVE  JInv'
BY DEF JInv, Types, CallRecords, OpsFit, Admissions, JobKeepsItsContext, RoomEnds, Enter, Makes, Keep,
       Evictable, Busy, At, Done, Retired, UnloadText

LEMMA RefuseKeeps ==
    ASSUME JInv, NEW c \in Callers, Refuse(c)
    PROVE  JInv'
BY DEF JInv, Types, CallRecords, OpsFit, Admissions, JobKeepsItsContext, Refuse, Enter, Makes, Keep,
       Evictable, Busy, At, Done, Retired, UnloadText

LEMMA ReserveKeeps ==
    ASSUME JInv, NEW c \in Callers, Reserve(c)
    PROVE  JInv'
BY DEF JInv, Types, CallRecords, OpsFit, Admissions, JobKeepsItsContext, Reserve, Enter, Makes, Keep,
       Evictable, Busy, At, Done, Retired, UnloadText

LEMMA AdmitKeeps ==
    ASSUME JInv, NEW c \in Callers, Admit(c)
    PROVE  JInv'
<1> USE DEF JInv, Admit, Enter, Makes, Keep, Victims, Evictable, Busy, At, Done, Retired,
            UnloadText
<1>a. Asks(c) \in Nat /\ call[c] \in CallRecords
  BY AskedNat DEF OpsFit, Types
<1>b. [call[c] EXCEPT !.at = "loading", !.need = Asks(c)] \in CallRecords
  BY <1>a, MovedCall
<1>c. call' = [call EXCEPT ![c] = [call[c] EXCEPT !.at = "loading", !.need = Asks(c)]]
  BY DEF Types
<1>d. call' \in [Callers -> CallRecords]
  BY <1>b, <1>c DEF Types
<1>1. Types'
  BY <1>d DEF Types, OpsFit
<1>2. OpsFit'
  BY DEF Types, OpsFit, CallRecords
<1>3. Admissions'
  BY DEF Types, OpsFit, Admissions, CallRecords
<1>4. JobKeepsItsContext'
  BY DEF Types, CallRecords, OpsFit, Admissions, JobKeepsItsContext
<1> QED BY <1>1, <1>2, <1>3, <1>4

LEMMA LoadedKeeps ==
    ASSUME JInv, NEW c \in Callers, Loaded(c)
    PROVE  JInv'
BY DEF JInv, Types, CallRecords, OpsFit, Admissions, JobKeepsItsContext, Loaded, Enter, Makes, Keep,
       Evictable, Busy, At, Done, Retired, UnloadText

LEMMA RestoredKeeps ==
    ASSUME JInv, NEW c \in Callers, Restored(c)
    PROVE  JInv'
BY DEF JInv, Types, CallRecords, OpsFit, Admissions, JobKeepsItsContext, Restored, Enter, Makes, Keep,
       Evictable, Busy, At, Done, Retired, UnloadText

LEMMA ImageHereKeeps ==
    ASSUME JInv, NEW c \in Callers, ImageHere(c)
    PROVE  JInv'
<1> USE DEF JInv, ImageHere, Enter, Makes, Keep, Victims, Evictable, Busy, At, Done, Retired,
            UnloadText
<1>1. Types'
  BY DEF Types, CallRecords, OpsFit
<1>2. OpsFit'
  BY DEF Types, OpsFit
<1>3. Admissions'
  BY DEF Types, OpsFit, Admissions
<1>4. JobKeepsItsContext'
  <2> DEFINE i == call[c].id
  <2>1. i \in Images /\ call[c].need \in Nat
    BY DEF Types, CallRecords, OpsFit
  <2>2. resident'[i] <=> (resident[i] \/ call[c].need > 0)
    BY <2>1 DEF Types
  <2>3. ASSUME NEW j \in Images, job'[j] = "running"
        PROVE  resident'[j]
    <3>1. CASE j = i /\ call[c].op = "job"
      BY <2>1, <2>2, <3>1 DEF Admissions
    <3>2. CASE j = i /\ call[c].op # "job"
      BY <2>1, <2>2, <2>3, <3>2 DEF JobKeepsItsContext
    <3>3. CASE j # i
      BY <2>1, <2>3, <3>3 DEF Types, JobKeepsItsContext
    <3> QED BY <3>1, <3>2, <3>3
  <2> QED BY <2>3 DEF JobKeepsItsContext
<1> QED BY <1>1, <1>2, <1>3, <1>4

LEMMA LoadFailsKeeps ==
    ASSUME JInv, NEW c \in Callers, LoadFails(c)
    PROVE  JInv'
BY DEF JInv, Types, CallRecords, OpsFit, Admissions, JobKeepsItsContext, LoadFails, Enter, Makes, Keep,
       Evictable, Busy, At, Done, Retired, UnloadText

LEMMA EvictKeeps ==
    ASSUME JInv, NEW c \in Callers, Evict(c)
    PROVE  JInv'
<1> USE DEF JInv, Evict, Enter, Makes, Keep, Victims, Evictable, Busy, At, Done, Retired,
            UnloadText
<1>1. Types'
  BY DEF Types, CallRecords, OpsFit
<1>2. OpsFit'
  BY DEF Types, OpsFit
<1>3. Admissions'
  BY DEF Types, OpsFit, Admissions
<1>4. JobKeepsItsContext'
  BY DEF Types, CallRecords, OpsFit, Admissions, JobKeepsItsContext
<1> QED BY <1>1, <1>2, <1>3, <1>4

LEMMA EvictImageKeeps ==
    ASSUME JInv, NEW c \in Callers, EvictImage(c)
    PROVE  JInv'
BY DEF JInv, Types, CallRecords, OpsFit, Admissions, JobKeepsItsContext, EvictImage, Enter, Makes, Keep,
       Evictable, Busy, At, Done, Retired, UnloadText

LEMMA ImageAsIsKeeps ==
    ASSUME JInv, NEW c \in Callers, ImageAsIs(c)
    PROVE  JInv'
BY DEF JInv, Types, CallRecords, OpsFit, Admissions, JobKeepsItsContext, ImageAsIs, Enter, Makes, Keep,
       Evictable, Busy, At, Done, Retired, UnloadText

LEMMA TouchKeeps ==
    ASSUME JInv, NEW c \in Callers, Touch(c)
    PROVE  JInv'
BY DEF JInv, Types, CallRecords, OpsFit, Admissions, JobKeepsItsContext, Touch, Enter, Makes, Keep,
       Evictable, Busy, At, Done, Retired, UnloadText

LEMMA StartChatKeeps ==
    ASSUME JInv, NEW c \in Callers, StartChat(c)
    PROVE  JInv'
BY DEF JInv, Types, CallRecords, OpsFit, Admissions, JobKeepsItsContext, StartChat, Enter, Makes, Keep,
       Evictable, Busy, At, Done, Retired, UnloadText

LEMMA EndChatKeeps ==
    ASSUME JInv, NEW c \in Callers, EndChat(c)
    PROVE  JInv'
BY DEF JInv, Types, CallRecords, OpsFit, Admissions, JobKeepsItsContext, EndChat, Enter, Makes, Keep,
       Evictable, Busy, At, Done, Retired, UnloadText
LEMMA OutsideKeeps ==
    ASSUME JInv,
           \/ \E m \in Texts : IdleUnload(m)
           \/ \E i \in Images : JobEnds(i) \/ FinishJob(i)
           \/ \E w \in Workers : WorkerFills(w) \/ WorkerReleases(w)
           \/ OthersChange
    PROVE  JInv'
<1>1. ASSUME NEW i \in Images, JobEnds(i) \/ FinishJob(i)
      PROVE  JInv'
  BY <1>1 DEF JInv, Types, OpsFit, Admissions, JobKeepsItsContext, JobEnds, FinishJob
<1>2. ASSUME NEW m \in Texts, IdleUnload(m)
      PROVE  JInv'
  BY <1>2 DEF JInv, Types, OpsFit, Admissions, JobKeepsItsContext, IdleUnload
<1>3. ASSUME NEW w \in Workers, WorkerFills(w) \/ WorkerReleases(w)
      PROVE  JInv'
  BY <1>3 DEF JInv, Types, OpsFit, Admissions, JobKeepsItsContext, WorkerFills, WorkerReleases
<1>4. CASE OthersChange
  BY <1>4 DEF JInv, Types, OpsFit, Admissions, JobKeepsItsContext, OthersChange
<1> QED BY <1>1, <1>2, <1>3, <1>4

LEMMA JobStep == JInv /\ [Next]_vars => JInv'
<1> SUFFICES ASSUME JInv, [Next]_vars PROVE JInv'
  OBVIOUS
<1>1. CASE UNCHANGED vars
  BY <1>1 DEF vars, JInv, Types, OpsFit, Admissions, JobKeepsItsContext
<1>2. ASSUME NEW c \in Callers, NEW op \in Ops, NEW x \in Ids \cup Workers, Ask(c, op, x)
      PROVE  JInv'
  BY <1>2, AskKeeps
<1>3. ASSUME NEW c \in Callers, Entering(c)
      PROVE  JInv'
  BY <1>3, EnterLoadKeeps, EnterReserveKeeps, EnterRestoreKeeps, FoundRestoredKeeps,
     EnterImageKeeps, EvictKeeps, EvictImageKeeps, ImageAsIsKeeps DEF Entering
<1>4. ASSUME NEW c \in Callers, Admitting(c)
      PROVE  JInv'
  BY <1>4, EvictOldestKeeps, RoomEndsKeeps, RefuseKeeps, ReserveKeeps, AdmitKeeps,
     LoadedKeeps, RestoredKeeps, ImageHereKeeps, LoadFailsKeeps DEF Admitting
<1>5. ASSUME NEW c \in Callers, Using(c)
      PROVE  JInv'
  BY <1>5, TouchKeeps, StartChatKeeps, EndChatKeeps DEF Using
<1> QED BY <1>1, <1>2, <1>3, <1>4, <1>5, OutsideKeeps DEF Next

\* The context of an image job is there for as long as it runs, whatever room
\* other callers make meanwhile, for any models, callers and sizes.
THEOREM JobContextKept == Spec => []JobKeepsItsContext
<1>1. Init => JInv
  BY DEF Init, JInv, Types, CallRecords, OpsFit, Admissions, JobKeepsItsContext
<1>2. JInv => JobKeepsItsContext
  BY DEF JInv
<1> QED BY <1>1, <1>2, JobStep, PTL DEF Spec
----------------------------------------------------------------------------
(* The ledger and the budget.                                               *)

TypesRest ==
    /\ \A x \in Ids : resident[x] => x \in known
    /\ recent \in Seq(Ids)
    /\ loaded \in [Texts -> BOOLEAN] /\ parked \in [Texts -> BOOLEAN]
    /\ poisoned \in [Images -> BOOLEAN]
    /\ aux \in [Workers -> {"none", "reserved", "filled"}]
    /\ others \in OthersMb
    /\ lock \in Callers \cup {Nobody}

\* What is brought back has been there before, with the charge it had.
RestoresKnown ==
    \A c \in Callers :
       /\ call[c].at \in {"restored", "ready", "running"} => call[c].op \in {"turn", "preload"}
       /\ call[c].op \in {"turn", "preload"} => call[c].id \in known

\* An image model is charged its peak.
PeaksCharged == \A i \in Images : resident[i] => charge[i] = Peak[i]

\* Who holds the lock has asked for what will be charged in the end; a load
\* may still ask for another amount before it is decided.
NeedsFit ==
    \A c \in Callers :
       call[c].at \in Holding =>
          /\ call[c].op \in {"turn", "preload"} => call[c].need = charge[call[c].id]
          /\ call[c].op \in {"loadImage", "reserve"} => call[c].need = Peak[call[c].id]
          /\ call[c].op \in {"job", "preloadImage"}
                => call[c].need \in {0, Peak[call[c].id]}

\* From the decision to the charge the room that was found stays free.
RoomStays ==
    HostBudget # None =>
       /\ Ledger <= HostBudget
       /\ \A c \in Callers :
             call[c].at = "loading" => Ledger + call[c].need <= HostBudget

Books == TypesRest /\ RestoresKnown /\ PeaksCharged /\ NeedsFit

LInv == JInv /\ Books /\ RoomStays

LEMMA UsedNowSeq ==
    ASSUME recent \in Seq(Ids), NEW x \in Ids
    PROVE  UsedNow(x) \in Seq(Ids)
<1>1. ASSUME NEW k \in 1 .. Len(recent)
      PROVE  RemoveAt(recent, k) \in Seq(Ids)
  <2>1. /\ Len(recent) \in Nat /\ k - 1 \in 0 .. Len(recent) /\ k + 1 \in 1 .. Len(recent) + 1
    OBVIOUS
  <2>2. SubSeq(recent, 1, k - 1) \in Seq(Ids) /\ SubSeq(recent, k + 1, Len(recent)) \in Seq(Ids)
    BY <2>1
  <2> QED BY <2>2 DEF RemoveAt
<1>2. ASSUME NEW i \in 1 .. Len(recent), recent[i] = x
      PROVE  SelectInSeq(recent, LAMBDA v : v = x) \in 1 .. Len(recent)
  <2> DEFINE I == {n \in 1 .. Len(recent) : recent[n] = x}
  <2>1. I \in SUBSET Nat /\ I # {}
    BY <1>2
  <2>2. Min(I) \in I
    <3> HIDE DEF I
    <3> QED BY <2>1, LeastNat DEF Min
  <2>3. SelectInSeq(recent, LAMBDA v : v = x) = Min(I)
    BY <2>1 DEF SelectInSeq
  <2> QED BY <2>2, <2>3
<1>3. RemoveFirst(recent, x) \in Seq(Ids)
  <2>1. CASE \E i \in 1 .. Len(recent) : recent[i] = x
    BY <1>1, <1>2, <2>1 DEF RemoveFirst
  <2>2. CASE ~ \E i \in 1 .. Len(recent) : recent[i] = x
    BY <2>2 DEF RemoveFirst
  <2> QED BY <2>1, <2>2
<1> QED BY <1>3 DEF UsedNow

\* Calls that only end, or move on without the lock, keep what is said of calls.
LEMMA CallsMoveOn ==
    ASSUME Books, UNCHANGED charge, known \subseteq known',
           \A c \in Callers :
              \/ call'[c] = Quiet
              \/ /\ call'[c].op = call[c].op /\ call'[c].id = call[c].id
                 /\ call'[c].need = call[c].need
                 /\ call'[c].at \in Holding => call[c].at \in Holding
                 /\ call'[c].at \in {"restored", "ready", "running"}
                       => call[c].op \in {"turn", "preload"}
    PROVE  RestoresKnown' /\ NeedsFit'
BY DEF Books, RestoresKnown, NeedsFit

LEMMA MovedTo ==
    ASSUME Types, NEW c \in Callers, NEW stage \in Stages, At(c, stage)
    PROVE  /\ \A d \in Callers \ {c} : call'[d] = call[d]
           /\ call'[c].at = stage
           /\ call'[c].op = call[c].op /\ call'[c].id = call[c].id
           /\ call'[c].need = call[c].need
<1>1. call \in [Callers -> CallRecords] /\ call[c] \in CallRecords
  BY DEF Types
<1>2. call' = [call EXCEPT ![c] = [call[c] EXCEPT !.at = stage]]
  BY <1>1 DEF At
<1> QED BY <1>1, <1>2 DEF CallRecords

LEMMA FlagSet ==
    ASSUME NEW S, NEW f \in [S -> BOOLEAN], NEW x, NEW b \in BOOLEAN
    PROVE  [f EXCEPT ![x] = b] \in [S -> BOOLEAN]
OBVIOUS

LEMMA Unloaded ==
    ASSUME Types, TypesRest, NEW m \in Texts, UnloadText(m)
    PROVE  /\ resident' \in [Ids -> BOOLEAN] /\ \A x \in Ids : resident'[x] => resident[x]
           /\ loaded' \in [Texts -> BOOLEAN] /\ parked' \in [Texts -> BOOLEAN]
<1>1. (parked[m] \/ loaded[m]) \in BOOLEAN
  OBVIOUS
<1>2. CASE resident[m]
  <2>1. /\ loaded' = [loaded EXCEPT ![m] = FALSE]
        /\ parked' = [parked EXCEPT ![m] = parked[m] \/ loaded[m]]
        /\ resident' = [resident EXCEPT ![m] = FALSE]
    BY <1>2, Zenon DEF UnloadText
  <2>2. loaded \in [Texts -> BOOLEAN] /\ parked \in [Texts -> BOOLEAN]
        /\ resident \in [Ids -> BOOLEAN]
    BY DEF Types, TypesRest
  <2>3. /\ loaded' \in [Texts -> BOOLEAN] /\ resident' \in [Ids -> BOOLEAN]
        /\ parked' \in [Texts -> BOOLEAN]
    BY <1>1, <2>1, <2>2, FlagSet, Zenon
  <2>4. \A x \in Ids : resident'[x] => resident[x]
    BY <2>1, <2>2
  <2> QED BY <2>3, <2>4
<1>3. CASE ~resident[m]
  BY <1>3 DEF UnloadText, Types, TypesRest
<1> QED BY <1>2, <1>3

\* Every action keeps the books in form.
LEMMA EnteringBooks ==
    ASSUME JInv, Books, NEW c \in Callers, Entering(c)
    PROVE  Books'
<1> USE DEF JInv, Types, OpsFit, Admissions, CallRecords, Books, TypesRest, RestoresKnown,
            PeaksCharged, NeedsFit, Enter, Makes, At, Done, Busy
<1>1. CASE EnterLoad(c)
  BY <1>1 DEF EnterLoad
<1>2. CASE EnterReserve(c)
  BY <1>2 DEF EnterReserve
<1>3. CASE EnterRestore(c)
  BY <1>3 DEF EnterRestore
<1>4. CASE FoundRestored(c)
  BY <1>4 DEF FoundRestored
<1>5. CASE EnterImage(c)
  BY <1>5 DEF EnterImage
<1>6. CASE Evict(c)
  <2> DEFINE m == call[c].id
  <2>1. m \in Texts
    BY <1>6 DEF Evict
  <2>2. /\ resident' \in [Ids -> BOOLEAN] /\ \A x \in Ids : resident'[x] => resident[x]
        /\ loaded' \in [Texts -> BOOLEAN] /\ parked' \in [Texts -> BOOLEAN]
    BY <1>6, <2>1, Unloaded DEF Evict
  <2>3. TypesRest'
    BY <1>6, <2>2 DEF Evict
  <2>4. PeaksCharged'
    BY <1>6, <2>2 DEF Evict
  <2>5. \A d \in Callers : call'[d] \in {call[d], Quiet}
    BY <1>6 DEF Evict, Retired
  <2>6. RestoresKnown' /\ NeedsFit'
    BY <1>6, <2>5, CallsMoveOn DEF Evict
  <2> QED BY <2>3, <2>4, <2>6
<1>7. CASE EvictImage(c)
  BY <1>7 DEF EvictImage
<1>8. CASE ImageAsIs(c)
  BY <1>8, UsedNowSeq DEF ImageAsIs
<1> QED BY <1>1, <1>2, <1>3, <1>4, <1>5, <1>6, <1>7, <1>8 DEF Entering

LEMMA AdmittingBooks ==
    ASSUME JInv, Books, NEW c \in Callers, Admitting(c)
    PROVE  Books'
<1> USE DEF JInv, Types, OpsFit, Admissions, CallRecords, Books, TypesRest, RestoresKnown,
            PeaksCharged, NeedsFit, At, Done
<1>1. CASE EvictOldest(c)
  <2>1. TypesRest'
    <3>1. PICK x \in Evictable(Keep(c)) :
            \/ x \in Texts /\ UnloadText(x)
            \/ /\ x \in Images /\ resident' = [resident EXCEPT ![x] = FALSE]
               /\ UNCHANGED <<loaded, parked>>
      BY <1>1 DEF EvictOldest, Victims
    <3>2. /\ resident' \in [Ids -> BOOLEAN] /\ \A y \in Ids : resident'[y] => resident[y]
          /\ loaded' \in [Texts -> BOOLEAN] /\ parked' \in [Texts -> BOOLEAN]
      <4>1. CASE x \in Texts /\ UnloadText(x)
        BY <4>1, Unloaded
      <4>2. CASE /\ x \in Images /\ resident' = [resident EXCEPT ![x] = FALSE]
                 /\ UNCHANGED <<loaded, parked>>
        BY <4>2
      <4> QED BY <3>1, <4>1, <4>2
    <3> QED BY <1>1, <3>2 DEF EvictOldest
  <2>2. RestoresKnown'
    BY <1>1 DEF EvictOldest, UnloadText, Retired
  <2>3. PeaksCharged'
    BY ZenonT(30), <1>1 DEF EvictOldest, UnloadText, Retired
  <2>4. NeedsFit'
    BY <1>1 DEF EvictOldest, UnloadText, Retired
  <2> QED BY <2>1, <2>2, <2>3, <2>4
<1>2. CASE RoomEnds(c)
  BY <1>2 DEF RoomEnds
<1>3. CASE Refuse(c)
  BY <1>3 DEF Refuse
<1>4. CASE Reserve(c)
  BY <1>4 DEF Reserve
<1>5. CASE Admit(c)
  BY <1>5, AskedNat DEF Admit, Asks
<1>6. CASE Loaded(c)
  BY <1>6, UsedNowSeq DEF Loaded
<1>7. CASE Restored(c)
  BY <1>7 DEF Restored
<1>8. CASE ImageHere(c)
  BY <1>8, UsedNowSeq DEF ImageHere
<1>9. CASE LoadFails(c)
  <2>1. TypesRest'
    <3>1. \A m \in Texts : (loaded[m] /\ m # call[c].id) \in BOOLEAN
      OBVIOUS
    <3>2. loaded' = loaded \/ loaded' = [m \in Texts |-> loaded[m] /\ m # call[c].id]
      BY <1>9, Zenon DEF LoadFails
    <3>3. [m \in Texts |-> loaded[m] /\ m # call[c].id] \in [Texts -> BOOLEAN]
      BY <3>1, Zenon
    <3>4. loaded \in [Texts -> BOOLEAN]
      OBVIOUS
    <3>5. loaded' \in [Texts -> BOOLEAN]
      BY <3>2, <3>3, <3>4, Zenon
    <3> QED BY <1>9, <3>5 DEF LoadFails
  <2>2. RestoresKnown'
    BY <1>9 DEF LoadFails
  <2>3. PeaksCharged'
    BY <1>9 DEF LoadFails
  <2>4. NeedsFit'
    BY <1>9 DEF LoadFails
  <2> QED BY <2>1, <2>2, <2>3, <2>4
<1> QED BY <1>1, <1>2, <1>3, <1>4, <1>5, <1>6, <1>7, <1>8, <1>9 DEF Admitting

LEMMA UsingBooks ==
    ASSUME JInv, Books, NEW c \in Callers, Using(c)
    PROVE  Books'
<1> USE DEF JInv, Types, OpsFit, Admissions, CallRecords, Books, TypesRest, RestoresKnown,
            PeaksCharged, NeedsFit, At, Done
<1>1. CASE Touch(c)
  <2>1. call[c].id \in Ids
    BY <1>1 DEF Touch
  <2>2. TypesRest' /\ PeaksCharged'
    BY <1>1, <2>1, UsedNowSeq DEF Touch
  <2>3. CASE At(c, "ready")
    <3>1. call[c].at = "restored" /\ "ready" \in Stages /\ UNCHANGED <<charge, known>>
      BY <1>1 DEF Touch
    <3>2. /\ \A d \in Callers \ {c} : call'[d] = call[d]
          /\ call'[c].at = "ready"
          /\ call'[c].op = call[c].op /\ call'[c].id = call[c].id
          /\ call'[c].need = call[c].need
      BY <2>3, <3>1, MovedTo, Zenon
    <3>3. call[c].op \in {"turn", "preload"} /\ known \subseteq known'
      BY <3>1
    <3>4. RestoresKnown' /\ NeedsFit'
      <4> HIDE DEF JInv, Types, OpsFit, Admissions, CallRecords, Books, TypesRest,
                   RestoresKnown, PeaksCharged, NeedsFit, At, Done
      <4>1. ASSUME NEW d \in Callers
            PROVE  \/ call'[d] = Quiet
                   \/ /\ call'[d].op = call[d].op /\ call'[d].id = call[d].id
                      /\ call'[d].need = call[d].need
                      /\ call'[d].at \in Holding => call[d].at \in Holding
                      /\ call'[d].at \in {"restored", "ready", "running"}
                            => call[d].op \in {"turn", "preload"}
        <5>1. CASE d = c
          BY <3>2, <3>3, <5>1
        <5>2. CASE d # c
          BY <3>2, <5>2 DEF Books, RestoresKnown
        <5> QED BY <5>1, <5>2
      <4> QED BY <3>1, <3>3, <4>1, CallsMoveOn
    <3> QED BY <2>2, <3>4
  <2>4. CASE Done(c)
    <3>1. \A d \in Callers : call'[d] \in {call[d], Quiet}
      BY <2>4
    <3> QED BY <1>1, <2>2, <3>1, CallsMoveOn DEF Touch
  <2> QED BY <1>1, <2>3, <2>4 DEF Touch
<1>2. CASE StartChat(c)
  <2>1. call[c].id \in Texts
    BY <1>2 DEF StartChat
  <2>2. loaded' \in [Texts -> BOOLEAN] /\ parked' \in [Texts -> BOOLEAN]
    BY ZenonT(30), <1>2, <2>1 DEF StartChat
  <2>3. TypesRest' /\ PeaksCharged'
    BY <1>2, <2>2 DEF StartChat
  <2>4. CASE At(c, "running")
    <3>1. call[c].at = "ready" /\ "running" \in Stages /\ UNCHANGED <<charge, known>>
      BY <1>2 DEF StartChat
    <3>2. /\ \A d \in Callers \ {c} : call'[d] = call[d]
          /\ call'[c].at = "running"
          /\ call'[c].op = call[c].op /\ call'[c].id = call[c].id
          /\ call'[c].need = call[c].need
      BY <2>4, <3>1, MovedTo, Zenon
    <3>3. call[c].op \in {"turn", "preload"} /\ known \subseteq known'
      BY <3>1
    <3>4. RestoresKnown' /\ NeedsFit'
      <4> HIDE DEF JInv, Types, OpsFit, Admissions, CallRecords, Books, TypesRest,
                   RestoresKnown, PeaksCharged, NeedsFit, At, Done
      <4>1. ASSUME NEW d \in Callers
            PROVE  \/ call'[d] = Quiet
                   \/ /\ call'[d].op = call[d].op /\ call'[d].id = call[d].id
                      /\ call'[d].need = call[d].need
                      /\ call'[d].at \in Holding => call[d].at \in Holding
                      /\ call'[d].at \in {"restored", "ready", "running"}
                            => call[d].op \in {"turn", "preload"}
        <5>1. CASE d = c
          BY <3>2, <3>3, <5>1
        <5>2. CASE d # c
          BY <3>2, <5>2 DEF Books, RestoresKnown
        <5> QED BY <5>1, <5>2
      <4> QED BY <3>1, <3>3, <4>1, CallsMoveOn
    <3> QED BY <2>3, <3>4
  <2>5. CASE Done(c)
    <3>1. \A d \in Callers : call'[d] \in {call[d], Quiet}
      BY <2>5
    <3> QED BY <1>2, <2>3, <3>1, CallsMoveOn DEF StartChat
  <2> QED BY <1>2, <2>4, <2>5 DEF StartChat
<1>3. CASE EndChat(c)
  BY <1>3 DEF EndChat
<1> QED BY <1>1, <1>2, <1>3 DEF Using

LEMMA OutsideBooks ==
    ASSUME JInv, Books,
           \/ \E m \in Texts : IdleUnload(m)
           \/ \E i \in Images : JobEnds(i) \/ FinishJob(i)
           \/ \E w \in Workers : WorkerFills(w) \/ WorkerReleases(w)
           \/ OthersChange
    PROVE  Books'
<1> USE DEF JInv, Types, OpsFit, Admissions, CallRecords, Books, TypesRest, RestoresKnown,
            PeaksCharged, NeedsFit
<1>1. ASSUME NEW i \in Images, JobEnds(i) \/ FinishJob(i)
      PROVE  Books'
  <2>1. TypesRest'
    <3>1. recent' \in Seq(Ids)
      BY <1>1, UsedNowSeq DEF JobEnds, FinishJob
    <3>2. poisoned' = poisoned \/ poisoned' = [poisoned EXCEPT ![i] = TRUE]
      BY <1>1, Zenon DEF JobEnds, FinishJob
    <3>3. poisoned \in [Images -> BOOLEAN]
      OBVIOUS
    <3>4. poisoned' \in [Images -> BOOLEAN]
      <4>1. [poisoned EXCEPT ![i] = TRUE] \in [Images -> BOOLEAN]
        BY <3>3, FlagSet
      <4> QED BY <3>2, <3>3, <4>1, Zenon
    <3> QED BY <1>1, <3>1, <3>4 DEF JobEnds, FinishJob
  <2>2. RestoresKnown'
    BY <1>1, UsedNowSeq DEF JobEnds, FinishJob
  <2>3. PeaksCharged'
    BY <1>1, UsedNowSeq DEF JobEnds, FinishJob
  <2>4. NeedsFit'
    BY <1>1, UsedNowSeq DEF JobEnds, FinishJob
  <2> QED BY <2>1, <2>2, <2>3, <2>4
<1>2. ASSUME NEW m \in Texts, IdleUnload(m)
      PROVE  Books'
  BY <1>2 DEF IdleUnload
<1>3. ASSUME NEW w \in Workers, WorkerFills(w) \/ WorkerReleases(w)
      PROVE  Books'
  <2>1. TypesRest'
    <3>1. aux' \in [Workers -> {"none", "reserved", "filled"}]
      BY ZenonT(30), <1>3 DEF WorkerFills, WorkerReleases
    <3> QED BY <1>3, <3>1 DEF WorkerFills, WorkerReleases
  <2>2. RestoresKnown'
    BY <1>3 DEF WorkerFills, WorkerReleases
  <2>3. PeaksCharged'
    BY <1>3 DEF WorkerFills, WorkerReleases
  <2>4. NeedsFit'
    BY <1>3 DEF WorkerFills, WorkerReleases
  <2> QED BY <2>1, <2>2, <2>3, <2>4
<1>4. CASE OthersChange
  BY <1>4 DEF OthersChange
<1> QED BY <1>1, <1>2, <1>3, <1>4


LEMMA BooksStep == JInv /\ Books /\ [Next]_vars => Books'
<1> SUFFICES ASSUME JInv, Books, [Next]_vars PROVE Books'
  OBVIOUS
<1>1. CASE UNCHANGED vars
  BY <1>1 DEF vars, Books, TypesRest, RestoresKnown, PeaksCharged, NeedsFit
<1>2. ASSUME NEW c \in Callers, NEW op \in Ops, NEW x \in Ids \cup Workers, Ask(c, op, x)
      PROVE  Books'
  <2> USE <1>2 DEF JInv, Types, CallRecords, Books, TypesRest, RestoresKnown, PeaksCharged,
                   NeedsFit, Ask, Applies
  <2>1. TypesRest' /\ PeaksCharged'
    OBVIOUS
  <2>2. RestoresKnown'
    OBVIOUS
  <2>3. NeedsFit'
    OBVIOUS
  <2> QED BY <2>1, <2>2, <2>3
<1> QED BY <1>1, <1>2, EnteringBooks, AdmittingBooks, UsingBooks, OutsideBooks DEF Next

\* What each holder is charged, and what the ledger makes of it.
Charge(x) == IF Charged(x) THEN Size(x) ELSE 0

LEMMA ChargeNat ==
    ASSUME Types, TypesRest, NEW x \in Held
    PROVE  Charge(x) \in Nat
BY DEF Types, TypesRest, Held, Charge, Charged, Size

LEMMA LedgerIs ==
    ASSUME Types, TypesRest
    PROVE  /\ [x \in Held |-> Charge(x)] \in [Held -> Nat]
           /\ Ledger = Total([x \in Held |-> Charge(x)])
<1>1. [x \in Held |-> Charge(x)] \in [Held -> Nat]
  BY ChargeNat
<1>2. Ledger = Total([x \in Held |-> Charge(x)])
  BY DEF Ledger, Held, Charge
<1> QED BY <1>1, <1>2

LEMMA LedgerGrowth ==
    ASSUME Types, TypesRest, Types', TypesRest', NEW x, NEW more \in Nat,
           \A y \in Held : Charge(y)' <= Charge(y) + (IF y = x THEN more ELSE 0)
    PROVE  Ledger \in Nat /\ Ledger' \in Nat /\ Ledger' <= Ledger + more
<1> DEFINE a == [y \in Held |-> Charge(y)]
           b == [y \in Held |-> Charge(y)']
<1>1. a \in [Held -> Nat] /\ Ledger = Total(a)
  BY LedgerIs
<1>2. b \in [Held -> Nat] /\ Ledger' = Total(b)
  <2>1. \A y \in Held : Charge(y)' \in Nat
    <3>1. ASSUME NEW y \in Held PROVE Charge(y)' \in Nat
      BY DEF Types, TypesRest, Held, Charge, Charged, Size
    <3> QED BY <3>1
  <2>2. Ledger' = Total(b)
    BY DEF Ledger, Held, Charge, Charged, Size
  <2> QED BY <2>1, <2>2
<1>3. \A y \in Held : b[y] <= a[y] + (IF y = x THEN more ELSE 0)
  OBVIOUS
<1> HIDE DEF a, b
<1> QED BY <1>1, <1>2, <1>3, TotalGrowth

\* A call that is admitted finds room for what it asks on the ledger.
LEMMA AdmittedFits ==
    ASSUME NEW n \in Nat, CanAdmit(n), HostBudget # None
    PROVE  Ledger + n <= HostBudget
<1> DEFINE b == SnapshotBudgets(HostAt(Rss), Rss)
<1>1. b = [soft |-> b.soft, hard |-> b.hard, inference |-> b.inference]
  BY DEF SnapshotBudgets, MobileBudgets, Budgets
<1>2. MemoryGovernor.budgets = [b EXCEPT !.inference = HostBudget]
  BY DEF MemoryGovernor, Governor
<1> HIDE DEF b
<1>3. MemoryGovernor.budgets.inference = HostBudget
  BY <1>1, <1>2
<1> QED BY <1>3 DEF CanAdmit, Allows

\* Steps after which the ledger is no larger and nobody new is loading.
LEMMA RoomIsLeft ==
    ASSUME LInv, Types', TypesRest',
           \A y \in Held : Charge(y)' <= Charge(y),
           \A c \in Callers : call'[c].at = "loading"
                => call[c].at = "loading" /\ call'[c].need = call[c].need
    PROVE  RoomStays'
<1>1. Ledger \in Nat /\ Ledger' \in Nat /\ Ledger' <= Ledger
  <2>1. 0 \in Nat /\ \A y \in Held : Charge(y)' <= Charge(y) + (IF y = 0 THEN 0 ELSE 0)
    <3>1. \A y \in Held : Charge(y) \in Nat /\ Charge(y)' \in Nat
      <4>1. ASSUME NEW y \in Held PROVE Charge(y)' \in Nat
        BY DEF Types, TypesRest, Held, Charge, Charged, Size
      <4> QED BY <4>1, ChargeNat DEF LInv, JInv, Books
    <3> QED BY <3>1
  <2>2. Ledger \in Nat /\ Ledger' \in Nat /\ Ledger' <= Ledger + 0
    BY <2>1, LedgerGrowth DEF LInv, JInv, Books
  <2> QED BY <2>2
<1>2. \A c \in Callers : call[c].need \in Nat
  BY DEF LInv, JInv, Types, CallRecords
<1> QED BY <1>1, <1>2 DEF LInv, RoomStays, None

\* The steps that charge nothing.
LEMMA UnchargedRoom ==
    ASSUME LInv, JInv', Books', NEW c \in Callers,
           \/ Entering(c) \/ Using(c)
           \/ EvictOldest(c) \/ RoomEnds(c) \/ Refuse(c) \/ LoadFails(c)
    PROVE  RoomStays'
<1>1. UNCHANGED <<charge, aux>>
  BY DEF Entering, Using, EnterLoad, EnterReserve, EnterRestore, FoundRestored, EnterImage,
         Enter, Evict, EvictImage, ImageAsIs, Touch, StartChat, EndChat, EvictOldest, RoomEnds,
         Refuse, LoadFails
<1>2. \A x \in Ids : resident'[x] => resident[x]
  <2> USE DEF LInv, JInv, Books, Types, OpsFit
  <2>1. CASE Evict(c)
    <3>1. call[c].id \in Texts
      BY <2>1 DEF Evict
    <3> QED BY <2>1, <3>1, Unloaded DEF Evict
  <2>2. CASE EvictOldest(c)
    <3>1. PICK x \in Evictable(Keep(c)) :
            \/ x \in Texts /\ UnloadText(x)
            \/ x \in Images /\ resident' = [resident EXCEPT ![x] = FALSE]
      BY <2>2 DEF EvictOldest, Victims
    <3>2. CASE x \in Texts /\ UnloadText(x)
      BY <3>2, Unloaded
    <3>3. CASE x \in Images /\ resident' = [resident EXCEPT ![x] = FALSE]
      BY <3>3
    <3> QED BY <3>1, <3>2, <3>3
  <2>3. CASE EvictImage(c)
    BY <2>3 DEF EvictImage
  <2>4. CASE EnterRestore(c)
    BY <2>4 DEF EnterRestore
  <2>5. CASE UNCHANGED resident
    BY <2>5
  <2> QED BY <2>1, <2>2, <2>3, <2>4, <2>5
       DEF Entering, Using, EnterLoad, EnterReserve, FoundRestored, EnterImage, Makes,
           ImageAsIs, Touch, StartChat, EndChat, RoomEnds, Refuse, LoadFails
<1>3. \A y \in Held : Charge(y)' <= Charge(y)
  <2>1. \A y \in Held : Charge(y) \in Nat
    BY ChargeNat DEF LInv, JInv, Books
  <2>2. ASSUME NEW y \in Held
        PROVE  Charge(y)' <= Charge(y)
    <3>1. Size(y)' = Size(y) /\ (Charged(y)' => Charged(y))
      BY <1>1, <1>2 DEF Size, Charged, Held
    <3> QED BY <2>1, <3>1 DEF Charge
  <2> QED BY <2>2
<1>4. \A d \in Callers : call'[d].at = "loading"
         => call[d].at = "loading" /\ call'[d].need = call[d].need
  <2> USE DEF LInv, JInv, Types, CallRecords
  <2>1. CASE EnterLoad(c) \/ EnterReserve(c) \/ EnterRestore(c) \/ EnterImage(c)
    BY <2>1 DEF EnterLoad, EnterReserve, EnterRestore, EnterImage, Makes
  <2>2. CASE FoundRestored(c)
    BY <2>2 DEF FoundRestored, At
  <2>3. CASE Using(c)
    BY <2>3 DEF Using, Touch, StartChat, EndChat, At, Done
  <2>4. CASE EvictOldest(c)
    BY <2>4 DEF EvictOldest, Retired
  <2>5. CASE RoomEnds(c) \/ Refuse(c) \/ LoadFails(c)
    BY <2>5 DEF RoomEnds, Refuse, LoadFails, At, Done
  <2>6. CASE Evict(c) \/ EvictImage(c) \/ ImageAsIs(c)
    <3>1. \A d \in Callers : call'[d] \in {call[d], Quiet}
      BY <2>6 DEF Evict, EvictImage, ImageAsIs, Done, Retired
    <3> QED BY <3>1
  <2> QED BY <2>1, <2>2, <2>3, <2>4, <2>5, <2>6 DEF Entering
<1> QED BY <1>3, <1>4, RoomIsLeft DEF JInv, Books

LEMMA OutsideRoom ==
    ASSUME LInv, JInv', Books',
           \/ \E c \in Callers, op \in Ops, x \in Ids \cup Workers : Ask(c, op, x)
           \/ \E m \in Texts : IdleUnload(m)
           \/ \E i \in Images : JobEnds(i) \/ FinishJob(i)
           \/ \E w \in Workers : WorkerFills(w) \/ WorkerReleases(w)
           \/ OthersChange
    PROVE  RoomStays'
<1>1. UNCHANGED <<charge, resident>>
  BY DEF Ask, IdleUnload, JobEnds, FinishJob, WorkerFills, WorkerReleases, OthersChange
<1>2. \A w \in Workers : aux'[w] # "none" => aux[w] # "none"
  BY DEF Ask, IdleUnload, JobEnds, FinishJob, WorkerFills, WorkerReleases, OthersChange,
         LInv, Books, TypesRest
<1>3. \A y \in Held : Charge(y)' <= Charge(y)
  <2>1. \A y \in Held : Charge(y) \in Nat
    BY ChargeNat DEF LInv, JInv, Books
  <2>2. ASSUME NEW y \in Held
        PROVE  Charge(y)' <= Charge(y)
    <3>1. Size(y)' = Size(y) /\ (Charged(y)' => Charged(y))
      BY <1>1, <1>2 DEF Size, Charged, Held
    <3> QED BY <2>1, <3>1 DEF Charge
  <2> QED BY <2>2
<1>4. \A d \in Callers : call'[d].at = "loading"
         => call[d].at = "loading" /\ call'[d].need = call[d].need
  BY DEF Ask, IdleUnload, JobEnds, FinishJob, WorkerFills, WorkerReleases, OthersChange,
         LInv, JInv, Types, CallRecords
<1> QED BY <1>3, <1>4, RoomIsLeft DEF JInv, Books

\* The decision: what is asked fits beside the ledger as it is.
LEMMA AdmitRoom ==
    ASSUME LInv, JInv', Books', NEW c \in Callers, Admit(c)
    PROVE  RoomStays'
<1>1. Asks(c) \in Nat /\ CanAdmit(Asks(c))
  BY AskedNat DEF Admit, Fits, LInv, JInv
<1>2. Ledger' = Ledger
  <2>1. UNCHANGED <<charge, resident, aux>>
    BY DEF Admit
  <2> QED BY <2>1 DEF Ledger, Charged, Size
<1>3. /\ call'[c].need = Asks(c)
      /\ \A d \in Callers \ {c} : call'[d] = call[d]
  BY DEF Admit, LInv, JInv, Types, CallRecords
<1> QED BY <1>1, <1>2, <1>3, AdmittedFits DEF LInv, RoomStays

\* One holder is charged what was decided: nobody else is loading then.
LEMMA ChargedRoom ==
    ASSUME LInv, JInv', Books', NEW c \in Callers, call[c].at \in {"deciding", "loading"},
           NEW x, NEW n \in Nat, HostBudget # None => Ledger + n <= HostBudget,
           \A y \in Held : Charge(y)' <= Charge(y) + (IF y = x THEN n ELSE 0),
           call'[c].at # "loading", \A d \in Callers \ {c} : call'[d] = call[d]
    PROVE  RoomStays'
<1>1. Ledger \in Nat /\ Ledger' \in Nat /\ Ledger' <= Ledger + n
  BY LedgerGrowth DEF LInv, JInv, Books
<1>2. \A d \in Callers : call'[d].at # "loading"
  BY DEF LInv, JInv, Admissions
<1> QED BY <1>1, <1>2 DEF RoomStays, None

LEMMA ReserveRoom ==
    ASSUME LInv, JInv', Books', NEW c \in Callers, Reserve(c)
    PROVE  RoomStays'
<1> DEFINE w == call[c].id
<1>1. w \in Workers /\ Asks(c) = Peak[w] /\ CanAdmit(Peak[w]) /\ Peak[w] \in Nat
  BY DEF Reserve, Fits, Asks, LInv, JInv, Books, OpsFit, NeedsFit
<1>2. ASSUME NEW y \in Held
      PROVE  Charge(y)' <= Charge(y) + (IF y = w THEN Peak[w] ELSE 0)
  <2>1. Charge(y) \in Nat /\ UNCHANGED <<charge, resident>> /\ aux' = [aux EXCEPT ![w] = "reserved"]
    BY ChargeNat DEF Reserve, LInv, JInv, Books
  <2>2. CASE y = w
    BY <1>1, <2>1, <2>2 DEF Charge, Size, Charged
  <2>3. CASE y # w
    <3>1. Charge(y)' = Charge(y)
      BY <2>1, <2>3 DEF Charge, Size, Charged, LInv, Books, TypesRest
    <3> QED BY <2>1, <2>3, <3>1
  <2> QED BY <2>2, <2>3
<1>3. call'[c].at # "loading" /\ \A d \in Callers \ {c} : call'[d] = call[d]
  BY DEF Reserve, Done, LInv, JInv, Types
<1>4. HostBudget # None => Ledger + Peak[w] <= HostBudget
  BY <1>1, AdmittedFits
<1>5. call[c].at \in {"deciding", "loading"}
  BY DEF Reserve
<1> HIDE DEF w
<1> QED BY <1>1, <1>2, <1>3, <1>4, <1>5, ChargedRoom

LEMMA LoadedRoom ==
    ASSUME LInv, JInv', Books', NEW c \in Callers, Loaded(c) \/ Restored(c) \/ ImageHere(c)
    PROVE  RoomStays'
<1> DEFINE m == call[c].id
           n == call[c].need
<1>1. n \in Nat /\ m \in Ids /\ call[c].at = "loading" /\ UNCHANGED aux
  BY DEF Loaded, Restored, ImageHere, LInv, JInv, Types, CallRecords, OpsFit
<1>2. \A y \in Ids \ {m} : charge'[y] = charge[y] /\ resident'[y] = resident[y]
  BY DEF Loaded, Restored, ImageHere, LInv, JInv, Types
<1>3. resident'[m] => charge'[m] <= (IF resident[m] THEN charge[m] ELSE 0) + n
  <2>1. charge[m] \in Nat
    BY <1>1 DEF LInv, JInv, Types
  <2>2. CASE Loaded(c)
    BY <1>1, <2>1, <2>2 DEF Loaded, LInv, JInv, Types
  <2>3. CASE Restored(c)
    <3>1. n = charge[m] /\ charge' = charge
      BY <2>3 DEF Restored, LInv, Books, NeedsFit
    <3> QED BY <1>1, <2>1, <3>1
  <2>4. CASE ImageHere(c)
    <3>1. /\ m \in Images /\ charge'[m] = Peak[m] /\ n \in {0, Peak[m]} /\ Peak[m] \in Nat
          /\ resident'[m] <=> (resident[m] \/ n > 0)
      BY <1>1, <2>4 DEF ImageHere, LInv, JInv, Books, Types, OpsFit, NeedsFit
    <3>2. CASE resident[m]
      <4>1. charge[m] = Peak[m]
        BY <3>1, <3>2 DEF LInv, Books, PeaksCharged
      <4> QED BY <1>1, <3>1, <3>2, <4>1
    <3>3. CASE ~resident[m]
      BY <1>1, <3>1, <3>3
    <3> QED BY <3>2, <3>3
  <2> QED BY <2>2, <2>3, <2>4
<1>4. ASSUME NEW y \in Held
      PROVE  Charge(y)' <= Charge(y) + (IF y = m THEN n ELSE 0)
  <2>1. Charge(y) \in Nat
    BY ChargeNat DEF LInv, JInv, Books
  <2>2. CASE y \in Workers
    <3>1. y # m /\ Charge(y)' = Charge(y)
      BY <1>1, <2>2 DEF Charge, Size, Charged
    <3> QED BY <2>1, <3>1
  <2>3. CASE y \in Ids \ {m}
    <3>1. Charge(y)' = Charge(y)
      BY <1>2, <2>3 DEF Charge, Size, Charged
    <3> QED BY <2>1, <2>3, <3>1
  <2>4. CASE y = m
    <3>1. y \notin Workers
      BY <1>1, <2>4
    <3>2. /\ Charge(y) = IF resident[y] THEN charge[y] ELSE 0
          /\ Charge(y)' = IF resident'[y] THEN charge'[y] ELSE 0
      BY <3>1 DEF Charge, Size, Charged
    <3>3. charge[m] \in Nat
      BY <1>1 DEF LInv, JInv, Types
    <3> QED BY <1>1, <1>3, <2>4, <3>2, <3>3
  <2> QED BY <2>2, <2>3, <2>4 DEF Held
<1>5. call'[c].at # "loading" /\ \A d \in Callers \ {c} : call'[d] = call[d]
  BY DEF Loaded, Restored, ImageHere, Done, At, LInv, JInv, Types, CallRecords
<1>6. HostBudget # None => Ledger + n <= HostBudget
  BY <1>1 DEF LInv, RoomStays
<1> HIDE DEF m, n
<1> QED BY <1>1, <1>4, <1>5, <1>6, ChargedRoom

LEMMA LedgerStep == LInv /\ [Next]_vars => LInv'
<1> SUFFICES ASSUME LInv, [Next]_vars PROVE LInv'
  OBVIOUS
<1>1. JInv' /\ Books'
  BY JobStep, BooksStep DEF LInv
<1>2. CASE UNCHANGED vars
  <2>1. Ledger' = Ledger /\ UNCHANGED call
    BY <1>2 DEF vars, Ledger, Charged, Size
  <2> QED BY <1>1, <2>1 DEF LInv, RoomStays
<1>3. CASE Next
  <2>1. RoomStays'
    BY <1>1, <1>3, UnchargedRoom, OutsideRoom, AdmitRoom, ReserveRoom, LoadedRoom
       DEF Next, Admitting
  <2> QED BY <1>1, <2>1 DEF LInv
<1> QED BY <1>2, <1>3

LEMMA LedgerInit == Init => LInv
<1> SUFFICES ASSUME Init PROVE LInv
  OBVIOUS
<1>1. JInv
  BY DEF Init, JInv, Types, CallRecords, OpsFit, Admissions, JobKeepsItsContext
<1>2. Books
  BY DEF Init, Books, TypesRest, RestoresKnown, PeaksCharged, NeedsFit
<1>3. RoomStays
  <2>1. \A x \in Held : Charge(x) = 0
    BY DEF Init, Charge, Charged, Held
  <2>2. Ledger = 0
    <3> DEFINE a == [x \in Held |-> Charge(x)]
               N == Len(Holders)
    <3>1. a \in [Held -> Nat] /\ Ledger = Total(a) /\ \A x \in Held : a[x] = 0
      BY <1>1, <1>2, <2>1, LedgerIs DEF JInv, Books
    <3> HIDE DEF a
    <3>2. PICK s \in [0 .. N -> Nat] :
             /\ s[0] = 0 /\ Ledger = s[N]
             /\ \A n \in 1 .. N : s[n] = s[n - 1] + a[Holders[n]]
      BY <3>1, TotalIs
    <3>3. N \in Nat /\ \A n \in 1 .. N : a[Holders[n]] = 0
      BY <3>1, HoldersAre
    <3> DEFINE Off == {n \in 0 .. N : s[n] # 0}
    <3>4. Off = {}
      <4>1. SUFFICES ASSUME Off # {} PROVE FALSE
        OBVIOUS
      <4>2. PICK n \in Off : \A k \in Off : n <= k
        <5>1. Off \in SUBSET Nat
          BY <3>3
        <5> HIDE DEF Off
        <5> QED BY <4>1, <5>1, LeastNat
      <4> HIDE DEF N
      <4>3. n \in 1 .. N /\ n - 1 \in 0 .. N /\ ~ (n <= n - 1)
        BY <3>2, <3>3, <4>2
      <4>4. s[n - 1] = 0
        BY <4>2, <4>3
      <4> QED BY <3>2, <3>3, <4>2, <4>3, <4>4
    <3> HIDE DEF N
    <3> QED BY SMTT(30), <3>2, <3>3, <3>4
  <2>3. \A c \in Callers : call[c].at # "loading"
    BY DEF Init
  <2> QED BY <2>2, <2>3 DEF RoomStays, None
<1> QED BY <1>1, <1>2, <1>3 DEF LInv

\* Whatever callers race to load, restore, reserve and draw: the books are
\* well formed and what is charged stays within the host's budget, for any
\* models, callers, sizes and machine (runtime.rs:101-103).
THEOREM BudgetIsKept == Spec => []LedgerWithinBudget
<1>1. LInv => LedgerWithinBudget
  <2>1. LInv => TypeOK
    BY DEF LInv, JInv, Books, Types, TypesRest, TypeOK, CallRecords
  <2> QED BY <2>1 DEF LInv, RoomStays, LedgerWithinBudget
<1> QED BY <1>1, LedgerInit, LedgerStep, PTL DEF Spec

\* On a desktop that reports no commit limit (any but Windows) the ceiling is
\* nowhere below what it was for the empty process, whatever has been
\* loaded since and however much memory others take (memory_snapshot.rs:104-107).
THEOREM CeilingIsHeld ==
    ASSUME ~Machine.mobile, Machine.commit = None
    PROVE  Spec => []CeilingHolds
<1>1. LInv => CeilingHolds
  <2> SUFFICES ASSUME LInv PROVE CeilingHolds
    OBVIOUS
  <2> DEFINE Present(x) == IF InMemory(x) THEN Size(x) ELSE 0
             a == [x \in Held |-> Present(x)]
  <2>1. \A x \in Held : Present(x) \in Nat
    BY DEF LInv, JInv, Books, Types, TypesRest, Held, InMemory, Size
  <2>2. a \in [Held -> Nat] /\ Rss = Base + Total(a)
    BY <2>1 DEF Rss, Held
  <2> HIDE DEF a
  <2>3. Total(a) \in Nat
    <3>1. \A y \in Held : a[y] <= a[y] + (IF y = 0 THEN 0 ELSE 0)
      BY <2>2
    <3> QED BY <2>2, <3>1, TotalGrowth
  <2>4. Base \in Nat /\ Rss \in Nat /\ Base <= Rss
    BY <2>2, <2>3
  <2>5. others \in Nat /\ Machine.total \in Nat
    BY DEF LInv, Books, TypesRest, Hosts
  <2> DEFINE before == HostAt(Base)
             after == HostAt(Rss)
             left(rss) == Minus(Machine.total - others, rss)
  <2>6. left(Base) \in Nat /\ left(Rss) \in Nat /\ Base + left(Base) <= Rss + left(Rss)
    BY <2>4, <2>5 DEF Minus, Greater
  <2>7. /\ before \in Hosts /\ after \in Hosts /\ ~before.mobile /\ before.commit = None
        /\ before.avail = left(Base) /\ after.avail = left(Rss)
        /\ after = [before EXCEPT !.avail = after.avail]
    <3> HIDE DEF left
    <3>1. before = [Machine EXCEPT !.avail = left(Base)] /\ after = [Machine EXCEPT !.avail = left(Rss)]
      BY DEF HostAt, left
    <3> HIDE DEF before, after
    <3> QED BY <2>6, <3>1 DEF Hosts
  <2> HIDE DEF before, after, left
  <2>8. SnapshotBudgets(before, Base).soft <= SnapshotBudgets(after, Rss).soft
    BY <2>4, <2>6, <2>7, CeilingStable
  <2> QED BY <2>8 DEF CeilingHolds, SoftAt, before, after
<1> QED BY <1>1, LedgerInit, LedgerStep, PTL DEF Spec
=============================================================================
