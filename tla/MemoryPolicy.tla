---------------------------- MODULE MemoryPolicy ----------------------------
(* How much memory the process may hold, and what one model asks of it: the *)
(* pure functions of memory/ and residency_policy.rs that every admission   *)
(* goes through.  Budgets, reservations and process sizes are MiB, sizes    *)
(* read from a model file are KiB.  The code's u64 values stay far below    *)
(* their width here; its subtractions saturate at 0 (Minus), and what is    *)
(* an Option in the code is a natural number or None.                       *)
EXTENDS Integers

None == -1
Lesser(a, b) == IF a <= b THEN a ELSE b
Greater(a, b) == IF a >= b THEN a ELSE b
Minus(a, b) == Greater(a - b, 0)
UpTo(a, b) == (a + b - 1) \div b        \* div_ceil
Within(a, low, high) == Greater(low, Lesser(a, high))

----------------------------------------------------------------------------
(* Tiers and base budgets.                                                  *)

\* A host as the probes report it: its memory, what is free of it, the
\* commit that is left (Windows; None elsewhere), and the owner's policy.
Hosts == [mobile : BOOLEAN, total : Nat, avail : Nat,
          commit : Nat \cup {None}, reserve : Nat \cup {None}, paging : Nat]

MachineTier(h) ==
  CASE h.mobile -> "mobile"
    [] ~h.mobile /\ h.total <= 7935 -> "constrained"
    [] ~h.mobile /\ h.total \in 7936..16127 -> "mainstream"
    [] ~h.mobile /\ h.total \in 16128..32511 -> "power"
    [] OTHER -> "workstation"

Budgets(soft, hard, inference) ==
  [soft |-> soft, hard |-> hard, inference |-> inference]

BaseBudgets(tier) ==
  CASE tier = "mobile" -> Budgets(4608, 6144, 4096)
    [] tier = "constrained" -> Budgets(1536, 2048, 800)
    [] tier = "mainstream" -> Budgets(3072, 4096, 2048)
    [] tier = "power" -> Budgets(6144, 8192, 4096)
    [] OTHER -> Budgets(32768, 49152, 24576)

\* effective_budgets: the base, clamped to what is free.
EffectiveBudgets(h) ==
  LET base == BaseBudgets(MachineTier(h))
      soft == Lesser(base.soft, h.avail \div 2)
      hard == Greater(Lesser(base.hard, (h.avail * 3) \div 4), soft)
  IN  IF h.avail = 0 THEN base
      ELSE Budgets(soft, hard,
                   IF soft < base.soft
                   THEN Greater((base.inference * soft) \div base.soft, 1)
                   ELSE base.inference)

----------------------------------------------------------------------------
(* The snapshot: ceilings for the whole process, whose present size is rss. *)

MobileBudgets(h, rss) ==
  LET base == BaseBudgets("mobile")
      free == Lesser(h.avail, Minus(h.total, rss))
      soft == Lesser(Lesser(rss + free \div 2, base.soft), h.total \div 2)
      hard == Lesser(Lesser(rss + (free * 3) \div 4, base.hard), (h.total \div 4) * 3)
  IN  Budgets(soft, Greater(hard, soft), EffectiveBudgets(h).inference)

SystemReserve(h) ==
  Lesser(Greater(IF h.reserve = None THEN Within(h.total \div 16, 512, 4096)
                                     ELSE h.reserve, 256), h.total)

PagingAllowance(h) ==
  IF h.commit # None /\ h.avail >= 256
  THEN Lesser(Lesser(h.paging, h.total \div 8), 2048) ELSE 0

\* What commit leaves the process; no bound where it is not reported.
CommitCap(h, rss, x) ==
  IF h.commit = None THEN x ELSE Lesser(x, rss + Minus(h.commit, SystemReserve(h)))

\* Variant: the pages the process already has are not added back.
DesktopSoftFree(h, rss) ==
  CommitCap(h, rss,
    Lesser(Minus(h.avail + PagingAllowance(h), SystemReserve(h)), (h.total \div 4) * 3))

DesktopSoft(h, rss) ==
  CommitCap(h, rss,
    Lesser(Minus(rss + h.avail + PagingAllowance(h), SystemReserve(h)),
           (h.total \div 4) * 3))

DesktopHard(h, rss) ==
  LET half == SystemReserve(h) \div 2
  IN  Greater(CommitCap(h, rss,
                Lesser(Minus(rss + h.avail + PagingAllowance(h), half),
                       Minus(h.total, half))),
              DesktopSoft(h, rss))

SnapshotBudgets(h, rss) ==
  IF h.mobile THEN MobileBudgets(h, rss)
  ELSE Budgets(DesktopSoft(h, rss), DesktopHard(h, rss), DesktopSoft(h, rss))

\* The levels of MemoryPressureLevel, in their order.
Normal == 0
Constrained == 1
Severe == 2
Emergency == 3

Pressure(rss, b) ==
  CASE rss >= b.hard -> Emergency
    [] rss < b.hard /\ rss >= b.soft -> Severe
    [] rss < b.hard /\ rss < b.soft /\ rss * 10 >= b.soft * 8 -> Constrained
    [] OTHER -> Normal

\* A governor: the budgets, the host's own inference budget in their place
\* when it gave one, and the process as it was measured.
Governor(h, rss, budget) ==
  LET b == SnapshotBudgets(h, rss)
  IN  [budgets |-> IF budget = None THEN b ELSE [b EXCEPT !.inference = budget],
       pressure |-> Pressure(rss, b), rss |-> rss]

\* model_load_conditions.
ProcessAllows(g, extra) == g.rss + extra < g.budgets.soft
PressureAllows(g) == g.pressure < Severe

\* available_for_model_mb, and what the ledger leaves of it.
AvailableForModel(g) ==
  Lesser(g.budgets.inference, Minus(Minus(g.budgets.soft, g.rss), 1))
AvailableBeside(g, held) ==
  Lesser(AvailableForModel(g), Minus(g.budgets.inference, held))

\* check_admission: held is what the ledger charges already.
Allows(g, held, extra) ==
  /\ held + extra <= g.budgets.inference
  /\ ProcessAllows(g, extra)
  /\ PressureAllows(g)

----------------------------------------------------------------------------
(* What a model file asks.  info: its size and cost of a token of context   *)
(* in KiB (kv is None when the header does not say), and the context it was *)
(* trained for (None when unknown).                                         *)

Infos == [file : Nat, kv : Nat \cup {None}, train : Nat \cup {None}]

Overhead == 500 * 1024
AssumedKv == 128
Or(option, default) == IF option = None THEN default ELSE option
Kv(info) == Or(info.kv, AssumedKv)

\* memory_needed.
Needed(info, context) ==
  (IF info.kv = None THEN (info.file * 6) \div 5 ELSE info.file)
  + Overhead + Kv(info) * context

\* fit_context: the largest context of whole 1K steps that fits, at least 2048.
FitContext(budget, file, kv, train) ==
  LET tokens == Minus(Minus(budget, file), Overhead) \div Greater(kv, 1)
  IN  Lesser(Greater((tokens \div 1024) * 1024, 2048), Greater(train, 2048))

MaxContext(info, budget, concurrent) ==
  FitContext(budget, info.file, Kv(info) * Greater(concurrent, 1), Or(info.train, 4096))

\* ModelInfo::fits.  request is the context asked for, or None.
FitVerdict(info, budget, request) ==
  LET largest == MaxContext(info, budget, 1)
      needed  == Needed(info, Or(request, largest))
  IN  CASE info.file >= budget -> "TooLarge"
        [] info.file < budget /\ needed <= budget -> "Fits"
        [] info.file < budget /\ needed > budget /\ Needed(info, largest) > budget
             -> "TooLarge"
        [] OTHER -> "ContextTooLarge"

\* resident_mb_from_file_mb: host memory of the weights; layers offloaded to
\* a GPU are not in it.  layers: how many the settings ask to offload, or None.
ResidentMb(file, gpu, layers) ==
  LET all       == Within(file \div 100, 12, 80)
      offloaded == IF layers = None THEN all ELSE Lesser(layers, all)
  IN  IF ~gpu \/ offloaded = 0 THEN Greater(file, 256)
      ELSE Greater((file * (all - offloaded)) \div all + 384, 256)

\* ModelMemoryPlan::estimate.
PlanTotal(info, weights, context, sessions, vision) ==
  LET fixed   == Needed(info, 0)
      working == Greater(UpTo(fixed - info.file, 1024), 500)
                 + (IF vision THEN 1024 ELSE 0)
      cache   == UpTo((Needed(info, context) - fixed) * Greater(sessions, 1), 1024)
  IN  weights + cache + working

\* candidate: an unrequested context is halved towards 2048 until it fits.
\* The initial one is at most 4096, so there are two candidates.
PlanContext(info, weights, request, sessions, vision, budget) ==
  LET initial == Or(request, Lesser(4096, Or(info.train, 4096)))
  IN  IF \/ PlanTotal(info, weights, initial, sessions, vision) <= budget
         \/ request # None
         \/ initial <= 2048
      THEN initial ELSE 2048

\* What plan_gguf charges, None when it refuses.  draft is what a draft
\* model's own plan adds (0 without one).
Plan(info, weights, request, sessions, vision, draft, budget) ==
  LET left  == Minus(budget, draft)
      total == PlanTotal(info, weights,
                         PlanContext(info, weights, request, sessions, vision, left),
                         sessions, vision)
  IN  IF total <= left THEN total + draft ELSE None

=============================================================================
