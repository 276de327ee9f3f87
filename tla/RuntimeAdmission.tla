-------------------------- MODULE RuntimeAdmission --------------------------
(***************************************************************************)
(* A Runtime that holds several models: callers load, use, evict and        *)
(* restore text models, run image jobs, reserve memory for workers, all     *)
(* against one ledger and one measured host (src/src/api/runtime.rs,        *)
(* src/src/api/runtime/admission.rs, src/src/image/).                       *)
(*                                                                          *)
(* One admission decides at a time, under a lock, in several steps: make    *)
(* room, decide, load.  A turn on a model that is resident takes no lock.   *)
(* Each text model has its own engine and controller below this ledger: it  *)
(* may unload an idle model and wake it again without being asked.          *)
(***************************************************************************)
EXTENDS MemoryPolicy, Sequences, FiniteSets, SequencesExt

CONSTANTS
    Texts,       \* text models, local files
    Images,      \* image models
    Workers,     \* holders of a reservation: speech, diarization, decision, host
    Callers,     \* threads of the application
    Nobody,
    Info,        \* Info[m]: what the header of a text model says
    Weights,     \* Weights[m]: host memory of its weights
    Peak,        \* Peak[i]: the peak reservation of an image model or worker
    Machine,     \* the host, with nothing in use
    Base,        \* the process without any model
    OthersMb,    \* what the other processes may use
    HostBudget   \* resident_memory_budget_mb, or None

Ids == Texts \cup Images
Quiet == [at |-> "idle", op |-> "none", id |-> Nobody, need |-> 0]

ASSUME RuntimeAssumption ==
    /\ Texts \cap Images = {} /\ Workers \cap Ids = {}
    /\ IsFiniteSet(Ids \cup Workers)
    /\ Nobody \notin Ids \cup Workers \cup Callers
    /\ Info \in [Texts -> Infos]
    /\ Weights \in [Texts -> Nat]
    /\ Peak \in [Images \cup Workers -> Nat \ {0}]
    /\ Machine \in Hosts
    /\ Base \in Nat /\ OthersMb \subseteq Nat
    /\ HostBudget \in Nat \cup {None}

VARIABLES
    known,    \* the ids registered so far
    resident, \* the flag of each id: its charge is on the ledger
    charge,   \* charge[m]: estimated_mb
    recent,   \* the registered ids, the longest unused first (last_used)
    loaded,   \* the engine of the text model holds weights
    parked,   \* its controller keeps the identity of an unloaded model
    job,      \* the job of an image model
    poisoned, \* its context lock is poisoned
    aux,      \* the reservation of a worker
    others,   \* memory other processes use
    lock,     \* who holds the admission lock
    call      \* what each caller is doing

vars == <<known, resident, charge, recent, loaded, parked, job, poisoned, aux,
          others, lock, call>>

Stages == {"idle", "asked", "room", "deciding", "loading", "restored", "ready", "running"}
Ops == {"none", "load", "turn", "preload", "evict", "reserve",
        "loadImage", "job", "preloadImage", "evictImage"}

TypeOK ==
    /\ known \subseteq Ids
    /\ resident \in [Ids -> BOOLEAN] /\ \A x \in Ids : resident[x] => x \in known
    /\ charge \in [Ids -> Nat]
    /\ recent \in Seq(Ids)
    /\ loaded \in [Texts -> BOOLEAN] /\ parked \in [Texts -> BOOLEAN]
    /\ job \in [Images -> {"none", "running", "ended"}]
    /\ poisoned \in [Images -> BOOLEAN]
    /\ aux \in [Workers -> {"none", "reserved", "filled"}]
    /\ others \in OthersMb
    /\ lock \in Callers \cup {Nobody}
    /\ call \in [Callers -> [at : Stages, op : Ops, id : Ids \cup Workers \cup {Nobody},
                             need : Nat]]

Init ==
    /\ known = {} /\ resident = [x \in Ids |-> FALSE] /\ charge = [x \in Ids |-> 0]
    /\ recent = <<>>
    /\ loaded = [m \in Texts |-> FALSE] /\ parked = [m \in Texts |-> FALSE]
    /\ job = [i \in Images |-> "none"] /\ poisoned = [i \in Images |-> FALSE]
    /\ aux = [w \in Workers |-> "none"]
    /\ others \in OthersMb
    /\ lock = Nobody /\ call = [c \in Callers |-> Quiet]

----------------------------------------------------------------------------
(* The ledger, the machine, and what they admit together.                   *)

\* The sum of a function over everything that holds memory.
Holders == SetToSeq(Ids \cup Workers)
Total(amount) ==
    LET sum[n \in 0 .. Len(Holders)] ==
          IF n = 0 THEN 0 ELSE sum[n - 1] + amount[Holders[n]]
    IN  sum[Len(Holders)]

Charged(x) == IF x \in Workers THEN aux[x] # "none" ELSE resident[x]
InMemory(x) == CASE x \in Texts -> loaded[x]
                 [] x \in Images -> resident[x]
                 [] x \in Workers -> aux[x] = "filled"
Size(x) == IF x \in Workers THEN Peak[x] ELSE charge[x]

Ledger == Total([x \in Ids \cup Workers |-> IF Charged(x) THEN Size(x) ELSE 0])
\* Memory the process really holds.
Rss == Base + Total([x \in Ids \cup Workers |-> IF InMemory(x) THEN Size(x) ELSE 0])

\* The host while the process holds rss.
HostAt(rss) == [Machine EXCEPT !.avail = Minus(Machine.total - others, rss)]
MemoryGovernor == LET rss == Rss IN Governor(HostAt(rss), rss, HostBudget)
CanAdmit(extra) == Allows(MemoryGovernor, Ledger, extra)

\* What loading m asks under a budget; the room it makes is for its ideal plan.
PlanOf(m, budget) == Plan(Info[m], Weights[m], None, 1, FALSE, 0, budget)
Ideal(m) == PlanTotal(Info[m], Weights[m], Lesser(4096, Or(Info[m].train, 4096)), 1, FALSE)

\* is_resident and is_model_loaded: the turn takes no lock.
Here(m) == resident[m] /\ loaded[m]
Busy(i) == job[i] # "none"
UsedNow(x) == Append(RemoveFirst(recent, x), x)

Evictable(keep) ==
    {x \in known : x # keep /\ resident[x] /\ (x \in Images => ~Busy(x))}

\* least_recently_used: the one candidate that was used before the others.
UsedBefore(x, y) ==
    \E i, j \in 1 .. Len(recent) : i < j /\ recent[i] = x /\ recent[j] = y
Victims(keep) ==
    {x \in Evictable(keep) : \A y \in Evictable(keep) \ {x} : UsedBefore(x, y)}

At(c, stage) == call' = [call EXCEPT ![c].at = stage]
Done(c) == call' = [call EXCEPT ![c] = Quiet]
\* The chats an unload of m retires end for their callers.
Retired(m) == [c \in Callers |->
    IF call[c].at = "running" /\ call[c].id = m THEN Quiet ELSE call[c]]

\* Runtime::unload: nothing when the flag is down.  The engine retires its
\* chats, drops the weights and parks the identity it had admitted.
UnloadText(m) ==
    IF resident[m]
    THEN /\ loaded' = [loaded EXCEPT ![m] = FALSE]
         /\ parked' = [parked EXCEPT ![m] = @ \/ loaded[m]]
         /\ resident' = [resident EXCEPT ![m] = FALSE]
    ELSE UNCHANGED <<loaded, parked, resident>>

----------------------------------------------------------------------------
(* A call, up to the lock.                                                  *)

\* What a caller may ask of x.  Every load and reservation is a new one:
\* an id is given to one of them.
New(x) == x \notin known /\ \A c \in Callers : call[c].id # x
Applies(op, x) ==
    CASE op = "load" -> x \in Texts /\ New(x)
      [] op \in {"turn", "preload", "evict"} -> x \in Texts \cap known
      [] op = "loadImage" -> x \in Images /\ New(x)
      [] op \in {"job", "preloadImage", "evictImage"} -> x \in Images \cap known
      [] op = "reserve" -> x \in Workers /\ New(x) /\ aux[x] = "none"
      [] OTHER -> FALSE

Ask(c, op, x) ==
    /\ call[c].at = "idle" /\ Applies(op, x)
    /\ call' = [call EXCEPT ![c] =
         [at |-> IF op \in {"turn", "preload"} /\ Here(x) THEN "restored" ELSE "asked",
          op |-> op, id |-> x, need |-> 0]]
    /\ UNCHANGED <<known, resident, charge, recent, loaded, parked, job, poisoned,
                   aux, others, lock>>

\* The admission lock is taken and the call looks again.
Enter(c) ==
    /\ call[c].at = "asked" /\ lock = Nobody
    /\ lock' = c
    /\ UNCHANGED <<known, charge, recent, loaded, parked, job, poisoned, aux, others>>

Makes(c, need) ==
    /\ call' = [call EXCEPT ![c].at = "room", ![c].need = need]
    /\ UNCHANGED resident

EnterLoad(c) ==
    /\ call[c].op = "load" /\ Enter(c)
    /\ Makes(c, Ideal(call[c].id))

EnterReserve(c) ==
    /\ call[c].op \in {"reserve", "loadImage"} /\ Enter(c)
    /\ Makes(c, Peak[call[c].id])

\* restore: another caller may have brought it back meanwhile.
EnterRestore(c) ==
    LET m == call[c].id
    IN  /\ call[c].op \in {"turn", "preload"} /\ ~Here(m) /\ Enter(c)
        /\ call' = [call EXCEPT ![c].at = "room", ![c].need = charge[m]]
        /\ resident' = [resident EXCEPT ![m] = FALSE]

FoundRestored(c) ==
    /\ call[c].at = "asked" /\ lock = Nobody
    /\ call[c].op \in {"turn", "preload"} /\ Here(call[c].id)
    /\ At(c, "restored")
    /\ UNCHANGED <<known, resident, charge, recent, loaded, parked, job, poisoned,
                   aux, others, lock>>

\* begin_image_job and preload_image_model.  A resident context asks nothing
\* more, but a job must still find the machine able to run it.
EnterImage(c) ==
    LET i == call[c].id
    IN  /\ \/ call[c].op = "job" /\ ~Busy(i)
           \/ call[c].op = "preloadImage" /\ ~resident[i]
        /\ Enter(c)
        /\ Makes(c, IF resident[i] THEN 0 ELSE Peak[i])

----------------------------------------------------------------------------
(* With the lock held: make_room, the decision, the load.                   *)

\* Variant: only a restore keeps what it asks room for.
KeepRestored(c) == IF call[c].op = "turn" THEN call[c].id ELSE Nobody
Keep(c) == IF call[c].op \in {"load", "loadImage", "reserve"} THEN Nobody ELSE call[c].id
Stuck(x) == x \in Images /\ poisoned[x]

\* One turn of the loop in make_room.
EvictOldest(c) ==
    /\ call[c].at = "room" /\ lock = c /\ ~CanAdmit(call[c].need)
    /\ \E x \in Victims(Keep(c)) :
          /\ ~Stuck(x)
          /\ \/ x \in Texts /\ UnloadText(x) /\ call' = Retired(x)
             \/ /\ x \in Images /\ resident' = [resident EXCEPT ![x] = FALSE]
                /\ UNCHANGED <<loaded, parked, call>>
    /\ UNCHANGED <<known, charge, recent, job, poisoned, aux, others, lock>>

RoomEnds(c) ==
    /\ call[c].at = "room" /\ lock = c
    /\ \/ CanAdmit(call[c].need)
       \/ Evictable(Keep(c)) = {}
       \/ \E x \in Victims(Keep(c)) : Stuck(x)
    /\ At(c, "deciding")
    /\ UNCHANGED <<known, resident, charge, recent, loaded, parked, job, poisoned,
                   aux, others, lock>>

\* What is charged in the end: a load plans again, for the room there is.
Asks(c) == IF call[c].op = "load"
           THEN PlanOf(call[c].id, AvailableBeside(MemoryGovernor, Ledger))
           ELSE call[c].need
\* Variant: only the machine is asked again after room was made.
FitsMachine(c) == Asks(c) # None /\ ProcessAllows(MemoryGovernor, Asks(c))
Fits(c) == Asks(c) # None /\ CanAdmit(Asks(c))

Refuse(c) ==
    /\ call[c].at = "deciding" /\ lock = c /\ ~Fits(c)
    /\ lock' = Nobody /\ Done(c)
    /\ UNCHANGED <<known, resident, charge, recent, loaded, parked, job, poisoned,
                   aux, others>>

\* A reservation is on the ledger before its worker allocates anything.
Reserve(c) ==
    /\ call[c].at = "deciding" /\ lock = c /\ Fits(c) /\ call[c].op = "reserve"
    /\ aux' = [aux EXCEPT ![call[c].id] = "reserved"]
    /\ lock' = Nobody /\ Done(c)
    /\ UNCHANGED <<known, resident, charge, recent, loaded, parked, job, poisoned, others>>

Admit(c) ==
    /\ call[c].at = "deciding" /\ lock = c /\ Fits(c) /\ call[c].op # "reserve"
    /\ call' = [call EXCEPT ![c].at = "loading", ![c].need = Asks(c)]
    /\ UNCHANGED <<known, resident, charge, recent, loaded, parked, job, poisoned,
                   aux, others, lock>>

\* load_local: built, registered with its charge, and used.
Loaded(c) ==
    LET m == call[c].id
    IN  /\ call[c].at = "loading" /\ call[c].op = "load"
        /\ known' = known \cup {m} /\ charge' = [charge EXCEPT ![m] = call[c].need]
        /\ loaded' = [loaded EXCEPT ![m] = TRUE]
        /\ resident' = [resident EXCEPT ![m] = TRUE]
        /\ recent' = UsedNow(m)
        /\ lock' = Nobody /\ Done(c)
        /\ UNCHANGED <<parked, job, poisoned, aux, others>>

\* reload_model went through: the controller has admitted it again.
Restored(c) ==
    LET m == call[c].id
    IN  /\ call[c].at = "loading" /\ call[c].op \in {"turn", "preload"}
        /\ loaded' = [loaded EXCEPT ![m] = TRUE]
        /\ parked' = [parked EXCEPT ![m] = FALSE]
        /\ resident' = [resident EXCEPT ![m] = TRUE]
        /\ lock' = Nobody /\ At(c, "restored")
        /\ UNCHANGED <<known, charge, recent, job, poisoned, aux, others>>

\* register_image, Entry::restore and the end of begin_image_job; a context
\* that was resident at the start is not restored.
ImageHere(c) ==
    LET i == call[c].id
    IN  /\ call[c].at = "loading" /\ call[c].op \in {"loadImage", "job", "preloadImage"}
        /\ known' = known \cup {i} /\ charge' = [charge EXCEPT ![i] = Peak[i]]
        /\ resident' = [resident EXCEPT ![i] = @ \/ call[c].need > 0]
        /\ job' = IF call[c].op = "job" THEN [job EXCEPT ![i] = "running"] ELSE job
        /\ recent' = UsedNow(i)
        /\ lock' = Nobody /\ Done(c)
        /\ UNCHANGED <<loaded, parked, poisoned, aux, others>>

\* The engine cannot be built, the reload is refused or fails, the bridge
\* does not start.  A context that was resident needs no loading.
LoadFails(c) ==
    /\ call[c].at = "loading"
    /\ call[c].op = "job" => call[c].need > 0
    /\ lock' = Nobody /\ Done(c)
    /\ loaded' \in {loaded, [m \in Texts |-> loaded[m] /\ m # call[c].id]}
    /\ UNCHANGED <<known, resident, charge, recent, parked, job, poisoned, aux, others>>

----------------------------------------------------------------------------
(* The short calls under the lock.                                          *)

Evict(c) ==
    LET m == call[c].id
    IN  /\ call[c].at = "asked" /\ call[c].op = "evict" /\ lock = Nobody
        /\ UnloadText(m)
        /\ call' = [IF resident[m] THEN Retired(m) ELSE call EXCEPT ![c] = Quiet]
        /\ UNCHANGED <<known, charge, recent, job, poisoned, aux, others, lock>>

\* evict_image_model: a job in progress and a poisoned context refuse.
EvictImage(c) ==
    LET i == call[c].id
    IN  /\ call[c].at = "asked" /\ call[c].op = "evictImage" /\ lock = Nobody
        /\ resident' = [resident EXCEPT ![i] = @ /\ (Busy(i) \/ poisoned[i])]
        /\ Done(c)
        /\ UNCHANGED <<known, charge, recent, loaded, parked, job, poisoned, aux,
                       others, lock>>

\* A second job on one model is refused; a resident one needs no preload.
ImageAsIs(c) ==
    LET i == call[c].id
    IN  /\ call[c].at = "asked" /\ lock = Nobody
        /\ \/ call[c].op = "job" /\ Busy(i) /\ UNCHANGED recent
           \/ call[c].op = "preloadImage" /\ resident[i] /\ recent' = UsedNow(i)
        /\ Done(c)
        /\ UNCHANGED <<known, resident, charge, loaded, parked, job, poisoned, aux,
                       others, lock>>

----------------------------------------------------------------------------
(* Without the lock: turns, jobs, workers, the host.                        *)

\* ensure_resident marks the model used once restore has returned.
Touch(c) ==
    /\ call[c].at = "restored"
    /\ recent' = UsedNow(call[c].id)
    /\ IF call[c].op = "preload" THEN Done(c) ELSE At(c, "ready")
    /\ UNCHANGED <<known, resident, charge, loaded, parked, job, poisoned, aux, others, lock>>

\* The turn reaches the controller, which wakes a model it finds unloaded.
StartChat(c) ==
    LET m == call[c].id
    IN  /\ call[c].at = "ready"
        /\ \/ loaded[m] /\ At(c, "running") /\ UNCHANGED <<loaded, parked>>
           \/ /\ ~loaded[m] /\ parked[m]
              /\ loaded' = [loaded EXCEPT ![m] = TRUE]
              /\ parked' = [parked EXCEPT ![m] = FALSE]
              /\ At(c, "running")
           \/ ~loaded[m] /\ Done(c) /\ UNCHANGED <<loaded, parked>>
        /\ UNCHANGED <<known, resident, charge, recent, job, poisoned, aux, others, lock>>

EndChat(c) ==
    /\ call[c].at = "running" /\ Done(c)
    /\ UNCHANGED <<known, resident, charge, recent, loaded, parked, job, poisoned,
                   aux, others, lock>>

\* The controller unloads a model nobody has used for a while; the flag and
\* the charge stay as they are.
IdleUnload(m) ==
    /\ loaded[m] /\ \A c \in Callers : ~(call[c].at = "running" /\ call[c].id = m)
    /\ loaded' = [loaded EXCEPT ![m] = FALSE]
    /\ parked' = [parked EXCEPT ![m] = TRUE]
    /\ UNCHANGED <<known, resident, charge, recent, job, poisoned, aux, others, lock, call>>

\* The worker of a job is done, failed, or saw its canceller; a driver that
\* panics poisons the lock it holds.
JobEnds(i) ==
    /\ job[i] = "running" /\ job' = [job EXCEPT ![i] = "ended"]
    /\ poisoned' \in {poisoned, [poisoned EXCEPT ![i] = TRUE]}
    /\ UNCHANGED <<known, resident, charge, recent, loaded, parked, aux, others, lock, call>>

\* JobLease::drop: the lease ends under the lock.
FinishJob(i) ==
    /\ job[i] = "ended" /\ lock = Nobody
    /\ job' = [job EXCEPT ![i] = "none"] /\ recent' = UsedNow(i)
    /\ UNCHANGED <<known, resident, charge, loaded, parked, poisoned, aux, others, lock, call>>

\* A worker allocates what it reserved, and gives it back when it has
\* stopped; a worker that fails to start gives it back at once.
WorkerFills(w) ==
    /\ aux[w] = "reserved" /\ aux' = [aux EXCEPT ![w] = "filled"]
    /\ UNCHANGED <<known, resident, charge, recent, loaded, parked, job, poisoned,
                   others, lock, call>>

WorkerReleases(w) ==
    /\ aux[w] # "none" /\ aux' = [aux EXCEPT ![w] = "none"]
    /\ UNCHANGED <<known, resident, charge, recent, loaded, parked, job, poisoned,
                   others, lock, call>>

OthersChange ==
    /\ others' \in OthersMb \ {others}
    /\ UNCHANGED <<known, resident, charge, recent, loaded, parked, job, poisoned,
                   aux, lock, call>>

Entering(c) ==
    \/ EnterLoad(c) \/ EnterReserve(c) \/ EnterRestore(c) \/ FoundRestored(c)
    \/ EnterImage(c) \/ Evict(c) \/ EvictImage(c) \/ ImageAsIs(c)
Admitting(c) ==
    \/ EvictOldest(c) \/ RoomEnds(c) \/ Refuse(c) \/ Reserve(c) \/ Admit(c)
    \/ Loaded(c) \/ Restored(c) \/ ImageHere(c) \/ LoadFails(c)
Using(c) == Touch(c) \/ StartChat(c) \/ EndChat(c)

Next ==
    \/ \E c \in Callers :
          \/ \E op \in Ops, x \in Ids \cup Workers : Ask(c, op, x)
          \/ Entering(c) \/ Admitting(c) \/ Using(c)
    \/ \E m \in Texts : IdleUnload(m)
    \/ \E i \in Images : JobEnds(i) \/ FinishJob(i)
    \/ \E w \in Workers : WorkerFills(w) \/ WorkerReleases(w)
    \/ OthersChange

Spec == Init /\ [][Next]_vars

----------------------------------------------------------------------------
(* Properties.                                                              *)

\* Whatever callers race to load, restore, reserve and draw, and however
\* often room is made and given back, the books are well formed and what is
\* charged stays within the budget the host gave: the reason for one admission
\* at a time (runtime.rs:101-103).
LedgerWithinBudget == TypeOK /\ (HostBudget # None => Ledger <= HostBudget)

\* Room made for another model, an eviction by hand or a race of the two
\* never takes the context of an image job that is generating: the worker's
\* "admitted image context is missing" (job.rs:133) cannot happen.
JobKeepsItsContext == \A i \in Images : job[i] = "running" => resident[i]

\* Loading weights does not lower the ceiling they are measured against: with
\* the same memory in other hands, the soft limit is nowhere below what it was
\* for the empty process (memory_snapshot.rs:104-107, on a desktop).
SoftAt(rss) == SnapshotBudgets(HostAt(rss), rss).soft
CeilingHolds == SoftAt(Base) <= SoftAt(Rss)

\* runtime.rs:101-103: two turns racing to restore two models "cannot both
\* pass a check the other's weights then break": weights that are in memory
\* are on the ledger.
LedgerCoversLoaded ==
    \A m \in Texts : loaded[m] =>
       \/ resident[m]
       \/ \E c \in Callers : lock = c /\ call[c].id = m
=============================================================================
