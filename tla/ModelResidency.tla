--------------------------- MODULE ModelResidency ---------------------------
(***************************************************************************)
(* What is in memory and what the controller believes is: the engine's     *)
(* loaded model, the residency inventory that admits and evicts runtimes,  *)
(* the helpers the utility worker holds, the identity kept of a model that *)
(* was unloaded, and the weights live chats keep alive                     *)
(* (src/src/controller/commands.rs, src/src/residency.rs).                 *)
(*                                                                         *)
(* All of it runs on the controller thread.  A model is known by its path; *)
(* what a generation does is in Controller.  The memory governor is a      *)
(* fresh probe of the process at every decision, so pressure and headroom  *)
(* are left open each time.                                                *)
(***************************************************************************)
EXTENDS Integers, FiniteSets

CONSTANTS
    Models,      \* paths of chat models
    Backends,    \* the backends compiled in
    BackendOf,   \* BackendOf[m]: the backend detect_backend picks for m
    InitialBackends, \* what Engine::new may start with: a backend, or Uninit
    Uninit,
    None,
    Mb,          \* Mb[r]: the estimated size of a model or helper
    Budget,      \* inference_resident_mb
    Chats,       \* chats that may be resident
    MaxRungs     \* length of the longest fallback ladder

Helpers == {"Embedder", "Reranker"}

ASSUME ResidencyAssumption ==
    /\ None \notin Models \cup Backends \cup {Uninit}
    /\ Uninit \notin Backends
    /\ Models \cap Helpers = {}
    /\ BackendOf \in [Models -> Backends]
    /\ InitialBackends \subseteq Backends \cup {Uninit}
    /\ Mb \in [Models \cup Helpers -> Nat]
    /\ Budget \in Nat
    /\ MaxRungs \in 1 .. 3

VARIABLES
    engine,    \* the active backend, its loaded model, the last one it loaded,
               \* and whether it has the settings last asked for
    llm,       \* residency.llm: the model admitted, or None
    helpers,   \* the helper slots that are occupied
    utility,   \* the helpers the utility worker holds
    parked,    \* idle_unloaded_llm
    chats,     \* chats[k]: "none", or resident on "current" or on "stale" weights
    capturing, \* resident chats that record a microphone turn
    ladder,    \* the load in progress: its model and the rungs it has left
    pass       \* the loop owes a scheduler pass

residency == <<engine, llm, helpers, utility, parked, chats, capturing, ladder, pass>>

MaybeModel == Models \cup {None}
NoLoad == [target |-> None, left |-> 0]

ResidencyTypeOK ==
    /\ engine \in [backend : Backends \cup {Uninit}, loaded : MaybeModel,
                   last : MaybeModel, settings : BOOLEAN]
    /\ llm \in MaybeModel
    /\ helpers \in SUBSET Helpers /\ utility \in SUBSET Helpers
    /\ parked \in MaybeModel
    /\ chats \in [Chats -> {"none", "current", "stale"}]
    /\ capturing \in SUBSET Chats
    /\ ladder \in [target : MaybeModel, left : 0 .. MaxRungs]
    /\ pass \in BOOLEAN

New(b) == [backend |-> b, loaded |-> None, last |-> None, settings |-> FALSE]
NoChats == [k \in Chats |-> "none"]

ResidencyInit ==
    /\ \E b \in InitialBackends : engine = New(b)
    /\ llm = None /\ parked = None
    /\ helpers = {} /\ utility = {}
    /\ chats = NoChats /\ capturing = {}
    /\ ladder = NoLoad /\ pass = FALSE

-----------------------------------------------------------------------------
(* The inventory.                                                          *)

MbOf(m) == IF m = None THEN 0 ELSE Mb[m]

\* total_estimated_mb.
Total(m, H) ==
    MbOf(m) + (IF "Embedder" \in H THEN Mb["Embedder"] ELSE 0)
            + (IF "Reranker" \in H THEN Mb["Reranker"] ELSE 0)

\* Variant: the helpers are not counted.
AdmitsAlone(m) == llm = None /\ Mb[m] <= Budget

\* can_admit for a chat model, but for the governor's own verdict.  `admit`
\* asks the same question of the same governor and the same inventory, so an
\* admission that was granted before a load is granted after it.
Admits(m) == llm = None /\ Total(None, helpers) + Mb[m] <= Budget

AdmitsHelper(h) == h \notin helpers /\ Total(llm, helpers) + Mb[h] <= Budget

-----------------------------------------------------------------------------
(* The engine.                                                             *)

Resident == {k \in Chats : chats[k] # "none"}

Unloaded(e) == [e EXCEPT !.loaded = None]

\* Chats keep the weights the engine lets go of.
Outdated(ch) == [k \in Chats |-> IF ch[k] = "current" THEN "stale" ELSE ch[k]]

\* A command is taken; if a chat was resident when the round began, a
\* scheduler pass follows it.
Command == ladder = NoLoad /\ ~pass /\ pass' = (Resident # {})

-----------------------------------------------------------------------------
(* LoadModel: a ladder of attempts, each with a safer configuration.       *)

LoadModel(m) ==
    /\ Command
    /\ \E n \in 1 .. MaxRungs : ladder' = [target |-> m, left |-> n]
    /\ engine' = [engine EXCEPT !.settings = FALSE]
    /\ UNCHANGED <<llm, helpers, utility, parked, chats, capturing>>

\* llm_swap_requires_unload: an admitted model goes first.
Swapped == IF llm = None THEN engine ELSE Unloaded(engine)
SwappedChats == IF llm = None THEN chats ELSE Outdated(chats)

\* upload_settings, which a backend not yet created cannot take.
Uploaded(e) == IF e.backend = Uninit THEN e ELSE [e EXCEPT !.settings = TRUE]

\* ensure_backend: another backend starts from nothing.
Ensured(e, b) == IF e.backend = b THEN e ELSE New(b)

\* The attempt failed: the next rung, unless the error is fatal.
NextRung(fatal) ==
    ladder' = IF fatal \/ ladder.left = 1 THEN NoLoad
              ELSE [ladder EXCEPT !.left = @ - 1]

\* Variant: the swap unloads the model and leaves its slot.
AttemptRefusedKeepsSlot ==
    /\ ladder # NoLoad
    /\ engine' = Swapped /\ chats' = SwappedChats
    /\ \E fatal \in BOOLEAN : NextRung(fatal)
    /\ UNCHANGED <<llm, helpers, utility, parked, capturing, pass>>

\* The plan, the admission or the settings were refused.
AttemptRefused ==
    /\ ladder # NoLoad
    /\ engine' = Swapped /\ chats' = SwappedChats /\ llm' = None
    /\ \E fatal \in BOOLEAN : NextRung(fatal)
    /\ UNCHANGED <<helpers, utility, parked, capturing, pass>>

\* No backend could be found for the file, or the one found failed to load it;
\* what it had loaded stays.
AttemptFails ==
    LET m == ladder.target
        e == Uploaded(Swapped)
    IN /\ ladder # NoLoad
       /\ llm' = None
       /\ \/ /\ engine' = e /\ chats' = SwappedChats
          \/ /\ engine' = Ensured(e, BackendOf[m])
             /\ chats' = IF e.backend = BackendOf[m] THEN SwappedChats ELSE Outdated(chats)
       /\ \E fatal \in BOOLEAN : NextRung(fatal)
       /\ UNCHANGED <<helpers, utility, parked, capturing, pass>>

LoadedEngine(m) == [Ensured(Uploaded(Swapped), BackendOf[m]) EXCEPT !.loaded = m, !.last = m]

\* The deferred upload to a backend the load has just created is rejected.
AttemptUploadFails ==
    /\ ladder # NoLoad /\ Swapped.backend = Uninit
    /\ engine' = LoadedEngine(ladder.target)
    /\ chats' = Outdated(chats)
    /\ \E fatal \in BOOLEAN : NextRung(fatal)
    /\ UNCHANGED <<llm, helpers, utility, parked, capturing, pass>>

\* Settings no backend could take before the load are uploaded after it.
Configured(m) ==
    IF Swapped.backend = Uninit
    THEN [LoadedEngine(m) EXCEPT !.settings = TRUE] ELSE LoadedEngine(m)

\* The load went through: it is admitted and every chat is retired.
AttemptLoads ==
    LET m == ladder.target
    IN /\ ladder # NoLoad
       /\ Total(None, helpers) + Mb[m] <= Budget
       /\ engine' = Configured(m)
       /\ llm' = m
       /\ chats' = NoChats /\ capturing' = {}
       /\ ladder' = NoLoad
       /\ UNCHANGED <<helpers, utility, parked, pass>>

-----------------------------------------------------------------------------
(* Unloading and reloading.                                                *)

\* Variant: unloading nothing forgets the identity.
ParkedAlways(m) == m

\* The identity kept of the admitted model, if there is one.
Parked(m) == IF m = None THEN parked ELSE m

UnloadModel ==
    /\ Command
    /\ engine' = Unloaded(engine)
    /\ chats' = NoChats /\ capturing' = {}
    /\ parked' = Parked(llm) /\ llm' = None
    /\ UNCHANGED <<helpers, utility, ladder>>

Now == [engine |-> engine, llm |-> llm, parked |-> parked, chats |-> chats]

\* reload_with_admission: refused, failed, or the backend loads the last model
\* it loaded and the identity that was kept is admitted.
Reloads ==
    {Now} \cup
    IF engine.last = None \/ (parked # None /\ ~Admits(parked)) THEN {}
    ELSE {[engine |-> [engine EXCEPT !.loaded = engine.last],
           llm    |-> IF parked = None THEN llm ELSE parked,
           parked |-> None,
           chats  |-> Outdated(chats)]}

Becomes(s) ==
    /\ engine' = s.engine /\ llm' = s.llm /\ parked' = s.parked

ReloadModel ==
    /\ Command
    /\ \E s \in Reloads : Becomes(s) /\ chats' = s.chats
    /\ UNCHANGED <<helpers, utility, capturing, ladder>>

-----------------------------------------------------------------------------
(* Chats come and go.                                                      *)

\* StartChat wakes a model that was unloaded; maybe_wake_llm.
Wakes == IF engine.loaded = None /\ parked # None THEN Reloads ELSE {Now}

StartChat(k) ==
    /\ Command /\ k \notin Resident
    /\ \E s \in Wakes, mic \in BOOLEAN :
          /\ Becomes(s)
          /\ \/ /\ s.engine.loaded # None
                /\ chats' = [s.chats EXCEPT ![k] = "current"]
                /\ capturing' = IF mic THEN capturing \cup {k} ELSE capturing
             \/ /\ chats' = s.chats
                /\ UNCHANGED capturing
    /\ UNCHANGED <<helpers, utility, ladder>>

\* A microphone turn is committed, or a new one begins.
SwitchCapture(k) ==
    /\ Command /\ k \in Resident
    /\ capturing' = IF k \in capturing THEN capturing \ {k} ELSE capturing \cup {k}
    /\ UNCHANGED <<engine, llm, helpers, utility, parked, chats, ladder>>

StopChat(k) ==
    /\ Command /\ k \in Resident
    /\ chats' = [chats EXCEPT ![k] = "none"]
    /\ capturing' = capturing \ {k}
    /\ UNCHANGED <<engine, llm, helpers, utility, parked, ladder>>

-----------------------------------------------------------------------------
(* Helpers and settings.                                                   *)

\* LoadEmbedder and LoadReranker: admitted, loaded by the worker, registered.
LoadHelper(h) ==
    /\ Command
    /\ \/ /\ AdmitsHelper(h)
          /\ utility' = utility \cup {h} /\ helpers' = helpers \cup {h}
       \/ UNCHANGED <<utility, helpers>>     \* denied, or the load failed
    /\ UNCHANGED <<engine, llm, parked, chats, capturing, ladder>>

ApplySettings ==
    /\ Command
    /\ engine' = Uploaded(engine)
    /\ UNCHANGED <<llm, helpers, utility, parked, chats, capturing, ladder>>

-----------------------------------------------------------------------------
(* The scheduler pass.                                                     *)

Poll ==
    /\ Command /\ Resident # {}
    /\ UNCHANGED <<engine, llm, helpers, utility, parked, chats, capturing, ladder>>

\* Emergency acts like Severe here.
Pressures == {"Normal", "Constrained", "Severe"}

\* unload_for_pressure and evict_idle_helpers: the helper slots that are left,
\* and the chat model's.  A resident chat makes the model the foreground.
PressureHelpers(p) == IF p = "Normal" THEN helpers ELSE {}
PressureLlm(p, resident) == IF p = "Severe" /\ resident = {} THEN None ELSE llm

\* unload_evicted_helper, for every helper outside H.
Told(H) == utility \ (helpers \ H)

\* Captures in X have expired; the helpers outside H were evicted, here for
\* pressure or for idleness, and the worker told.
Maintenance(X, H, p) ==
    LET left == [k \in Chats |-> IF k \in X THEN "none" ELSE chats[k]]
        kept == PressureLlm(p, Resident \ X)
    IN /\ helpers' = H /\ utility' = Told(H)
       /\ \/ /\ llm' = kept
             /\ chats' = left /\ capturing' = capturing \ X
             /\ UNCHANGED <<engine, parked>>
          \/ \* maybe_idle_unload_llm: nothing is in flight and time is up
             /\ kept # None /\ capturing \ X = {}
             /\ engine' = Unloaded(engine)
             /\ chats' = NoChats /\ capturing' = {}
             /\ llm' = None /\ parked' = kept

\* Maintenance is due, or not; a pass also retires system tasks, which
\* StopChat stands for.
Pass ==
    /\ ladder = NoLoad /\ pass /\ pass' = FALSE
    /\ \/ \E X \in SUBSET capturing, p \in Pressures :
             \E H \in SUBSET PressureHelpers(p) : Maintenance(X, H, p)
       \/ UNCHANGED <<engine, llm, helpers, utility, parked, chats, capturing>>
    /\ UNCHANGED ladder

-----------------------------------------------------------------------------
Attempt == AttemptRefused \/ AttemptFails \/ AttemptUploadFails \/ AttemptLoads

ResidencyNext ==
    \/ \E m \in Models : LoadModel(m)
    \/ Attempt
    \/ UnloadModel \/ ReloadModel
    \/ \E k \in Chats : StartChat(k) \/ SwitchCapture(k) \/ StopChat(k)
    \/ \E h \in Helpers : LoadHelper(h)
    \/ ApplySettings
    \/ Poll \/ Pass

ResidencySpec == ResidencyInit /\ [][ResidencyNext]_residency

-----------------------------------------------------------------------------
(* What must hold.                                                         *)

\* The inventory never charges for a chat model that is not in memory: every
\* path that unloads it, a failed load and a switch of backend included,
\* vacates the slot.
NoPhantomResident == llm # None => engine.loaded # None

\* Helper slots and the worker agree: what is evicted is unloaded and what is
\* loaded is counted.
HelpersAccounted == utility = helpers

\* The inventory of residency.rs says what is in memory: both of the above.
BooksTrue == NoPhantomResident /\ HelpersAccounted

\* Whatever is admitted, evicted, swapped, parked and re-admitted, the
\* runtimes on the books stay within the inference budget.
BudgetRespected == Total(llm, helpers) <= Budget

\* The identity kept of an unloaded model is only replaced by a newer one or
\* spent on an admission (a refused reload keeps it for a retry).
IdentityKept ==
    [][(parked # None /\ parked' # parked) => \/ parked' # None
                                              \/ parked' = None /\ llm' = parked]_residency

-----------------------------------------------------------------------------
(* What comments and docs say, and the code does not keep.                 *)

\* "the saved residency identity re-admits the same runtime"
AdmittedIsLoaded == llm # None => engine.loaded = llm

\* "Release whatever the residency policy just evicted."
EvictedIsReleased == [][(pass /\ llm # None /\ llm' = None) => engine'.loaded = None]_residency
=============================================================================
