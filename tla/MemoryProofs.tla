---------------------------- MODULE MemoryProofs ----------------------------
(* Proofs about who holds a model's memory and who answers for it: first   *)
(* the residency books of a controller (ModelResidency), then the native   *)
(* workers and their reservations (NativeWorker).                          *)
EXTENDS ModelResidency, NativeWorker, FiniteSetTheorems, SequenceTheorems, TLAPS

-----------------------------------------------------------------------------
(* The residency books: any models, backends, sizes and budget.            *)

\* The books and the memory agree, in the parts that do so at every step.
Books == NoPhantomResident /\ HelpersAccounted /\ BudgetRespected

\* A load in progress names a model and has a rung to go.
LadderOK == ladder = NoLoad \/ ladder \in [target : Models, left : 1 .. MaxRungs]

IInv == ResidencyTypeOK /\ LadderOK /\ Books

USE DEF Helpers, MaybeModel

\* An admitted model or helper fits beside what is already on the books.
LEMMA TotalNat ==
    ASSUME NEW m \in MaybeModel, NEW H \in SUBSET Helpers
    PROVE  /\ Total(m, H) \in Nat
           /\ Total(None, H) <= Total(m, H)
           /\ m # None => Total(m, H) = Total(None, H) + Mb[m]
<1>1. MbOf(m) \in Nat /\ MbOf(None) = 0 /\ (m # None => MbOf(m) = Mb[m])
  BY ResidencyAssumption DEF ResidencyAssumption, MbOf
<1>2. Mb["Embedder"] \in Nat /\ Mb["Reranker"] \in Nat
  BY ResidencyAssumption DEF ResidencyAssumption
<1> QED BY <1>1, <1>2 DEF Total

\* Fewer helpers weigh less.
LEMMA TotalShrinks ==
    ASSUME NEW m \in MaybeModel,
           NEW H \in SUBSET Helpers, NEW G \in SUBSET H
    PROVE  Total(m, G) <= Total(m, H)
<1>1. MbOf(m) \in Nat BY ResidencyAssumption DEF ResidencyAssumption, MbOf
<1>2. Mb["Embedder"] \in Nat /\ Mb["Reranker"] \in Nat
  BY ResidencyAssumption DEF ResidencyAssumption
<1> QED BY <1>1, <1>2 DEF Total

\* One more helper weighs what that helper weighs.
LEMMA TotalGrows ==
    ASSUME NEW m \in MaybeModel,
           NEW H \in SUBSET Helpers, NEW h \in Helpers, h \notin H
    PROVE  Total(m, H \cup {h}) = Total(m, H) + Mb[h]
<1>1. MbOf(m) \in Nat BY ResidencyAssumption DEF ResidencyAssumption, MbOf
<1>2. Mb["Embedder"] \in Nat /\ Mb["Reranker"] \in Nat
  BY ResidencyAssumption DEF ResidencyAssumption
<1> QED BY <1>1, <1>2 DEF Total

LEMMA BooksInit ==
    ASSUME ResidencyInit
    PROVE  IInv
<1>0. PICK b \in InitialBackends : engine = New(b)
  BY DEF ResidencyInit
<1>1. New(b) \in [backend : Backends \cup {Uninit}, loaded : MaybeModel,
                  last : MaybeModel, settings : BOOLEAN]
  BY ResidencyAssumption DEF ResidencyAssumption, New, MaybeModel
<1>2. NoLoad \in [target : MaybeModel, left : 0 .. MaxRungs]
  BY ResidencyAssumption DEF ResidencyAssumption, NoLoad
<1>3. ResidencyTypeOK
  BY <1>0, <1>1, <1>2 DEF ResidencyInit, ResidencyTypeOK, NoChats, MaybeModel
<1>4. Total(None, {}) = 0
  BY DEF Total, MbOf
<1> QED
  BY <1>3, <1>4, ResidencyAssumption DEF ResidencyAssumption, ResidencyInit, IInv, LadderOK, Books, NoPhantomResident,
     HelpersAccounted, BudgetRespected

-----------------------------------------------------------------------------
(* Every step keeps the types.                                             *)

\* What the engine operators return.
LEMMA EngineTypes ==
    ASSUME ResidencyTypeOK, NEW m \in Models
    PROVE  LET Engines == [backend : Backends \cup {Uninit}, loaded : MaybeModel,
                           last : MaybeModel, settings : BOOLEAN]
           IN /\ Unloaded(engine) \in Engines /\ Swapped \in Engines
              /\ Uploaded(engine) \in Engines
              /\ Ensured(Uploaded(Swapped), BackendOf[m]) \in Engines
              /\ Uploaded(Swapped) \in Engines
              /\ LoadedEngine(m) \in Engines
              /\ [LoadedEngine(m) EXCEPT !.settings = TRUE] \in Engines
              /\ LoadedEngine(m).loaded = m
<1> DEFINE Engines == [backend : Backends \cup {Uninit}, loaded : MaybeModel,
                       last : MaybeModel, settings : BOOLEAN]
<1>1. engine \in Engines /\ BackendOf[m] \in Backends
  BY ResidencyAssumption DEF ResidencyTypeOK, ResidencyAssumption
<1>2. \A e \in Engines : Unloaded(e) \in Engines /\ Uploaded(e) \in Engines
  BY DEF Unloaded, Uploaded
<1>3. \A e \in Engines, b \in Backends : Ensured(e, b) \in Engines
  BY DEF Ensured, New
<1>4. Swapped \in Engines BY <1>1, <1>2 DEF Swapped
<1>5. Ensured(Uploaded(Swapped), BackendOf[m]) \in Engines BY <1>1, <1>2, <1>3, <1>4
<1>6. /\ LoadedEngine(m) \in Engines /\ LoadedEngine(m).loaded = m
      /\ [LoadedEngine(m) EXCEPT !.settings = TRUE] \in Engines
  BY <1>5 DEF LoadedEngine
<1> QED BY <1>1, <1>2, <1>4, <1>5, <1>6

LEMMA ChatTypes ==
    ASSUME ResidencyTypeOK
    PROVE  /\ Outdated(chats) \in [Chats -> {"none", "current", "stale"}]
           /\ SwappedChats \in [Chats -> {"none", "current", "stale"}]
           /\ NoChats \in [Chats -> {"none", "current", "stale"}]
  BY DEF ResidencyTypeOK, Outdated, SwappedChats, NoChats

LEMMA LadderTypes ==
    ASSUME ResidencyTypeOK, LadderOK, ladder # NoLoad, NEW fatal \in BOOLEAN, NextRung(fatal)
    PROVE  /\ ladder' \in [target : MaybeModel, left : 0 .. MaxRungs]
           /\ LadderOK'
<1>1. ladder \in [target : Models, left : 1 .. MaxRungs] BY DEF LadderOK
<1>2. MaxRungs \in Nat BY ResidencyAssumption DEF ResidencyAssumption
<1>3. NoLoad \in [target : MaybeModel, left : 0 .. MaxRungs] BY <1>2 DEF NoLoad
<1>4. CASE ladder' = NoLoad BY <1>3, <1>4 DEF LadderOK
<1>5. CASE ladder' = [ladder EXCEPT !.left = ladder.left - 1] /\ ladder.left # 1
  BY <1>1, <1>2, <1>5 DEF LadderOK
<1> QED BY <1>4, <1>5 DEF NextRung

\* With the chat model's slot vacated the books are no heavier.
LEMMA Vacated ==
    ASSUME ResidencyTypeOK, BudgetRespected
    PROVE  Total(None, helpers) <= Budget
  BY TotalNat, ResidencyAssumption DEF ResidencyTypeOK, BudgetRespected, ResidencyAssumption

\* What reload_with_admission may leave behind keeps types and books.
LEMMA ReloadsKeep ==
    ASSUME IInv, NEW s \in Reloads
    PROVE  /\ s.engine \in [backend : Backends \cup {Uninit}, loaded : MaybeModel,
                            last : MaybeModel, settings : BOOLEAN]
           /\ s.llm \in MaybeModel /\ s.parked \in MaybeModel
           /\ s.chats \in [Chats -> {"none", "current", "stale"}]
           /\ s.llm # None => s.engine.loaded # None
           /\ Total(s.llm, helpers) <= Budget
<1> USE DEF IInv, Books
<1>1. CASE s = Now
  BY <1>1 DEF Now, ResidencyTypeOK, NoPhantomResident, BudgetRespected
<1>2. CASE s # Now
  <2> DEFINE l == IF parked = None THEN llm ELSE parked
  <2>1. /\ engine.last # None
        /\ parked = None \/ Admits(parked)
        /\ s = [engine |-> [engine EXCEPT !.loaded = engine.last], llm |-> l,
                parked |-> None, chats |-> Outdated(chats)]
    BY <1>2 DEF Reloads
  <2>2. Total(l, helpers) <= Budget
    <3>1. CASE parked = None BY <3>1 DEF BudgetRespected
    <3>2. CASE parked # None
      <4>1. Total(None, helpers) + Mb[parked] <= Budget BY <2>1, <3>2 DEF Admits
      <4>2. Total(parked, helpers) = Total(None, helpers) + Mb[parked]
        BY <3>2, TotalNat DEF ResidencyTypeOK
      <4> QED BY <3>2, <4>1, <4>2
    <3> QED BY <3>1, <3>2
  <2>3. [engine EXCEPT !.loaded = engine.last] \in
          [backend : Backends \cup {Uninit}, loaded : MaybeModel,
           last : MaybeModel, settings : BOOLEAN]
    BY DEF ResidencyTypeOK
  <2> QED BY <2>1, <2>2, <2>3, ChatTypes DEF ResidencyTypeOK
<1> QED BY <1>1, <1>2

LEMMA WakesReload == Wakes \subseteq Reloads
  BY DEF Wakes, Reloads

-----------------------------------------------------------------------------
(* The inductive step.                                                     *)

LEMMA ResidencyStep ==
    ASSUME IInv, [ResidencyNext]_residency
    PROVE  IInv'
<1> USE DEF IInv, Books
<1>1. ASSUME NEW m \in Models, LoadModel(m) PROVE IInv'
  <2>1. \A n \in 1 .. MaxRungs :
           /\ [target |-> m, left |-> n] \in [target : MaybeModel, left : 0 .. MaxRungs]
           /\ [target |-> m, left |-> n] \in [target : Models, left : 1 .. MaxRungs]
    BY ResidencyAssumption DEF ResidencyAssumption
  <2>2. LadderOK' BY <1>1, <2>1 DEF LoadModel, LadderOK
  <2>3. ResidencyTypeOK' BY <1>1, <2>1 DEF LoadModel, Command, ResidencyTypeOK
  <2> QED
    BY <1>1, <2>2, <2>3 DEF LoadModel, ResidencyTypeOK, NoPhantomResident,
       HelpersAccounted, BudgetRespected
<1>2. CASE AttemptRefused
  <2>1. ResidencyTypeOK' /\ LadderOK'
    <3>1. PICK m \in Models : TRUE BY <1>2 DEF AttemptRefused, LadderOK
    <3> QED BY <1>2, <3>1, EngineTypes, ChatTypes, LadderTypes DEF AttemptRefused, ResidencyTypeOK
  <2> QED BY <1>2, <2>1, Vacated DEF AttemptRefused, NoPhantomResident, HelpersAccounted, BudgetRespected
<1>3. CASE AttemptFails
  <2> DEFINE m == ladder.target
  <2>1. m \in Models BY <1>3 DEF AttemptFails, LadderOK
  <2>2. ResidencyTypeOK' /\ LadderOK'
    <3>1. engine' \in {Uploaded(Swapped), Ensured(Uploaded(Swapped), BackendOf[m])}
      BY <1>3 DEF AttemptFails
    <3>2. chats' \in {SwappedChats, Outdated(chats)} BY <1>3 DEF AttemptFails
    <3>3. PICK fatal \in BOOLEAN : NextRung(fatal) BY <1>3 DEF AttemptFails
    <3>4. /\ ladder # NoLoad /\ llm' = None
          /\ UNCHANGED <<helpers, utility, parked, capturing, pass>>
      BY <1>3 DEF AttemptFails
    <3>5. /\ ladder' \in [target : MaybeModel, left : 0 .. MaxRungs]
          /\ LadderOK'
      BY <3>3, <3>4, LadderTypes
    <3>6. engine' \in [backend : Backends \cup {Uninit}, loaded : MaybeModel,
                      last : MaybeModel, settings : BOOLEAN]
      BY <2>1, <3>1, EngineTypes
    <3>7. chats' \in [Chats -> {"none", "current", "stale"}]
      BY <3>2, ChatTypes
    <3> QED BY <3>4, <3>5, <3>6, <3>7 DEF ResidencyTypeOK
  <2> QED BY <1>3, <2>2, Vacated DEF AttemptFails, NoPhantomResident, HelpersAccounted, BudgetRespected
<1>4. CASE AttemptUploadFails
  <2> DEFINE m == ladder.target
  <2>1. m \in Models BY <1>4 DEF AttemptUploadFails, LadderOK
  <2>2. ResidencyTypeOK' /\ LadderOK'
    BY <1>4, <2>1, EngineTypes, ChatTypes, LadderTypes DEF AttemptUploadFails, ResidencyTypeOK
  <2>3. engine'.loaded = m /\ m # None
    BY <1>4, <2>1, EngineTypes, ResidencyAssumption DEF AttemptUploadFails, ResidencyAssumption
  <2> QED
    BY <1>4, <2>2, <2>3 DEF AttemptUploadFails, NoPhantomResident, HelpersAccounted, BudgetRespected
<1>5. CASE AttemptLoads
  <2> DEFINE m == ladder.target
  <2>1. m \in Models /\ m # None
    BY <1>5, ResidencyAssumption DEF AttemptLoads, Configured, LadderOK, ResidencyAssumption
  <2>2. /\ llm' = m /\ chats' = NoChats /\ capturing' = {}
        /\ ladder' = NoLoad /\ UNCHANGED <<helpers, utility, parked, pass>>
        /\ Total(None, helpers) + Mb[m] <= Budget
    BY <1>5 DEF AttemptLoads, Configured
  <2>3. /\ engine' \in [backend : Backends \cup {Uninit}, loaded : MaybeModel,
                        last : MaybeModel, settings : BOOLEAN]
        /\ engine'.loaded = m
    BY <1>5, <2>1, EngineTypes DEF AttemptLoads, Configured
  <2>4. ResidencyTypeOK' /\ LadderOK'
    <3>1. NoLoad \in [target : MaybeModel, left : 0 .. MaxRungs]
      BY ResidencyAssumption DEF ResidencyAssumption, NoLoad
    <3> QED BY <2>1, <2>2, <2>3, <3>1, ChatTypes DEF ResidencyTypeOK, LadderOK
  <2>5. Total(m, helpers) = Total(None, helpers) + Mb[m]
    BY <2>1, TotalNat DEF ResidencyTypeOK
  <2> QED
    BY <2>1, <2>2, <2>3, <2>4, <2>5 DEF NoPhantomResident, HelpersAccounted, BudgetRespected
<1>6. CASE UnloadModel
  <2>1. ResidencyTypeOK' /\ LadderOK'
    BY <1>6, ChatTypes DEF UnloadModel, Command, Unloaded, Parked, ResidencyTypeOK, LadderOK
  <2> QED BY <1>6, <2>1, Vacated DEF UnloadModel, NoPhantomResident, HelpersAccounted, BudgetRespected
<1>7. CASE ReloadModel
  <2>1. PICK s \in Reloads : Becomes(s) /\ chats' = s.chats BY <1>7 DEF ReloadModel
  <2>2. UNCHANGED <<helpers, utility, capturing, ladder>> /\ pass' \in BOOLEAN
    BY <1>7 DEF ReloadModel, Command
  <2>3. ResidencyTypeOK' /\ LadderOK' BY <2>1, <2>2, ReloadsKeep DEF Becomes, ResidencyTypeOK, LadderOK
  <2> QED
    BY <2>1, <2>2, <2>3, ReloadsKeep
    DEF Becomes, NoPhantomResident, HelpersAccounted, BudgetRespected
<1>8. ASSUME NEW k \in Chats, StartChat(k) PROVE IInv'
  <2>1. PICK s \in Wakes : /\ Becomes(s)
                           /\ chats' \in {s.chats, [s.chats EXCEPT ![k] = "current"]}
                           /\ capturing' \in {capturing, capturing \cup {k}}
    BY <1>8 DEF StartChat
  <2>2. s \in Reloads BY WakesReload
  <2>3. UNCHANGED <<helpers, utility, ladder>> /\ pass' \in BOOLEAN
    BY <1>8 DEF StartChat, Command
  <2>4. ResidencyTypeOK' /\ LadderOK' BY <2>1, <2>2, <2>3, ReloadsKeep DEF Becomes, ResidencyTypeOK, LadderOK
  <2> QED
    BY <2>1, <2>2, <2>3, <2>4, ReloadsKeep
    DEF Becomes, NoPhantomResident, HelpersAccounted, BudgetRespected
<1>9. ASSUME NEW k \in Chats, SwitchCapture(k) \/ StopChat(k) PROVE IInv'
  <2>1. ResidencyTypeOK' /\ LadderOK'
    BY <1>9 DEF SwitchCapture, StopChat, Command, ResidencyTypeOK, LadderOK
  <2> QED
    BY <1>9, <2>1 DEF SwitchCapture, StopChat, NoPhantomResident, HelpersAccounted, BudgetRespected
<1>10. ASSUME NEW h \in Helpers, LoadHelper(h) PROVE IInv'
  <2>1. ResidencyTypeOK' /\ LadderOK' BY <1>10 DEF LoadHelper, Command, ResidencyTypeOK, LadderOK
  <2>2. NoPhantomResident' /\ HelpersAccounted'
    BY <1>10 DEF LoadHelper, NoPhantomResident, HelpersAccounted
  <2>3. BudgetRespected'
    <3>1. CASE UNCHANGED helpers BY <1>10, <3>1 DEF LoadHelper, BudgetRespected
    <3>2. CASE AdmitsHelper(h) /\ helpers' = helpers \cup {h}
      <4>1. Total(llm, helpers \cup {h}) = Total(llm, helpers) + Mb[h]
        BY ZenonT(30), <3>2, TotalGrows DEF ResidencyTypeOK, AdmitsHelper
      <4> QED BY <1>10, <3>2, <4>1 DEF LoadHelper, AdmitsHelper, BudgetRespected
    <3> QED BY <1>10, <3>1, <3>2 DEF LoadHelper
  <2> QED BY <2>1, <2>2, <2>3
<1>11. CASE ApplySettings
  <2>1. ResidencyTypeOK' /\ LadderOK'
    BY <1>11 DEF ApplySettings, Command, Uploaded, ResidencyTypeOK, LadderOK
  <2>2. engine'.loaded = engine.loaded
    BY <1>11 DEF ApplySettings, Uploaded, ResidencyTypeOK
  <2> QED
    BY <1>11, <2>1, <2>2 DEF ApplySettings, NoPhantomResident, HelpersAccounted, BudgetRespected
<1>12. CASE Poll
  BY <1>12 DEF Poll, Command, ResidencyTypeOK, LadderOK, NoPhantomResident, HelpersAccounted, BudgetRespected
<1>13. CASE Pass
  <2>1. CASE UNCHANGED <<engine, llm, helpers, utility, parked, chats, capturing>>
    BY <1>13, <2>1 DEF Pass, ResidencyTypeOK, LadderOK, NoPhantomResident, HelpersAccounted, BudgetRespected
  <2>2. ASSUME NEW X \in SUBSET capturing, NEW p \in Pressures,
               NEW H \in SUBSET PressureHelpers(p), Maintenance(X, H, p)
        PROVE  IInv'
    <3> DEFINE kept == PressureLlm(p, Resident \ X)
    <3>1. H \subseteq helpers /\ kept \in {None, llm}
      BY DEF PressureHelpers, PressureLlm
    <3>2. /\ helpers' = H /\ utility' = utility \ (helpers \ H)
          /\ UNCHANGED ladder /\ pass' = FALSE
      BY <1>13, <2>2 DEF Pass, Maintenance, Told
    <3>3. HelpersAccounted' BY <3>1, <3>2 DEF HelpersAccounted
    <3>4. ResidencyTypeOK' /\ LadderOK'
      <4>1. llm' \in MaybeModel /\ parked' \in MaybeModel
        BY <2>2, <3>1 DEF Maintenance, ResidencyTypeOK
      <4>2. /\ chats' \in [Chats -> {"none", "current", "stale"}]
            /\ capturing' \in SUBSET Chats
        BY <2>2, ChatTypes DEF Maintenance, ResidencyTypeOK
      <4>3. engine' \in {engine, Unloaded(engine)} BY <2>2 DEF Maintenance
      <4> QED BY ZenonT(30), <3>1, <3>2, <4>1, <4>2, <4>3 DEF Unloaded, ResidencyTypeOK, LadderOK
    <3>5. llm' \in {None, llm} /\ (llm' # None => UNCHANGED engine)
      BY <2>2, <3>1 DEF Maintenance
    <3>6. NoPhantomResident' BY <3>5 DEF NoPhantomResident
    <3>7. BudgetRespected'
      <4>1. Total(llm, H) <= Total(llm, helpers) /\ Total(llm, H) \in Nat
            /\ Total(llm, helpers) \in Nat /\ Total(None, H) \in Nat
            /\ Total(None, H) <= Total(llm, H)
        BY <3>1, TotalShrinks, TotalNat DEF ResidencyTypeOK
      <4> QED BY <3>2, <3>5, <4>1, ResidencyAssumption DEF BudgetRespected, ResidencyAssumption
    <3> QED BY <3>3, <3>4, <3>6, <3>7
  <2> QED BY <1>13, <2>1, <2>2 DEF Pass
<1>14. CASE UNCHANGED residency
  BY <1>14 DEF residency, ResidencyTypeOK, LadderOK, NoPhantomResident, HelpersAccounted, BudgetRespected
<1> QED
  BY <1>1, <1>2, <1>3, <1>4, <1>5, <1>6, <1>7, <1>8, <1>9, <1>10, <1>11, <1>12,
     <1>13, <1>14 DEF ResidencyNext, Attempt

-----------------------------------------------------------------------------
(* The theorems.                                                           *)

\* The types, and the ladder's shape, hold in every reachable state.
THEOREM ResidencyTypes == ResidencySpec => []ResidencyTypeOK
<1>1. ResidencyInit => IInv BY BooksInit
<1>2. IInv /\ [ResidencyNext]_residency => IInv' BY ResidencyStep
<1>3. IInv => ResidencyTypeOK BY DEF IInv
<1> QED BY <1>1, <1>2, <1>3, PTL DEF ResidencySpec

\* run_residency_maintenance, the ladder, unloading and reloading together: an
\* admitted chat model is a loaded one, and the helper slots are exactly the
\* helpers the utility utility holds.
THEOREM BooksAreTrue == ResidencySpec => []BooksTrue
<1>1. ResidencyInit => IInv BY BooksInit
<1>2. IInv /\ [ResidencyNext]_residency => IInv' BY ResidencyStep
<1>3. IInv => BooksTrue BY DEF IInv, Books, BooksTrue
<1> QED BY <1>1, <1>2, <1>3, PTL DEF ResidencySpec

\* ResidencyInventory never holds more than the budget, for any sizes, any
\* number of models and any ladder.
THEOREM BudgetKept == ResidencySpec => []BudgetRespected
<1>1. ResidencyInit => IInv BY BooksInit
<1>2. IInv /\ [ResidencyNext]_residency => IInv' BY ResidencyStep
<1>3. IInv => BudgetRespected BY DEF IInv, Books
<1> QED BY <1>1, <1>2, <1>3, PTL DEF ResidencySpec

\* What one step may do to the identity kept of an unloaded model.
KeepsIdentity == (parked # None /\ parked' # parked) => \/ parked' # None
                                                        \/ parked' = None /\ llm' = parked

LEMMA ReloadsSpend ==
    ASSUME NEW s \in Reloads
    PROVE  s.parked = parked \/ (s.parked = None /\ (parked # None => s.llm = parked))
  BY DEF Reloads, Now

\* A refused wake or reload keeps the identity for a retry, and nothing else
\* loses it.
THEOREM IdentityIsKept == ResidencySpec => IdentityKept
<1>1. [ResidencyNext]_residency => [KeepsIdentity]_residency
  <2> SUFFICES ASSUME [ResidencyNext]_residency PROVE [KeepsIdentity]_residency OBVIOUS
  <2>1. CASE UnloadModel BY <2>1 DEF UnloadModel, Parked, KeepsIdentity
  <2>2. CASE ReloadModel BY <2>2, ReloadsSpend DEF ReloadModel, Becomes, KeepsIdentity
  <2>3. ASSUME NEW k \in Chats, StartChat(k) PROVE KeepsIdentity
    BY <2>3, ReloadsSpend, WakesReload DEF StartChat, Becomes, KeepsIdentity
  <2>4. CASE Pass BY <2>4 DEF Pass, Maintenance, KeepsIdentity
  <2>5. CASE parked' = parked BY <2>5 DEF KeepsIdentity
  <2>6. ASSUME Attempt \/ ApplySettings \/ Poll PROVE parked' = parked
    BY <2>6 DEF Attempt, AttemptRefused, AttemptFails, AttemptUploadFails, AttemptLoads, Configured,
       ApplySettings, Poll
  <2>7. ASSUME NEW m \in Models, LoadModel(m) PROVE parked' = parked
    BY <2>7 DEF LoadModel
  <2>8. ASSUME NEW k \in Chats, SwitchCapture(k) \/ StopChat(k) PROVE parked' = parked
    BY <2>8 DEF SwitchCapture, StopChat
  <2>9. ASSUME NEW h \in Helpers, LoadHelper(h) PROVE parked' = parked
    BY <2>9 DEF LoadHelper
  <2> QED
    BY <2>1, <2>2, <2>3, <2>4, <2>5, <2>6, <2>7, <2>8, <2>9 DEF ResidencyNext, residency, KeepsIdentity
<1> QED BY <1>1, PTL DEF ResidencySpec, IdentityKept, KeepsIdentity

-----------------------------------------------------------------------------
(* The native workers: any callers, queues and kinds of worker.            *)

----------------------------------------------------------------------------
(* Where the worker is: between two jobs, in its program, in a stream, or   *)
(* leaving.                                                                 *)

AllKinds == {"speech", "decision", "diarizer"}
IdleSteps == {"load", "top", "next"}
JobSteps == {"arm", "recheck", "running", "check", "run", "verify", "disarm", "answer",
             "ready", "refuse", "amend", "free"}
LeaveSteps == {"hangup", "drain", "release", "stop", "gone"}

Rest(p, k) == SubSeq(p, k, Len(p))

Between == todo \in {<<"load">>, <<"top">>, <<"next">>}
InProgram(k) == todo = Rest(Program, k)
InStream(k) ==
    /\ Program[k] = "run"
    /\ todo \in Seq(JobSteps \cup LiveSteps) /\ todo # <<>>
    /\ Head(todo) \in LiveSteps /\ Tail(todo) = Rest(Program, k + 1)
Working ==
    \/ Between
    \/ \E k \in 1 .. Len(Program) : InProgram(k)
    \/ \E k \in 1 .. Len(Program) : InStream(k)
LeavingAt(k) == todo = Rest(Leave, k)

\* Which step of Leave gives the reservation back; the status is told third.
ReleaseAt == IF kind = "decision" THEN 1 ELSE 2

LEMMA ProgramIs ==
    ASSUME kind \in AllKinds
    PROVE  /\ Program \in Seq(JobSteps) /\ Len(Program) \in Nat /\ Len(Program) >= 9
           /\ \A k \in 1 .. Len(Program) :
                 /\ Program[k] = "check" => k + 3 <= Len(Program)
                 /\ Program[k] = "run" => k + 1 <= Len(Program)
<1>1. CASE kind = "speech"
  <2>1. Program = <<"arm", "recheck", "running", "check", "run", "verify", "disarm",
                    "answer", "ready">>
    BY <1>1 DEF Program
  <2> QED BY <2>1 DEF JobSteps
<1>2. CASE kind = "decision"
  <2>1. Program = <<"refuse", "running", "arm", "recheck", "check", "run", "verify",
                    "disarm", "amend", "answer", "ready">>
    BY <1>2 DEF Program
  <2> QED BY <2>1 DEF JobSteps
<1>3. CASE kind = "diarizer"
  <2>1. Program = <<"arm", "recheck", "running", "run", "verify", "disarm", "free",
                    "ready", "answer">>
    BY <1>3 DEF Program
  <2> QED BY <2>1 DEF JobSteps
<1> QED BY <1>1, <1>2, <1>3 DEF AllKinds

LEMMA LeaveIs ==
    /\ Leave \in Seq(LeaveSteps) /\ Len(Leave) \in {3, 5} /\ Len(Leave) >= 3
    /\ ReleaseAt \in 1 .. 2
    /\ \A k \in 1 .. Len(Leave) :
          /\ Leave[k] = "release" <=> k = ReleaseAt
          /\ Leave[k] = "gone" <=> k = 3
<1>1. CASE kind = "decision"
  <2>1. Leave = <<"release", "stop", "gone", "drain", "hangup">> /\ ReleaseAt = 1
    BY <1>1 DEF Leave, ReleaseAt
  <2> QED BY <2>1 DEF LeaveSteps
<1>2. CASE kind # "decision"
  <2>1. Leave = <<"hangup", "release", "gone">> /\ ReleaseAt = 2
    BY <1>2 DEF Leave, ReleaseAt
  <2> QED BY <2>1 DEF LeaveSteps
<1> QED BY <1>1, <1>2

\* One step of a list of steps.
LEMMA RestIs ==
    ASSUME NEW S, NEW p \in Seq(S), NEW k \in 1 .. Len(p)
    PROVE  /\ Rest(p, k) # <<>> /\ Rest(p, k) \in Seq(S)
           /\ Head(Rest(p, k)) = p[k] /\ p[k] \in S
           /\ Tail(Rest(p, k)) = Rest(p, k + 1)
           /\ Rest(p, k + 1) = <<>> <=> k = Len(p)
<1>1. Len(p) \in Nat /\ k \in Int
  OBVIOUS
<1>2. Head(Rest(p, k)) = p[k] /\ Tail(Rest(p, k)) = Rest(p, k + 1)
  BY HeadTailOfSubSeq DEF Rest
<1>3. \A j \in Int : j >= 1 => /\ Rest(p, j) \in Seq(S)
                              /\ Len(Rest(p, j)) = IF j <= Len(p) THEN Len(p) - j + 1 ELSE 0
  <2> SUFFICES ASSUME NEW j \in Int, j >= 1
               PROVE  /\ Rest(p, j) \in Seq(S)
                      /\ Len(Rest(p, j)) = IF j <= Len(p) THEN Len(p) - j + 1 ELSE 0
    OBVIOUS
  <2>1. \A i \in j .. Len(p) : p[i] \in S
    BY <1>1, ElementOfSeq
  <2> QED BY <1>1, <2>1, SubSeqProperties DEF Rest
<1>4. Rest(p, k) # <<>> /\ Rest(p, k) \in Seq(S)
  BY <1>1, <1>3
<1>5. p[k] \in S
  BY ElementOfSeq
<1>6. k < Len(p) => Rest(p, k + 1) # <<>>
  BY <1>1, <1>3
<1>7. k = Len(p) => Rest(p, k + 1) = <<>>
  BY <1>1, SubSeqEmpty DEF Rest
<1>8. Rest(p, k + 1) = <<>> <=> k = Len(p)
  BY <1>1, <1>6, <1>7
<1> QED BY <1>2, <1>4, <1>5, <1>8

LEMMA SeqWider ==
    ASSUME NEW S, NEW T, NEW s \in Seq(S)
    PROVE  s \in Seq(S \cup T)
OBVIOUS

\* A step put in front of what is left.
LEMMA ConsIs ==
    ASSUME NEW S, NEW s \in Seq(S), NEW x \in S
    PROVE  /\ <<x>> \o s # <<>> /\ <<x>> \o s \in Seq(S)
           /\ Head(<<x>> \o s) = x /\ Tail(<<x>> \o s) = s
<1> DEFINE c == <<x>> \o s
<1>1. /\ c \in Seq(S) /\ Len(c) = 1 + Len(s) /\ Len(s) \in Nat
      /\ \A i \in 1 .. 1 + Len(s) : c[i] = IF i <= 1 THEN x ELSE s[i - 1]
  <2>1. <<x>> \in Seq(S) /\ Len(<<x>>) = 1 /\ <<x>>[1] = x
    OBVIOUS
  <2> QED BY <2>1, ConcatProperties
<1> HIDE DEF c
<1>2. c # <<>> /\ Head(c) = x
  BY <1>1
<1>3. /\ Tail(c) \in Seq(S) /\ Len(Tail(c)) = Len(s)
      /\ \A i \in 1 .. Len(s) : Tail(c)[i] = c[i + 1]
  BY <1>1, <1>2, HeadTailProperties
<1>4. \A i \in 1 .. Len(s) : Tail(c)[i] = s[i]
  BY <1>1, <1>3
<1>5. Tail(c) = s
  BY <1>3, <1>4, SeqEqual
<1> QED BY <1>1, <1>2, <1>5 DEF c

----------------------------------------------------------------------------
(* The course of the worker.                                                *)

LEMMA WorkHead ==
    ASSUME kind \in AllKinds, Working
    PROVE  todo # <<>> /\ Head(todo) \in IdleSteps \cup JobSteps \cup LiveSteps
<1>1. CASE Between
  BY <1>1 DEF Between, IdleSteps
<1>2. ASSUME NEW k \in 1 .. Len(Program), InProgram(k)
      PROVE  todo # <<>> /\ Head(todo) \in JobSteps
  BY <1>2, ProgramIs, RestIs DEF InProgram
<1>3. ASSUME NEW k \in 1 .. Len(Program), InStream(k)
      PROVE  todo # <<>> /\ Head(todo) \in LiveSteps
  BY <1>3 DEF InStream
<1> QED BY <1>1, <1>2, <1>3 DEF Working

LEMMA LeaveHead ==
    ASSUME NEW k \in 1 .. Len(Leave) + 1, LeavingAt(k)
    PROVE  /\ todo = <<>> <=> k = Len(Leave) + 1
           /\ todo # <<>> => /\ k \in 1 .. Len(Leave)
                             /\ Head(todo) = Leave[k] /\ Head(todo) \in LeaveSteps
                             /\ Tail(todo) = Rest(Leave, k + 1)
<1>1. Leave \in Seq(LeaveSteps) /\ Len(Leave) \in Nat
  BY LeaveIs
<1>2. CASE k = Len(Leave) + 1
  <2>1. Rest(Leave, k) = <<>>
    BY <1>1, <1>2, SubSeqEmpty DEF Rest
  <2> QED BY <1>2, <2>1 DEF LeavingAt
<1>3. CASE k \in 1 .. Len(Leave)
  <2>1. k # Len(Leave) + 1
    BY <1>1, <1>3
  <2> QED BY <1>1, <1>3, <2>1, RestIs DEF LeavingAt
<1> QED BY <1>1, <1>2, <1>3

\* The three kinds of step are different ones.
LEMMA Apart ==
    ASSUME kind \in AllKinds, Working
    PROVE  \A k \in 1 .. Len(Leave) + 1 : ~LeavingAt(k)
<1> SUFFICES ASSUME NEW k \in 1 .. Len(Leave) + 1, LeavingAt(k) PROVE FALSE
  OBVIOUS
<1>1. Head(todo) \in LeaveSteps /\ Head(todo) \in IdleSteps \cup JobSteps \cup LiveSteps
  BY WorkHead, LeaveHead
<1> QED BY <1>1 DEF LeaveSteps, IdleSteps, JobSteps, LiveSteps

LEMMA SameKind ==
    ASSUME kind' = kind
    PROVE  Program' = Program /\ Leave' = Leave /\ ReleaseAt' = ReleaseAt
BY DEF Program, Leave, ReleaseAt

\* A step of the program or of a stream is followed by the next.
LEMMA DoneWorks ==
    ASSUME kind \in AllKinds, Working, Head(todo) \notin IdleSteps, Done, kind' = kind
    PROVE  Working'
<1>1. Program' = Program /\ Program \in Seq(JobSteps) /\ Len(Program) \in Nat
  BY SameKind, ProgramIs
<1>2. ~Between
  BY DEF Between, IdleSteps
<1>3. ASSUME NEW k \in 1 .. Len(Program), Tail(todo) = Rest(Program, k + 1)
      PROVE  Working'
  <2>1. CASE Tail(todo) = <<>>
    BY <2>1 DEF Done, Working, Between
  <2>2. CASE Tail(todo) # <<>>
    <3>1. todo' = Rest(Program, k + 1)
      BY <1>3, <2>2 DEF Done
    <3>2. k + 1 \in 1 .. Len(Program)
      BY <1>1, <1>3, <2>2, RestIs
    <3> QED BY <1>1, <3>1, <3>2 DEF Working, InProgram
  <2> QED BY <2>1, <2>2
<1>4. ASSUME NEW k \in 1 .. Len(Program), InProgram(k)
      PROVE  Working'
  BY SMTT(30), <1>1, <1>3, <1>4, RestIs DEF InProgram
<1>5. ASSUME NEW k \in 1 .. Len(Program), InStream(k)
      PROVE  Working'
  BY <1>3, <1>5 DEF InStream
<1> QED BY <1>2, <1>4, <1>5 DEF Working

\* A stream goes from one of its steps to another.
LEMMA ThenWorks ==
    ASSUME kind \in AllKinds, Working, Head(todo) \in {"run"} \cup LiveSteps,
           NEW step \in LiveSteps, Then(step), kind' = kind
    PROVE  Working'
<1>1. Program' = Program /\ Program \in Seq(JobSteps) /\ Len(Program) \in Nat
  BY SameKind, ProgramIs
<1>2. ~Between
  BY DEF Between, LiveSteps
<1>3. ASSUME NEW k \in 1 .. Len(Program), Program[k] = "run",
             Tail(todo) = Rest(Program, k + 1)
      PROVE  Working'
  <2>1. k + 1 \in 1 .. Len(Program)
    BY <1>1, <1>3, ProgramIs
  <2>2. Tail(todo) \in Seq(JobSteps \cup LiveSteps)
    <3>1. Rest(Program, k + 1) \in Seq(JobSteps)
      BY <1>1, <2>1, RestIs
    <3> QED BY <1>3, <3>1, SeqWider
  <2>3. step \in JobSteps \cup LiveSteps
    OBVIOUS
  <2>4. /\ todo' # <<>> /\ Head(todo') = step /\ Tail(todo') = Tail(todo)
        /\ todo' \in Seq(JobSteps \cup LiveSteps)
    BY <2>2, <2>3, ConsIs DEF Then
  <2>5. LiveSteps' = LiveSteps /\ InStream(k)'
    BY <1>1, <1>3, <2>4 DEF InStream
  <2> QED BY <1>1, <2>5 DEF Working
<1>4. ASSUME NEW k \in 1 .. Len(Program), InProgram(k)
      PROVE  Working'
  <2>1. Head(todo) = Program[k] /\ Program[k] \in JobSteps
        /\ Tail(todo) = Rest(Program, k + 1)
    BY <1>1, <1>4, RestIs DEF InProgram
  <2>2. Program[k] = "run"
    BY <2>1 DEF JobSteps, LiveSteps
  <2> QED BY <1>3, <2>1, <2>2
<1>5. ASSUME NEW k \in 1 .. Len(Program), InStream(k)
      PROVE  Working'
  BY <1>3, <1>5 DEF InStream
<1> QED BY <1>2, <1>4, <1>5 DEF Working

\* A job that fails its check is not run.
LEMMA SkipIs ==
    ASSUME kind \in AllKinds, Working, At("check"), todo' = Tail(Tail(Tail(todo)))
    PROVE  \E k \in 1 .. Len(Program) : Program[k] = "check" /\ k + 3 \in 1 .. Len(Program)
                                       /\ todo' = Rest(Program, k + 3)
<1>1. Program \in Seq(JobSteps) /\ Len(Program) \in Nat
  BY ProgramIs
<1>2. PICK k \in 1 .. Len(Program) : InProgram(k)
  BY DEF Working, Between, InStream, At, LiveSteps
<1>3. Program[k] = "check" /\ Tail(todo) = Rest(Program, k + 1)
  BY <1>1, <1>2, RestIs DEF InProgram, At
<1>4. k + 3 <= Len(Program)
  BY <1>3, ProgramIs
<1>5. k + 1 \in 1 .. Len(Program) /\ k + 2 \in 1 .. Len(Program) /\ k + 3 \in 1 .. Len(Program)
  BY <1>1, <1>4
<1>6. Tail(Rest(Program, k + 1)) = Rest(Program, k + 2)
  <2>1. Tail(Rest(Program, k + 1)) = Rest(Program, (k + 1) + 1)
    BY <1>1, <1>5, RestIs
  <2> QED BY <2>1
<1>7. Tail(Rest(Program, k + 2)) = Rest(Program, k + 3)
  <2>1. Tail(Rest(Program, k + 2)) = Rest(Program, (k + 2) + 1)
    BY <1>1, <1>5, RestIs
  <2> QED BY <2>1
<1>8. todo' = Rest(Program, k + 3)
  BY <1>3, <1>6, <1>7
<1> QED BY <1>3, <1>5, <1>8

LEMMA SkipWorks ==
    ASSUME kind \in AllKinds, Working, At("check"), kind' = kind,
           todo' = Tail(Tail(Tail(todo)))
    PROVE  Working'
BY SkipIs, SameKind DEF Working, InProgram

----------------------------------------------------------------------------
(* Memory.                                                                  *)

\* The reservation is given back before the status says so, and nothing that
\* waits for the status returns before it.
Course ==
    \/ Working /\ status # "unloaded"
    \/ \E k \in 1 .. Len(Leave) + 1 :
          LeavingAt(k) /\ (k > ReleaseAt => ~reserved) /\ (status = "unloaded" => k > 3)
StatusTold ==
    /\ closed = "shutdown" => status = "unloaded"
    /\ loader = "failed" => status = "unloaded"
MInv == kind \in AllKinds /\ Course /\ StatusTold

LEMMA MInvInit == Init => MInv
<1> SUFFICES ASSUME Init PROVE MInv
  OBVIOUS
<1>1. kind \in AllKinds
  BY WorkerAssumption DEF Init, WorkerAssumption, AllKinds
<1> QED BY <1>1 DEF MInv, Course, StatusTold, Working, Between, Init

LEMMA AtItsWork ==
    ASSUME MInv, todo # <<>>, Head(todo) \notin LeaveSteps
    PROVE  Working /\ status # "unloaded"
BY LeaveHead DEF MInv, Course

LEMMA StartsLeaving ==
    ASSUME kind' = kind, todo' = Leaving, status' # "unloaded"
    PROVE  Course'
<1>1. Leave = Rest(Leave, 1)
  BY LeaveIs, SubSeqFull DEF Rest
<1>2. LeavingAt(1)' /\ 1 \in 1 .. Len(Leave') + 1 /\ ~(1 > ReleaseAt')
  BY <1>1, SameKind, LeaveIs DEF LeavingAt, Leaving
<1> QED BY <1>2 DEF Course

LEMMA CourseKept ==
    ASSUME Course, kind' = kind, todo' = todo, reserved' = reserved,
           status' = "unloaded" => status = "unloaded"
    PROVE  Course'
<1>1. Working <=> Working'
  BY SameKind DEF Working, Between, InProgram, InStream, LiveSteps, Rest
<1>2. \A k : LeavingAt(k) <=> LeavingAt(k)'
  BY SameKind DEF LeavingAt, Rest
<1> QED BY <1>1, <1>2, SameKind DEF Course

LEMMA WorkerKeeps ==
    ASSUME MInv, Worker
    PROVE  MInv'
<1> USE DEF IdleSteps, JobSteps, LiveSteps, LeaveSteps
<1>1. kind \in AllKinds /\ kind' = kind
  BY DEF MInv, Worker, LoadEnds, Top, NextJob, RefuseStep, Arm, Recheck, SetStatus, Check,
     Kernel, Live, Verify, Amend, Free, AnswerStep, Depart, host
<1>2. closed' = closed /\ (loader' # loader => loader' # "failed")
  BY DEF Worker, LoadEnds, Top, NextJob, RefuseStep, Arm, Recheck, SetStatus, Check,
     Kernel, Live, Verify, Amend, Free, AnswerStep, Depart, host
<1>3. ASSUME Working, status # "unloaded", status' # "unloaded", Working' \/ Course'
      PROVE  MInv'
  BY <1>1, <1>2, <1>3 DEF MInv, Course, StatusTold
<1>4. ASSUME Head(todo) \in JobSteps \cup LiveSteps, todo # <<>>, Done,
             status' = status \/ status' # "unloaded"
      PROVE  MInv'
  BY <1>1, <1>3, <1>4, AtItsWork, DoneWorks
<1>5. ASSUME Head(todo) \in JobSteps \cup LiveSteps \cup IdleSteps, todo # <<>>,
             todo' = Leaving, status' = status
      PROVE  MInv'
  BY <1>1, <1>3, <1>5, AtItsWork, StartsLeaving
<1>6. CASE LoadEnds
  <2>1. status' = status /\ todo # <<>> /\ Head(todo) = "load"
    BY <1>6 DEF LoadEnds, At, shared
  <2>2. CASE todo' = <<"top">>
    BY <1>3, <2>1, <2>2, AtItsWork DEF Working, Between
  <2>3. CASE todo' = Leaving
    BY <1>5, <2>1, <2>3
  <2> QED BY <1>6, <2>2, <2>3 DEF LoadEnds
<1>7. CASE Top
  <2>1. status' = status /\ todo # <<>> /\ Head(todo) = "top"
    BY <1>7 DEF Top, At, shared
  <2>2. CASE todo' = <<"next">>
    BY <1>3, <2>1, <2>2, AtItsWork DEF Working, Between
  <2>3. CASE todo' = Leaving
    BY <1>5, <2>1, <2>3
  <2> QED BY <1>7, <2>2, <2>3 DEF Top
<1>8. CASE NextJob
  <2>1. status' = status /\ todo # <<>> /\ Head(todo) = "next"
    BY <1>8 DEF NextJob, At
  <2>2. CASE todo' = Steps
    <3>1. Program' = Program /\ Program \in Seq(JobSteps) /\ 1 \in 1 .. Len(Program)
      BY <1>1, SameKind, ProgramIs
    <3>2. Program = Rest(Program, 1)
      BY <3>1, SubSeqFull DEF Rest
    <3>3. Working'
      BY <2>2, <3>1, <3>2 DEF Working, InProgram, Steps
    <3> QED BY <1>3, <2>1, <3>3, AtItsWork
  <2>3. CASE todo' = <<"top">>
    BY <1>3, <2>1, <2>3, AtItsWork DEF Working, Between
  <2>4. CASE todo' = Leaving
    BY <1>5, <2>1, <2>4
  <2> QED BY <1>8, <2>2, <2>3, <2>4 DEF NextJob
<1>9. CASE RefuseStep
  BY <1>4, <1>5, <1>9 DEF RefuseStep, At, shared
<1>10. CASE Arm
  BY <1>4, <1>10 DEF Arm, At
<1>11. CASE Recheck
  BY <1>4, <1>11 DEF Recheck, At, shared
<1>12. CASE SetStatus
  <2>1. status' # "unloaded" \/ status' = status
    BY <1>12 DEF SetStatus
  <2> QED BY <1>4, <1>12, <2>1 DEF SetStatus, At
<1>13. CASE Check
  <2>1. status' = status /\ todo # <<>> /\ Head(todo) = "check"
    BY <1>13 DEF Check, At, shared
  <2>2. CASE todo' = Tail(Tail(Tail(todo)))
    <3>1. Working'
      BY <1>1, <2>1, <2>2, AtItsWork, SkipWorks DEF At
    <3> QED BY <1>3, <2>1, <3>1, AtItsWork
  <2>3. CASE Done
    BY <1>4, <2>1, <2>3
  <2> QED BY <1>13, <2>2, <2>3 DEF Check
<1>14. CASE Kernel
  <2>1. status' = status /\ todo # <<>> /\ Head(todo) = "run" /\ (Done \/ todo' = Leaving)
    BY <1>14 DEF Kernel, At, shared
  <2> QED BY <1>4, <1>5, <2>1
<1>15. CASE Live
  <2>1. status' = status /\ todo # <<>> /\ Head(todo) \in {"run"} \cup LiveSteps
    BY <1>15 DEF Live, At, shared
  <2>2. Done \/ \E step \in LiveSteps : Then(step)
    BY <1>15 DEF Live, Ends
  <2>3. CASE Done
    BY <1>4, <2>1, <2>3
  <2>4. ASSUME NEW step \in LiveSteps, Then(step)
        PROVE  MInv'
    <3>1. Working'
      BY <1>1, <2>1, <2>4, AtItsWork, ThenWorks
    <3> QED BY <1>3, <2>1, <3>1, AtItsWork
  <2> QED BY <2>2, <2>3, <2>4
<1>16. CASE Verify
  BY <1>4, <1>16 DEF Verify, At, shared
<1>17. CASE Amend
  BY <1>4, <1>17 DEF Amend, At, shared
<1>18. CASE Free
  BY <1>4, <1>18 DEF Free, At
<1>19. CASE AnswerStep
  BY <1>4, <1>5, <1>19 DEF AnswerStep, At, shared
<1>20. CASE Depart
  <2>1. todo # <<>> /\ Head(todo) \in LeaveSteps /\ todo' = Tail(todo)
    BY <1>20 DEF Depart, At
  <2>2. ~Working
    BY <1>1, <2>1, WorkHead
  <2>3. PICK k \in 1 .. Len(Leave) + 1 :
          LeavingAt(k) /\ (k > ReleaseAt => ~reserved) /\ (status = "unloaded" => k > 3)
    BY <2>2 DEF MInv, Course
  <2>4. k \in 1 .. Len(Leave) /\ Head(todo) = Leave[k] /\ todo' = Rest(Leave, k + 1)
    BY <2>1, <2>3, LeaveHead
  <2>5. k + 1 > ReleaseAt => ~reserved'
    <3>1. CASE Head(todo) = "release"
      BY <1>20, <3>1 DEF Depart, At
    <3>2. CASE Head(todo) # "release"
      <4>1. k # ReleaseAt
        BY <2>4, <3>2, LeaveIs
      <4> QED BY <1>20, <2>3, <3>2, <4>1, LeaveIs DEF Depart, At
    <3> QED BY <3>1, <3>2
  <2>6. status' = "unloaded" => k + 1 > 3
    <3>1. CASE Head(todo) = "gone"
      BY <2>4, <3>1, LeaveIs
    <3>2. CASE Head(todo) # "gone"
      BY <1>20, <2>3, <2>4, <3>2 DEF Depart, At
    <3> QED BY <3>1, <3>2
  <2>7. LeavingAt(k + 1)' /\ k + 1 \in 1 .. Len(Leave') + 1
    BY <1>1, <2>4, SameKind, LeaveIs DEF LeavingAt, Rest
  <2>8. Course'
    BY <1>1, <2>5, <2>6, <2>7, SameKind DEF Course
  <2>9. status = "unloaded" => status' = "unloaded"
    BY <1>20 DEF Depart
  <2> QED BY <1>1, <1>2, <2>8, <2>9 DEF MInv, StatusTold
<1> QED BY <1>6, <1>7, <1>8, <1>9, <1>10, <1>11, <1>12, <1>13, <1>14, <1>15, <1>16, <1>17,
           <1>18, <1>19, <1>20 DEF Worker

LEMMA MemoryStep == MInv /\ [Next]_vars => MInv'
<1> SUFFICES ASSUME MInv, [Next]_vars PROVE MInv'
  OBVIOUS
<1>1. ASSUME kind' = kind, todo' = todo, reserved' = reserved, status' = status,
             closed' = closed, loader' = loader
      PROVE  MInv'
  BY <1>1, CourseKept DEF MInv, StatusTold
<1>2. CASE Worker
  BY <1>2, WorkerKeeps
<1>3. CASE LoaderReturns
  <2>1. Course'
    BY <1>3, CourseKept DEF MInv, LoaderReturns, worker, shared
  <2> QED BY <1>3, <2>1 DEF MInv, StatusTold, LoaderReturns, worker, shared
<1>4. CASE StartUnload
  BY <1>1, <1>4 DEF StartUnload, worker, shared
<1>5. CASE DropHandles
  BY <1>1, <1>5 DEF DropHandles, worker, shared
<1>6. CASE Closing
  <2>1. kind' = kind /\ todo' = todo /\ reserved' = reserved /\ loader' = loader
    BY <1>6 DEF Closing
  <2>2. /\ status' = "unloaded" <=> status = "unloaded"
        /\ closed' = "shutdown" => closed = "shutdown" \/ status = "unloaded"
    BY <1>6 DEF Closing, Next2
  <2>3. Course'
    BY <2>1, <2>2, CourseKept DEF MInv
  <2> QED BY <2>1, <2>2, <2>3 DEF MInv, StatusTold
<1>7. ASSUME NEW c \in Callers, Caller(c)
      PROVE  MInv'
  BY <1>1, <1>7 DEF Caller, Claim, Send, Receive, Timeout, ReadToken, Opened, Finished,
     worker, shared, host
<1>8. ASSUME NEW c \in Callers, User(c)
      PROVE  MInv'
  BY <1>1, <1>8 DEF User, Begin, Expire, Push, Finish, DropStream, worker, shared, host
<1>9. CASE UNCHANGED vars
  BY <1>1, <1>9 DEF vars, worker, shared, host
<1> QED BY <1>2, <1>3, <1>4, <1>5, <1>6, <1>7, <1>8, <1>9 DEF Next

\* Memory is never said to be free while the worker holds it: a shutdown and a
\* failed load return after the reservation was given back, for every worker,
\* whatever panics (speech/worker.rs:357-361).
THEOREM MemoryReleasedFirst == Spec => []ReleasedFirst
<1>1. MInv => ReleasedFirst
  <2> SUFFICES ASSUME MInv, closed = "shutdown" \/ loader = "failed" \/ status = "unloaded"
               PROVE  ~reserved /\ (todo # <<>> => Head(todo) \notin AtWork)
    BY DEF ReleasedFirst
  <2>1. status = "unloaded"
    BY DEF MInv, StatusTold
  <2>2. PICK k \in 1 .. Len(Leave) + 1 : LeavingAt(k) /\ k > 3 /\ (k > ReleaseAt => ~reserved)
    BY <2>1 DEF MInv, Course
  <2>3. ~reserved
    BY <2>2, LeaveIs
  <2>4. todo # <<>> => Head(todo) \in LeaveSteps
    BY <2>2, LeaveHead
  <2> QED BY <2>3, <2>4 DEF AtWork, LiveSteps, LeaveSteps
<1> QED BY <1>1, MInvInit, MemoryStep, PTL DEF Spec

----------------------------------------------------------------------------
(* Who owns a job.                                                          *)

Places == {"out", "asked", "claimed", "sent", "looking", "opening", "open", "finishing"}
Types ==
    /\ queue \in Seq(Jobs) /\ job \in Jobs /\ result \in Outcomes
    /\ call \in [Callers -> Places] /\ token \in [Callers -> BOOLEAN]
    /\ reply \in [Callers -> Outcomes]

\* Nobody owns two of the jobs in the queue and at work.
Single ==
    /\ \A i, k \in 1 .. Len(queue) :
          queue[i].who # Nobody /\ queue[i].who = queue[k].who => i = k
    /\ \A i \in 1 .. Len(queue) : queue[i].who # Nobody => queue[i].who # job.who

\* The owner of a job waits for it; who has no job sent has no answer.
QueuedAt(c, live) ==
    reply[c] = "none" /\ call[c] \in IF live THEN {"opening"} ELSE {"sent", "looking"}
TakenAt(c, live) ==
    IF live THEN call[c] \in {"opening", "open", "finishing"}
            ELSE reply[c] = "none" /\ call[c] \in {"sent", "looking"}
Held(c) ==
    /\ \A i \in 1 .. Len(queue) : queue[i].who = c => QueuedAt(c, queue[i].live)
    /\ job.who = c => TakenAt(c, job.live)
    /\ call[c] \in {"out", "asked", "claimed"} => reply[c] = "none"
Owned == Types /\ Single /\ \A c \in Callers : Held(c)

LEMMA InQueue ==
    ASSUME Types, NEW i \in 1 .. Len(queue)
    PROVE  queue[i] \in Jobs
BY ElementOfSeq DEF Types

LEMMA NoJobIsJob == NoJob \in Jobs /\ NoJob.who = Nobody
BY DEF NoJob, Jobs

LEMMA OwnedInit == Init => Owned
<1> SUFFICES ASSUME Init PROVE Owned
  OBVIOUS
<1>1. Types
  BY NoJobIsJob DEF Init, Types, Places, Outcomes
<1>2. Single
  BY DEF Init, Single
<1>3. \A c \in Callers : Held(c)
  BY NoJobIsJob, WorkerAssumption DEF Init, Held, WorkerAssumption
<1> QED BY <1>1, <1>2, <1>3 DEF Owned

\* Whose things do not move keeps what is his.
LEMMA HeldKept ==
    ASSUME NEW c \in Callers, Held(c), call'[c] = call[c], reply'[c] = reply[c],
           \A i \in 1 .. Len(queue') : queue'[i].who = c =>
              \E k \in 1 .. Len(queue) : queue[k].who = c /\ queue[k].live = queue'[i].live,
           job'.who = c => job.who = c /\ job'.live = job.live
    PROVE  Held(c)'
<1>1. ASSUME NEW i \in 1 .. Len(queue'), queue'[i].who = c
      PROVE  QueuedAt(c, queue[i].live)'
  BY <1>1 DEF Held, QueuedAt
<1>2. ASSUME job'.who = c
      PROVE  TakenAt(c, job.live)'
  BY <1>2 DEF Held, TakenAt
<1>3. (call[c] \in {"out", "asked", "claimed"} => reply[c] = "none")'
  BY DEF Held
<1> QED BY <1>1, <1>2, <1>3 DEF Held

\* The queue stays, and the job at work stays or loses its owner.
LEMMA SingleKept ==
    ASSUME Single, queue' = queue, job'.who # Nobody => job'.who = job.who
    PROVE  Single'
BY DEF Single

LEMMA OwnedSame ==
    ASSUME Owned, Types', queue' = queue, call' = call, reply' = reply,
           job'.who # Nobody => job'.who = job.who /\ job'.live = job.live
    PROVE  Owned'
<1>1. Single'
  BY SingleKept DEF Owned
<1>2. ASSUME NEW c \in Callers
      PROVE  Held(c)'
  BY <1>2, HeldKept, WorkerAssumption DEF Owned, WorkerAssumption
<1> QED BY <1>1, <1>2 DEF Owned

\* The job at work is answered: it is over, or it is a stream being opened.
LEMMA OwnedAnswered ==
    ASSUME Owned, Types', queue' = queue, call' = call,
           NEW r \in Outcomes, reply' = Answered({job}, r),
           job' = NoJob \/ (job' = job /\ job.live)
    PROVE  Owned'
<1>1. Single'
  BY SingleKept, NoJobIsJob DEF Owned
<1>2. ASSUME NEW c \in Callers
      PROVE  Held(c)'
  <2>1. Held(c) /\ c # Nobody
    BY WorkerAssumption DEF Owned, WorkerAssumption
  <2>2. reply'[c] = IF job.who = c /\ (~job.live \/ call[c] = "opening") THEN r ELSE reply[c]
    BY DEF Answered
  <2>3. CASE job.who # c
    BY <2>1, <2>2, <2>3, HeldKept, NoJobIsJob
  <2>4. CASE job.who = c
    <3>1. \A i \in 1 .. Len(queue) : queue[i].who # c
      BY <2>1, <2>4 DEF Owned, Single
    <3>2. call[c] \notin {"out", "asked", "claimed"}
      BY <2>1, <2>4 DEF Held, TakenAt
    <3>3. job'.who = c => TakenAt(c, job.live)'
      BY <2>1, <2>4, NoJobIsJob DEF Held, TakenAt
    <3> QED BY <3>1, <3>2, <3>3 DEF Held
  <2> QED BY <2>3, <2>4
<1> QED BY <1>1, <1>2 DEF Owned

\* What waits in the queue is answered and the queue is gone.
LEMMA OwnedDrained ==
    ASSUME Owned, Types', queue' = <<>>, call' = call, job' = job,
           NEW r \in Outcomes, reply' = Answered(Range(queue), r)
    PROVE  Owned'
<1>1. Single'
  BY DEF Single
<1>2. ASSUME NEW c \in Callers
      PROVE  Held(c)'
  <2>1. Held(c) /\ c # Nobody
    BY WorkerAssumption DEF Owned, WorkerAssumption
  <2>2. reply'[c] = reply[c] \/ \E j \in Range(queue) : j.who = c
    BY DEF Answered
  <2>3. CASE reply'[c] = reply[c]
    BY <2>1, <2>3, HeldKept
  <2>4. ASSUME NEW j \in Range(queue), j.who = c
        PROVE  Held(c)'
    <3>1. PICK i \in 1 .. Len(queue) : queue[i] = j
      BY DEF Range, Owned, Types
    <3>2. QueuedAt(c, j.live) /\ job.who # c
      BY <2>1, <2>4, <3>1 DEF Held, Owned, Single
    <3> QED BY <3>2 DEF Held, QueuedAt
  <2> QED BY <2>2, <2>3, <2>4
<1> QED BY <1>1, <1>2 DEF Owned

LEMMA TripKeeps ==
    ASSUME Types, Trip
    PROVE  /\ job' \in Jobs /\ token' \in [Callers -> BOOLEAN]
           /\ job'.who = job.who /\ job'.live = job.live
BY DEF Trip, Types, Jobs

LEMMA OrphanedIs ==
    ASSUME Types, NEW j \in Jobs, NEW c \in Callers
    PROVE  /\ Orphaned(c, j) \in Jobs
           /\ Orphaned(c, j).live = j.live
           /\ Orphaned(c, j).who = IF j.who = c THEN Nobody ELSE j.who
BY DEF Orphaned, Types, Jobs

LEMMA AnsweredIs ==
    ASSUME Types, NEW J, NEW r \in Outcomes
    PROVE  Answered(J, r) \in [Callers -> Outcomes]
BY DEF Answered, Types

LEMMA TakesHead ==
    ASSUME Owned, queue # <<>>, queue' = Tail(queue), job' = Head(queue),
           call' = call, token' = token, reply' = reply, result' \in Outcomes
    PROVE  Owned'
<1>1. /\ queue' \in Seq(Jobs) /\ Len(queue') = Len(queue) - 1
      /\ \A i \in 1 .. Len(queue') : queue'[i] = queue[i + 1]
      /\ job' = queue[1] /\ 1 \in 1 .. Len(queue) /\ Len(queue) \in Nat
  BY HeadTailProperties DEF Owned, Types
<1>2. Types'
  BY <1>1, InQueue DEF Owned, Types
<1>3. Single'
  <2>1. \A i \in 1 .. Len(queue') : i + 1 \in 1 .. Len(queue) /\ i + 1 # 1
    BY <1>1
  <2> QED BY <1>1, <2>1 DEF Owned, Single
<1>4. ASSUME NEW c \in Callers
      PROVE  Held(c)'
  <2>1. Held(c)
    BY DEF Owned
  <2>2. ASSUME NEW i \in 1 .. Len(queue'), queue'[i].who = c
        PROVE  QueuedAt(c, queue[i].live)'
    <3>1. i + 1 \in 1 .. Len(queue) /\ queue'[i] = queue[i + 1]
      BY <1>1
    <3> QED BY <2>1, <2>2, <3>1 DEF Held, QueuedAt
  <2>3. (job.who = c => TakenAt(c, job.live))'
    BY <1>1, <2>1 DEF Held, QueuedAt, TakenAt
  <2>4. (call[c] \in {"out", "asked", "claimed"} => reply[c] = "none")'
    BY <2>1 DEF Held
  <2> QED BY <2>2, <2>3, <2>4 DEF Held
<1> QED BY <1>2, <1>3, <1>4 DEF Owned

LEMMA WorkerOwned ==
    ASSUME Owned, Worker
    PROVE  Owned'
<1> USE DEF shared, host, asked
<1>1. Types
  BY DEF Owned
<1>2. ASSUME queue' = queue, job' = job, call' = call, token' = token, reply' = reply,
             result' \in Outcomes
      PROVE  Owned'
  BY <1>1, <1>2, OwnedSame DEF Types
<1>3. ASSUME NEW r \in Outcomes, Tell(r), queue' = queue, call' = call, token' = token,
             result' \in Outcomes, job' = NoJob
      PROVE  Owned'
  <2>1. CASE job.live
    <3>1. reply' = reply
      BY <1>3, <2>1 DEF Tell
    <3> QED BY <1>1, <1>3, <3>1, OwnedSame, NoJobIsJob DEF Types
  <2>2. CASE ~job.live
    <3>1. reply' = Answered({job}, r)
      BY <1>3, <2>2 DEF Tell
    <3> QED BY <1>1, <1>3, <3>1, OwnedAnswered, AnsweredIs, NoJobIsJob DEF Types
  <2> QED BY <2>1, <2>2
<1>4. result \in Outcomes /\ {"none", "ok", "error", "panic"} \subseteq Outcomes
  BY <1>1 DEF Types, Outcomes
<1>5. CASE LoadEnds
  BY <1>2, <1>4, <1>5 DEF LoadEnds
<1>6. CASE Top
  BY <1>2, <1>4, <1>6 DEF Top
<1>7. CASE NextJob
  BY <1>2, <1>4, <1>7, TakesHead DEF NextJob
<1>8. CASE RefuseStep
  BY <1>2, <1>3, <1>4, <1>8 DEF RefuseStep
<1>9. CASE Arm
  BY <1>2, <1>4, <1>9 DEF Arm
<1>10. CASE Recheck
  <2>1. CASE Trip
    BY <1>1, <1>10, <2>1, TripKeeps, OwnedSame DEF Recheck, Types
  <2>2. CASE ~stop
    BY <1>2, <1>4, <1>10, <2>2 DEF Recheck
  <2> QED BY <1>10, <2>1, <2>2 DEF Recheck
<1>11. CASE SetStatus
  BY <1>2, <1>4, <1>11 DEF SetStatus
<1>12. CASE Check
  BY <1>2, <1>4, <1>12 DEF Check
<1>13. CASE Kernel
  <2>1. CASE reply' = reply /\ job' = job
    BY <1>2, <1>4, <1>13, <2>1 DEF Kernel
  <2>2. CASE reply' = Answered({job}, "error") /\ job' = NoJob
    BY <1>1, <1>4, <1>13, <2>2, OwnedAnswered, AnsweredIs, NoJobIsJob DEF Kernel, Types
  <2> QED BY <1>13, <2>1, <2>2 DEF Kernel
<1>14. CASE Live
  <2>1. /\ queue' = queue /\ job' = job /\ call' = call /\ token' = token
        /\ job.live /\ result' \in Outcomes
        /\ reply' = reply \/ \E r \in Outcomes : reply' = Answered({job}, r)
    BY <1>4, <1>14 DEF Live, Ends, Ready
  <2>2. CASE reply' = reply
    BY <1>2, <2>1, <2>2
  <2>3. ASSUME NEW r \in Outcomes, reply' = Answered({job}, r)
        PROVE  Owned'
    BY <1>1, <2>1, <2>3, OwnedAnswered, AnsweredIs DEF Types
  <2> QED BY <2>1, <2>2, <2>3
<1>15. CASE Verify
  BY <1>2, <1>4, <1>15 DEF Verify
<1>16. CASE Amend
  BY <1>2, <1>4, <1>16 DEF Amend
<1>17. CASE Free
  BY <1>2, <1>4, <1>17 DEF Free
<1>18. CASE AnswerStep
  BY <1>3, <1>4, <1>18 DEF AnswerStep
<1>19. CASE Depart
  <2>1. CASE queue' = <<>> /\ reply' = Answered(Range(queue), "error")
    BY <1>1, <1>4, <1>19, <2>1, OwnedDrained, AnsweredIs DEF Depart, Types
  <2>2. CASE queue' = queue /\ reply' = reply
    BY <1>2, <1>4, <1>19, <2>2 DEF Depart
  <2> QED BY <1>19, <2>1, <2>2 DEF Depart
<1> QED BY <1>5, <1>6, <1>7, <1>8, <1>9, <1>10, <1>11, <1>12, <1>13, <1>14, <1>15, <1>16,
           <1>17, <1>18, <1>19 DEF Worker

\* One caller moves.
LEMMA OneMoves ==
    ASSUME Owned, Types', Single', NEW c \in Callers, Held(c)',
           \A d \in Callers \ {c} : call'[d] = call[d] /\ reply'[d] = reply[d],
           \A i \in 1 .. Len(queue') : queue'[i].who \notin {c, Nobody} =>
              i \in 1 .. Len(queue) /\ queue'[i] = queue[i],
           job'.who \notin {c, Nobody} => job' = job
    PROVE  Owned'
<1>1. ASSUME NEW d \in Callers \ {c}
      PROVE  Held(d)'
  BY <1>1, HeldKept, WorkerAssumption DEF Owned, WorkerAssumption
<1> QED BY <1>1 DEF Owned

\* A caller without a job moves among the places where he has none.
LEMMA NoJobLeft ==
    ASSUME Owned, Types', Single', NEW c \in Callers, reply'[c] = "none",
           \A d \in Callers \ {c} : call'[d] = call[d] /\ reply'[d] = reply[d],
           \A i \in 1 .. Len(queue') : queue'[i].who # c /\
              (queue'[i].who # Nobody => i \in 1 .. Len(queue) /\ queue'[i] = queue[i]),
           job'.who # c, job'.who # Nobody => job' = job
    PROVE  Owned'
<1>1. Held(c)'
  BY DEF Held
<1> QED BY <1>1, OneMoves

\* Where a caller is tells what he may own.
LEMMA OwnsNothing ==
    ASSUME Owned, NEW c \in Callers
    PROVE  /\ call[c] \in {"out", "asked", "claimed"} =>
                 reply[c] = "none" /\ job.who # c /\ \A i \in 1 .. Len(queue) : queue[i].who # c
           /\ call[c] = "sent" /\ reply[c] # "none" =>
                 job.who # c /\ \A i \in 1 .. Len(queue) : queue[i].who # c
           /\ call[c] \in {"open", "finishing"} \/ (call[c] = "opening" /\ reply[c] # "none") =>
                 /\ \A i \in 1 .. Len(queue) : queue[i].who # c
                 /\ job.who = c => job.live
<1>1. Held(c)
  BY DEF Owned
<1> QED BY <1>1 DEF Held, QueuedAt, TakenAt

LEMMA MovesIs ==
    ASSUME Types, NEW c \in Callers, NEW where \in Places, Moves(c, where)
    PROVE  /\ call' \in [Callers -> Places] /\ call'[c] = where
           /\ \A d \in Callers \ {c} : call'[d] = call[d]
BY DEF Moves, Types

LEMMA ReturnsIs ==
    ASSUME Types, NEW c \in Callers, Returns(c)
    PROVE  /\ call' \in [Callers -> Places] /\ token' \in [Callers -> BOOLEAN]
           /\ reply' \in [Callers -> Outcomes] /\ reply'[c] = "none"
           /\ \A d \in Callers \ {c} :
                 call'[d] = call[d] /\ reply'[d] = reply[d] /\ token'[d] = token[d]
BY DEF Returns, Moves, Types, Places, Outcomes

\* A call is over whose job is answered, or was never sent, or is an orphan.
LEMMA ReturnKeeps ==
    ASSUME Owned, NEW c \in Callers, Returns(c), queue' = queue, result' = result,
           \A i \in 1 .. Len(queue) : queue[i].who # c,
           job' \in Jobs, job'.who = IF job.who = c THEN Nobody ELSE job.who,
           job'.who # Nobody => job' = job
    PROVE  Owned'
<1>1. Types' /\ Single'
  BY ReturnsIs, SingleKept DEF Owned, Types
<1> QED BY <1>1, ReturnsIs, NoJobLeft, WorkerAssumption DEF Owned, WorkerAssumption

LEMMA GiveUpKeeps ==
    ASSUME Owned, NEW c \in Callers, GivesUp(c), result' = result
    PROVE  Owned'
<1>1. Types /\ Returns(c) /\ c # Nobody
  BY WorkerAssumption DEF Owned, GivesUp, WorkerAssumption
<1>2. /\ Len(queue') = Len(queue) /\ Len(queue) \in Nat /\ queue' \in Seq(Jobs)
      /\ \A i \in 1 .. Len(queue) : queue'[i] = Orphaned(c, queue[i])
  <2>1. queue' = [i \in 1 .. Len(queue) |-> Orphaned(c, queue[i])] /\ Len(queue) \in Nat
    BY <1>1 DEF GivesUp, Abandon, Types
  <2>2. \A i \in 1 .. Len(queue) : Orphaned(c, queue[i]) \in Jobs
    BY <1>1, InQueue, OrphanedIs
  <2> QED BY <2>1, <2>2
<1>3. \A i \in 1 .. Len(queue) :
         queue'[i].who = IF queue[i].who = c THEN Nobody ELSE queue[i].who
  BY <1>1, <1>2, InQueue, OrphanedIs
<1>4. \A i \in 1 .. Len(queue) : queue[i].who # c => queue'[i] = queue[i]
  BY <1>2 DEF Orphaned
<1>5. /\ job' \in Jobs /\ job'.who = IF job.who = c THEN Nobody ELSE job.who
      /\ job.who # c => job' = job
  <2>1. job' = Orphaned(c, job) /\ job \in Jobs
    BY <1>1 DEF GivesUp, Abandon, Types
  <2> QED BY <1>1, <2>1, OrphanedIs DEF Orphaned
<1>6. Types'
  BY <1>1, <1>2, <1>5, ReturnsIs DEF Types
<1>7. Single'
  BY <1>2, <1>3, <1>5 DEF Owned, Single
<1> QED BY <1>1, <1>2, <1>3, <1>4, <1>5, <1>6, <1>7, ReturnsIs, NoJobLeft

LEMMA SendKeeps ==
    ASSUME Owned, NEW c \in Callers, NEW live \in BOOLEAN, call[c] \in {"asked", "claimed"},
           queue' = Append(queue, [who |-> c, dead |-> FALSE, live |-> live]),
           NEW where \in IF live THEN {"opening"} ELSE {"sent", "looking"},
           Moves(c, where), job' = job, result' = result, token' = token, reply' = reply
    PROVE  Owned'
<1> DEFINE j == [who |-> c, dead |-> FALSE, live |-> live]
<1>1. Types /\ j \in Jobs /\ j.who = c /\ j.live = live /\ where \in Places /\ c # Nobody
  BY WorkerAssumption DEF Owned, Jobs, Places, WorkerAssumption
<1> HIDE DEF j
<1>2. /\ queue' = Append(queue, j) /\ queue' \in Seq(Jobs)
      /\ Len(queue) \in Nat /\ Len(queue') = Len(queue) + 1 /\ queue'[Len(queue) + 1] = j
      /\ \A i \in 1 .. Len(queue) : queue'[i] = queue[i]
  BY <1>1, AppendProperties DEF j, Types
<1>3. /\ reply[c] = "none" /\ job.who # c
      /\ \A i \in 1 .. Len(queue) : queue[i].who # c
  BY OwnsNothing
<1>4. Types'
  BY <1>1, <1>2, MovesIs DEF Types
<1>5. \A i \in 1 .. Len(queue') :
         IF i = Len(queue) + 1 THEN queue'[i] = j
         ELSE i \in 1 .. Len(queue) /\ queue'[i] = queue[i] /\ queue'[i].who # c
  BY <1>2, <1>3
<1>6. Single'
  BY <1>1, <1>3, <1>5 DEF Owned, Single
<1>7. Held(c)'
  <2>1. QueuedAt(c, live)' /\ call'[c] \notin {"out", "asked", "claimed"}
    BY <1>1, <1>3, MovesIs DEF QueuedAt
  <2>2. ASSUME NEW i \in 1 .. Len(queue'), queue'[i].who = c
        PROVE  QueuedAt(c, queue[i].live)'
    <3>1. queue'[i] = j
      BY <1>5, <2>2
    <3> QED BY <1>1, <2>1, <3>1 DEF QueuedAt
  <2> QED BY <1>3, <2>1, <2>2 DEF Held
<1> QED BY <1>1, <1>4, <1>5, <1>6, <1>7, MovesIs, OneMoves

\* A caller waits at another place, with the same job.
LEMMA WaitKeeps ==
    ASSUME Owned, NEW c \in Callers, NEW where \in Places, Moves(c, where),
           queue' = queue, job' = job, result' = result, token' = token,
           reply' = reply \/ (reply' = [reply EXCEPT ![c] = "none"]
                              /\ where \notin {"out", "asked", "claimed"}),
           where \in {"out", "asked", "claimed"} => reply[c] = "none",
           \A i \in 1 .. Len(queue) : queue[i].who = c =>
              where \in IF queue[i].live THEN {"opening"} ELSE {"sent", "looking"},
           job.who = c => where \in IF job.live THEN {"opening", "open", "finishing"}
                                                ELSE {"sent", "looking"}
    PROVE  Owned'
<1>1. Types /\ Held(c) /\ c # Nobody
  BY WorkerAssumption DEF Owned, WorkerAssumption
<1>2. Types' /\ Single' /\ call'[c] = where
  <2>1. reply' \in [Callers -> Outcomes]
    BY <1>1 DEF Types, Outcomes
  <2> QED BY <1>1, <2>1, MovesIs, SingleKept DEF Owned, Types
<1>3. \A d \in Callers \ {c} : call'[d] = call[d] /\ reply'[d] = reply[d]
  BY <1>1, MovesIs DEF Types
<1>4. reply'[c] = reply[c] \/ (reply'[c] = "none" /\ where \notin {"out", "asked", "claimed"})
  BY <1>1 DEF Types
<1>5. Held(c)'
  <2>1. ASSUME NEW i \in 1 .. Len(queue'), queue'[i].who = c
        PROVE  QueuedAt(c, queue[i].live)'
    BY <1>1, <1>2, <1>4, <2>1 DEF Held, QueuedAt
  <2>2. (job.who = c => TakenAt(c, job.live))'
    BY <1>1, <1>2, <1>4 DEF Held, TakenAt
  <2>3. (call[c] \in {"out", "asked", "claimed"} => reply[c] = "none")'
    BY <1>2, <1>4
  <2> QED BY <2>1, <2>2, <2>3 DEF Held
<1> QED BY <1>2, <1>3, <1>5, OneMoves

LEMMA CallerOwned ==
    ASSUME Owned, NEW c \in Callers, Caller(c) \/ User(c)
    PROVE  Owned'
<1> USE DEF worker, shared, host, Places
<1>1. Types /\ Held(c) /\ c # Nobody /\ job \in Jobs
  BY WorkerAssumption DEF Owned, Types, WorkerAssumption
<1>2. ASSUME Returns(c), queue' = queue, job' = job, result' = result,
             \A i \in 1 .. Len(queue) : queue[i].who # c, job.who # c
      PROVE  Owned'
  BY <1>1, <1>2, ReturnKeeps
<1>3. ASSUME queue' = queue, job' = job, result' = result, call' = call, reply' = reply,
             token' \in [Callers -> BOOLEAN]
      PROVE  Owned'
  BY <1>1, <1>3, OwnedSame DEF Types
<1>4. CASE Claim(c)
  <2>1. CASE Returns(c)
    BY <1>2, <1>4, <2>1, OwnsNothing DEF Claim
  <2>2. CASE Moves(c, "claimed") /\ UNCHANGED <<token, reply>>
    BY <1>1, <1>4, <2>2, OwnsNothing, WaitKeeps DEF Claim
  <2> QED BY <1>4, <2>1, <2>2 DEF Claim
<1>5. ASSUME NEW live \in BOOLEAN, Send(c, live)
      PROVE  Owned'
  <2>1. call[c] \in {"asked", "claimed"} /\ job' = job /\ result' = result
    BY <1>5 DEF Send
  <2>2. CASE Returns(c) /\ queue' = queue
    BY <1>2, <2>1, <2>2, OwnsNothing
  <2>3. CASE /\ Sends(c, live) /\ UNCHANGED <<token, reply>>
             /\ Moves(c, IF live THEN "opening" ELSE IF kind = "diarizer" THEN "looking" ELSE "sent")
    <3>1. PICK where \in IF live THEN {"opening"} ELSE {"sent", "looking"} : Moves(c, where)
      BY <2>3
    <3> QED BY <2>1, <2>3, <3>1, SendKeeps DEF Sends
  <2> QED BY <1>5, <2>2, <2>3 DEF Send
<1>6. CASE Receive(c)
  BY <1>2, <1>6, OwnsNothing DEF Receive
<1>7. ASSUME NEW where \in {"sent", "looking"}, WaitsOn(c, where),
             call[c] \in {"sent", "looking"}, result' = result
      PROVE  Owned'
  <2>1. /\ \A i \in 1 .. Len(queue) : queue[i].who = c => ~queue[i].live
        /\ job.who = c => ~job.live
    BY <1>1, <1>7 DEF Held, QueuedAt, TakenAt
  <2> QED BY <1>7, <2>1, WaitKeeps DEF WaitsOn
<1>8. CASE Timeout(c)
  BY <1>7, <1>8, GiveUpKeeps DEF Timeout
<1>9. CASE ReadToken(c)
  BY <1>7, <1>9, GiveUpKeeps DEF ReadToken
<1>10. CASE Opened(c)
  <2>1. /\ \A i \in 1 .. Len(queue) : queue[i].who # c
        /\ job.who = c => job.live
    BY <1>10, OwnsNothing DEF Opened
  <2>2. CASE reply[c] = "error" /\ Returns(c)
    <3>1. job' = Orphaned(c, job)
      BY <1>10, <2>2 DEF Opened
    <3>2. /\ job' \in Jobs /\ job'.who = IF job.who = c THEN Nobody ELSE job.who
          /\ job'.who # Nobody => job' = job
      BY <1>1, <3>1, OrphanedIs DEF Orphaned
    <3> QED BY <1>10, <2>1, <2>2, <3>2, ReturnKeeps DEF Opened
  <2>3. CASE reply[c] = "ok" /\ Moves(c, "open") /\ reply' = [reply EXCEPT ![c] = "none"]
    BY <1>10, <2>1, <2>3, WaitKeeps DEF Opened
  <2> QED BY <1>10, <2>2, <2>3 DEF Opened
<1>11. CASE Finished(c)
  BY <1>11, OwnsNothing, WaitKeeps DEF Finished
<1>12. CASE Begin(c)
  BY <1>12, OwnsNothing, WaitKeeps DEF Begin, Idle
<1>13. CASE Expire(c)
  BY <1>1, <1>3, <1>13 DEF Expire, Types
<1>14. CASE Push(c)
  BY <1>1, <1>3, <1>14 DEF Push, Types
<1>15. CASE Finish(c)
  BY <1>15, OwnsNothing, WaitKeeps DEF Finish
<1>16. CASE DropStream(c)
  <2>1. \A i \in 1 .. Len(queue) : queue[i].who # c
    BY <1>16, OwnsNothing DEF DropStream
  <2>2. /\ job' \in Jobs /\ job'.who = IF job.who = c THEN Nobody ELSE job.who
        /\ job'.who # Nobody => job' = job
    <3>1. CASE job.who # c
      BY <1>1, <1>16, <3>1 DEF DropStream
    <3>2. CASE job.who = c
      <4>1. token[c] \in BOOLEAN
        BY <1>1 DEF Types
      <4>2. job' = [job EXCEPT !.who = Nobody, !.dead = ~token[c] \/ stream[c].end = "none"]
        BY <1>16, <3>2 DEF DropStream
      <4> QED BY <1>1, <3>2, <4>1, <4>2 DEF Jobs
    <3> QED BY <3>1, <3>2
  <2> QED BY <1>16, <2>1, <2>2, ReturnKeeps DEF DropStream
<1> QED BY <1>4, <1>5, <1>6, <1>8, <1>9, <1>10, <1>11, <1>12, <1>13, <1>14, <1>15, <1>16
        DEF Caller, User

LEMMA OwnedStep == Owned /\ [Next]_vars => Owned'
<1> SUFFICES ASSUME Owned, [Next]_vars PROVE Owned'
  OBVIOUS
<1>1. Types
  BY DEF Owned
<1>2. ASSUME UNCHANGED <<queue, job, result, call, token, reply>>
      PROVE  Owned'
  BY <1>1, <1>2, OwnedSame DEF Types
<1>3. CASE Worker
  BY <1>3, WorkerOwned
<1>4. CASE LoaderReturns
  BY <1>2, <1>4 DEF LoaderReturns, worker, shared, asked
<1>5. CASE StartUnload
  BY <1>2, <1>5 DEF StartUnload, worker, shared, asked
<1>6. CASE DropHandles
  BY <1>2, <1>6 DEF DropHandles, worker, shared, asked
<1>7. CASE Closing
  <2>1. queue' = queue /\ result' = result /\ call' = call /\ reply' = reply
        /\ (Trip \/ UNCHANGED <<job, token>>)
    BY <1>7 DEF Closing
  <2>2. CASE Trip
    BY <1>1, <2>1, <2>2, TripKeeps, OwnedSame DEF Types
  <2> QED BY <1>2, <2>1, <2>2
<1>8. ASSUME NEW c \in Callers, Caller(c) \/ User(c)
      PROVE  Owned'
  BY <1>8, CallerOwned
<1>9. CASE UNCHANGED vars
  BY <1>2, <1>9 DEF vars, worker, shared, host, asked
<1> QED BY <1>3, <1>4, <1>5, <1>6, <1>7, <1>8, <1>9 DEF Next


----------------------------------------------------------------------------
(* The unload.                                                              *)

\* The steps past the second look at the flag, up to the end of the work, and
\* those at which the token is published.
Guards ==
    LiveSteps \cup {"run"} \cup (IF kind = "decision" THEN {} ELSE {"running"})
    \cup (IF kind = "diarizer" THEN {} ELSE {"check"})
Pubs == Guards \cup {"recheck", "verify", "disarm"}
On(steps) == todo # <<>> /\ Head(todo) \in steps

ClosingSteps == {"stop", "cancel", "stopping", "unloaded", "await", "forget"}
Unloads == {"unloaded", "await"}

\* An unload, over or under way, that has this step behind it.
Past(step) ==
    \/ closed # "none"
    \/ /\ closing # <<>> /\ closing[Len(closing)] \in Unloads
       /\ \A i \in 1 .. Len(closing) : closing[i] # step

Unloading ==
    /\ closing \in Seq(ClosingSteps)
    /\ \A i \in 1 .. Len(closing) :
          (closing[i] = "stop" => i = 1) /\ (closing[i] \in Unloads => i = Len(closing))
    /\ Past("stop") \/ Past("cancel") => stop
    /\ On(Pubs) => active
    /\ Past("cancel") => (On(Guards) => Dead(job))
UInv == MInv /\ Owned /\ Unloading

LEMMA TripKills ==
    ASSUME Types, Trip
    PROVE  Dead(job)'
BY DEF Trip, Types, Jobs, Dead

LEMMA DeadStays ==
    ASSUME Dead(job), job' = job, token' = token
    PROVE  Dead(job)'
BY DEF Dead

\* Nobody brings a job at work back: its owner does not return before it is
\* answered without leaving it, dead as it is, behind.
LEMMA CallersKeepDead ==
    ASSUME Owned, Dead(job), NEW c \in Callers, Caller(c) \/ User(c)
    PROVE  Dead(job)'
<1> USE DEF worker, shared, host
<1>1. Types /\ job \in Jobs /\ c # Nobody /\ (job.who = Nobody \/ job.who \in Callers)
  BY WorkerAssumption DEF Owned, Types, Jobs, WorkerAssumption
<1>2. ASSUME Returns(c), job' = job, job.who # c
      PROVE  Dead(job)'
  <2>1. job.who # Nobody => token'[job.who] = token[job.who]
    BY <1>1, <1>2, ReturnsIs
  <2> QED BY <1>2, <2>1 DEF Dead
<1>3. ASSUME Returns(c), job' = Orphaned(c, job)
      PROVE  Dead(job)'
  <2>1. CASE job.who # c
    BY <1>2, <1>3, <2>1 DEF Orphaned
  <2>2. CASE job.who = c
    <3>1. ~token[c]
      BY <1>1, <2>2 DEF Dead
    <3>2. job'.who = Nobody /\ job'.dead = ~token[c]
      BY <1>1, <1>3, <2>2 DEF Orphaned, Jobs
    <3> QED BY <3>1, <3>2 DEF Dead
  <2> QED BY <2>1, <2>2
<1>4. CASE Claim(c)
  BY <1>2, <1>4, OwnsNothing, DeadStays DEF Claim
<1>5. ASSUME NEW live \in BOOLEAN, Send(c, live)
      PROVE  Dead(job)'
  <2>1. call[c] \in {"asked", "claimed"} /\ job' = job /\ (token' = token \/ Returns(c))
    BY <1>5 DEF Send
  <2> QED BY <1>2, <2>1, OwnsNothing, DeadStays
<1>6. CASE Receive(c)
  BY <1>2, <1>6, OwnsNothing DEF Receive
<1>7. CASE Timeout(c) \/ ReadToken(c)
  BY <1>3, <1>7, DeadStays DEF Timeout, ReadToken, GivesUp, Abandon, WaitsOn
<1>8. CASE Opened(c)
  <2>1. CASE reply[c] = "error" /\ Returns(c)
    BY <1>3, <1>8, <2>1 DEF Opened
  <2>2. CASE reply[c] = "ok" /\ token' = token
    BY <1>8, <2>2, DeadStays DEF Opened
  <2> QED BY <1>8, <2>1, <2>2 DEF Opened
<1>9. CASE Expire(c)
  BY <1>1, <1>9 DEF Expire, Types, Dead
<1>10. CASE Finished(c) \/ Begin(c) \/ Push(c) \/ Finish(c)
  BY <1>10, DeadStays DEF Finished, Begin, Push, Finish
<1>11. CASE DropStream(c)
  <2>1. CASE job.who # c
    BY <1>2, <1>11, <2>1 DEF DropStream
  <2>2. CASE job.who = c
    <3>1. ~token[c]
      BY <1>1, <2>2 DEF Dead
    <3>2. job' = [job EXCEPT !.who = Nobody, !.dead = ~token[c] \/ stream[c].end = "none"]
      BY <1>11, <2>2 DEF DropStream
    <3>3. job'.who = Nobody /\ job'.dead
      BY <1>1, <3>1, <3>2 DEF Jobs
    <3> QED BY <3>3 DEF Dead
  <2> QED BY <2>1, <2>2
<1> QED BY <1>4, <1>5, <1>6, <1>7, <1>8, <1>9, <1>10, <1>11 DEF Caller, User

\* In the program nothing comes before the second look but the publication,
\* and the token is withdrawn after the work.
Before == (Pubs \ {"disarm"}) \cup {"arm"}
LEMMA ProgramOrder ==
    ASSUME kind \in AllKinds
    PROVE  /\ Program[1] \notin Pubs
           /\ \A k \in 1 .. Len(Program) :
                 /\ Program[k] = "check" => "check" \in Guards /\ Program[k + 3] = "disarm"
                 /\ k + 1 <= Len(Program) /\ Program[k + 1] \in Pubs => Program[k] \in Before
                 /\ k + 1 <= Len(Program) /\ Program[k + 1] \in Guards =>
                       Program[k] \in Guards \cup {"recheck"}
<1> USE DEF Guards, Pubs, Before, LiveSteps
<1>1. CASE kind = "speech"
  <2>1. Program = <<"arm", "recheck", "running", "check", "run", "verify", "disarm",
                    "answer", "ready">>
    BY <1>1 DEF Program
  <2> QED BY <1>1, <2>1
<1>2. CASE kind = "decision"
  <2>1. Program = <<"refuse", "running", "arm", "recheck", "check", "run", "verify",
                    "disarm", "amend", "answer", "ready">>
    BY <1>2 DEF Program
  <2> QED BY <1>2, <2>1
<1>3. CASE kind = "diarizer"
  <2>1. Program = <<"arm", "recheck", "running", "run", "verify", "disarm", "free",
                    "ready", "answer">>
    BY <1>3 DEF Program
  <2> QED BY <1>3, <2>1
<1> QED BY <1>1, <1>2, <1>3 DEF AllKinds

\* What the worker was at before it came to a step of the work.
Follows ==
    /\ todo' # <<>> /\ Head(todo') \in Pubs => Head(todo) \in Before
    /\ todo' # <<>> /\ Head(todo') \in Guards => Head(todo) \in Guards \cup {"recheck"}

LEMMA DoneFollows ==
    ASSUME MInv, todo # <<>>, Head(todo) \in JobSteps \cup LiveSteps, Done
    PROVE  Follows
<1>1. CASE Head(todo) \in Guards
  BY <1>1 DEF Follows, Before, Pubs, Guards, LiveSteps
<1>2. CASE Head(todo) \notin Guards
  <2>1. Head(todo) \in JobSteps /\ Head(todo) \notin LiveSteps
    BY <1>2 DEF Guards
  <2>2. kind \in AllKinds /\ Working
    BY <2>1, AtItsWork DEF MInv, LeaveSteps, JobSteps
  <2>3. PICK k \in 1 .. Len(Program) : InProgram(k)
    BY <2>1, <2>2 DEF Working, Between, InStream, JobSteps
  <2>4. /\ Head(todo) = Program[k] /\ Tail(todo) = Rest(Program, k + 1)
        /\ Program \in Seq(JobSteps) /\ Len(Program) \in Nat
        /\ Rest(Program, k + 1) = <<>> <=> k = Len(Program)
    BY <2>2, <2>3, ProgramIs, RestIs DEF InProgram
  <2>5. CASE Tail(todo) = <<>>
    BY <2>5 DEF Done, Follows, Pubs, Guards, LiveSteps
  <2>6. CASE Tail(todo) # <<>>
    <3>1. k + 1 \in 1 .. Len(Program)
      BY <2>4, <2>6
    <3>2. Head(todo') = Program[k + 1]
      <4>1. todo' = Rest(Program, k + 1)
        BY <2>4, <2>6 DEF Done
      <4> QED BY <2>4, <3>1, <4>1, RestIs
    <3> QED BY <2>2, <2>4, <3>1, <3>2, ProgramOrder DEF Follows
  <2> QED BY <2>5, <2>6
<1> QED BY <1>1, <1>2

\* A job that fails its check comes to the withdrawal of its token.
LEMMA SkipFollows ==
    ASSUME MInv, At("check"), todo' = Tail(Tail(Tail(todo)))
    PROVE  Follows
<1>1. kind \in AllKinds /\ Working
  BY AtItsWork DEF MInv, LeaveSteps, At
<1>2. "check" \in Guards
  BY <1>1, SkipIs, ProgramOrder
<1> QED BY <1>2 DEF At, Follows, Before, Pubs

LEMMA LeavingFollows ==
    ASSUME todo' = Leaving
    PROVE  Follows /\ (todo' # <<>> => Head(todo') \notin Guards)
<1>1. Leaving = Rest(Leave, 1)
  BY LeaveIs, SubSeqFull DEF Rest, Leaving
<1>2. Head(todo') \in LeaveSteps
  BY <1>1, LeaveIs, RestIs
<1> QED BY <1>2 DEF Follows, Pubs, Guards, LiveSteps, LeaveSteps

LEMMA DepartHead ==
    ASSUME MInv, Depart
    PROVE  /\ todo \in Seq(LeaveSteps) /\ todo # <<>> /\ todo' = Tail(todo)
           /\ todo' # <<>> => Head(todo') \in LeaveSteps
<1>1. todo # <<>> /\ Head(todo) \in LeaveSteps /\ todo' = Tail(todo) /\ kind \in AllKinds
  BY DEF Depart, At, MInv, LeaveSteps
<1>2. ~Working
  BY <1>1, WorkHead DEF IdleSteps, JobSteps, LiveSteps, LeaveSteps
<1>3. PICK k \in 1 .. Len(Leave) + 1 : LeavingAt(k)
  BY <1>2 DEF MInv, Course
<1>4. Leave \in Seq(LeaveSteps) /\ Len(Leave) \in Nat
  BY LeaveIs
<1>5. k \in 1 .. Len(Leave) /\ todo' = Rest(Leave, k + 1) /\ todo \in Seq(LeaveSteps)
  BY <1>1, <1>3, <1>4, LeaveHead, RestIs DEF LeavingAt
<1>6. todo' # <<>> => k + 1 \in 1 .. Len(Leave)
  BY <1>4, <1>5, RestIs
<1>7. k + 1 \in 1 .. Len(Leave) => Head(Rest(Leave, k + 1)) \in LeaveSteps
  BY <1>4, RestIs
<1> QED BY <1>1, <1>5, <1>6, <1>7

\* No step of the worker brings the work past a flag it has not read.
LEMMA WorkerFollows ==
    ASSUME MInv, Worker
    PROVE  Follows
<1> USE DEF IdleSteps, JobSteps, LiveSteps, LeaveSteps
<1>1. ASSUME todo # <<>>, Head(todo) \in Guards
      PROVE  Follows
  BY <1>1 DEF Follows, Before, Pubs, Guards
<1>2. ASSUME todo' \in {<<"top">>, <<"next">>}
      PROVE  Follows
  BY <1>2 DEF Follows, Pubs, Guards
<1>3. CASE LoadEnds \/ Top
  BY <1>2, <1>3, LeavingFollows DEF LoadEnds, Top
<1>4. CASE NextJob
  <2>1. CASE todo' = Steps
    <3>1. kind \in AllKinds /\ Head(todo') = Program[1]
      BY <2>1, ProgramIs DEF MInv, Steps
    <3>2. Program[1] \notin Pubs /\ Guards \subseteq Pubs
      BY <3>1, ProgramOrder DEF Pubs
    <3> QED BY <3>1, <3>2 DEF Follows
  <2> QED BY <1>2, <1>4, <2>1, LeavingFollows DEF NextJob
<1>5. CASE RefuseStep \/ Kernel \/ AnswerStep
  BY <1>5, DoneFollows, LeavingFollows DEF RefuseStep, Kernel, AnswerStep, At
<1>6. CASE Arm \/ Recheck \/ SetStatus \/ Verify \/ Amend \/ Free
  BY <1>6, DoneFollows DEF Arm, Recheck, SetStatus, Verify, Amend, Free, At
<1>7. CASE Check
  BY <1>7, DoneFollows, SkipFollows DEF Check, At
<1>8. CASE Live
  <2>1. todo # <<>> /\ Head(todo) \in Guards
    BY <1>8 DEF Live, At, Guards
  <2> QED BY <1>1, <2>1
<1>9. CASE Depart
  BY <1>9, DepartHead DEF Follows, Pubs, Guards
<1> QED BY <1>3, <1>4, <1>5, <1>6, <1>7, <1>8, <1>9 DEF Worker

LEMMA WorkerUnloading ==
    ASSUME UInv, Worker
    PROVE  Unloading'
<1> USE DEF shared, host, asked
<1>1. Types /\ MInv /\ Follows
  BY WorkerFollows DEF UInv, Owned
<1>2. kind' = kind /\ closed' = closed /\ closing' = closing /\ (stop => stop')
  BY DEF Worker, LoadEnds, Top, NextJob, RefuseStep, Arm, Recheck, SetStatus, Check,
     Kernel, Live, Verify, Amend, Free, AnswerStep, Depart
<1>3. Guards' = Guards /\ Pubs' = Pubs /\ \A step : Past(step)' <=> Past(step)
  BY <1>2 DEF Guards, Pubs, LiveSteps, Past
<1>4. On(Pubs)' => active'
  <2> SUFFICES ASSUME On(Pubs)' PROVE active'
    OBVIOUS
  <2>1. Head(todo) \in Before
    BY <1>1, <1>3 DEF On, Follows
  <2>2. CASE Arm
    BY <2>1, <2>2 DEF Arm, At, Before, Pubs, Guards, LiveSteps
  <2>3. CASE ~Arm
    <3>1. active' = active
      BY <2>3 DEF Worker, LoadEnds, Top, NextJob, RefuseStep, Recheck, SetStatus, Check,
         Kernel, Live, Verify, Amend, Free, AnswerStep, Depart
    <3>2. todo # <<>> /\ Head(todo) # "arm"
      BY <2>3 DEF Worker, LoadEnds, Top, NextJob, RefuseStep, Recheck, SetStatus, Check,
         Kernel, Live, Verify, Amend, Free, AnswerStep, Depart, At
    <3>3. On(Pubs)
      BY <2>1, <3>2 DEF On, Before
    <3> QED BY <3>1, <3>3 DEF UInv, Unloading
  <2> QED BY <2>2, <2>3
<1>5. Past("cancel") => (On(Guards)' => Dead(job)')
  <2> SUFFICES ASSUME Past("cancel"), On(Guards)' PROVE Dead(job)'
    OBVIOUS
  <2>1. Head(todo) \in Guards \cup {"recheck"} /\ stop
    BY <1>1, <1>3 DEF On, Follows, UInv, Unloading
  <2>2. CASE Recheck
    BY <1>1, <2>1, <2>2, TripKills DEF Recheck
  <2>3. CASE ~Recheck
    <3>1. /\ todo # <<>> /\ Head(todo) # "recheck"
          /\ ~NextJob /\ ~RefuseStep /\ ~AnswerStep
      BY <2>1, <2>3 DEF Worker, LoadEnds, Top, NextJob, RefuseStep, Arm, SetStatus, Check,
         Kernel, Live, Verify, Amend, Free, AnswerStep, Depart, At, Guards, LiveSteps
    <3>2. todo' # Leaving
      BY <1>3, LeavingFollows DEF On
    <3>3. job' = job /\ token' = token
      BY <2>3, <3>1, <3>2 DEF Worker, LoadEnds, Top, Arm, SetStatus, Check,
         Kernel, Live, Verify, Amend, Free, Depart
    <3>4. Dead(job)
      BY <2>1, <3>1 DEF On, UInv, Unloading
    <3> QED BY <3>3, <3>4, DeadStays
  <2> QED BY <2>2, <2>3
<1>6. (Past("stop") \/ Past("cancel") => stop) /\ closing \in Seq(ClosingSteps)
      /\ \A i \in 1 .. Len(closing) :
            (closing[i] = "stop" => i = 1) /\ (closing[i] \in Unloads => i = Len(closing))
  BY DEF UInv, Unloading
<1> QED BY <1>2, <1>3, <1>4, <1>5, <1>6 DEF Unloading, Unloads, ClosingSteps

\* The unload takes its next step.
LEMMA ClosingTails ==
    ASSUME Unloading, closing # <<>>, closing' = Tail(closing)
    PROVE  /\ closing' \in Seq(ClosingSteps)
           /\ \A i \in 1 .. Len(closing') :
                 /\ closing'[i] # "stop"
                 /\ closing'[i] \in Unloads => i = Len(closing')
           /\ Head(closing) \in Unloads => \A step \in {"stop", "cancel"} : Past(step)
           /\ closed' = closed => \A step : Past(step)' =>
                 /\ Past(step) \/ Head(closing) = step
                 /\ Past("stop") \/ Head(closing) = "stop"
<1>1. /\ closing' \in Seq(ClosingSteps) /\ Len(closing') = Len(closing) - 1
      /\ \A i \in 1 .. Len(closing') : closing'[i] = closing[i + 1]
      /\ Head(closing) = closing[1] /\ Len(closing) \in Nat /\ Len(closing) >= 1
  BY HeadTailProperties DEF Unloading
<1>2. \A i \in 1 .. Len(closing') : i + 1 \in 1 .. Len(closing) /\ i + 1 # 1
  BY <1>1
<1>3. \A i \in 1 .. Len(closing) :
         (closing[i] = "stop" => i = 1) /\ (closing[i] \in Unloads => i = Len(closing))
  BY DEF Unloading
<1>4. ASSUME NEW i \in 1 .. Len(closing')
      PROVE  closing'[i] # "stop" /\ (closing'[i] \in Unloads => i = Len(closing'))
  <2>1. i + 1 \in 1 .. Len(closing) /\ i + 1 # 1 /\ closing'[i] = closing[i + 1]
    BY <1>1, <1>2
  <2>2. closing[i + 1] # "stop" /\ (closing[i + 1] \in Unloads => i + 1 = Len(closing))
    BY <1>3, <2>1
  <2>3. i + 1 = Len(closing) => i = Len(closing')
    <3>1. i \in Int /\ Len(closing) \in Int /\ Len(closing') \in Int
          /\ Len(closing') = Len(closing) - 1
      BY <1>1
    <3>2. \A a, b, x \in Int : b = a - 1 /\ x + 1 = a => x = b
      OBVIOUS
    <3> QED BY <3>1, <3>2, Zenon
  <2> QED BY <2>1, <2>2, <2>3
<1>5. Head(closing) \in Unloads => \A step \in {"stop", "cancel"} : Past(step)
  <2> SUFFICES ASSUME closing[1] \in Unloads, NEW step \in {"stop", "cancel"} PROVE Past(step)
    BY <1>1
  <2>1. 1 \in 1 .. Len(closing)
    BY <1>1
  <2>2. Len(closing) = 1
    BY <1>3, <2>1
  <2> QED BY <2>2 DEF Past, Unloads
<1>6. ASSUME closed' = closed, NEW step, Past(step)'
      PROVE  /\ Past(step) \/ Head(closing) = step
             /\ Past("stop") \/ Head(closing) = "stop"
  <2>1. CASE closed # "none"
    BY <2>1 DEF Past
  <2>2. CASE closed = "none"
    <3>1. /\ Len(closing') \in Nat /\ Len(closing') >= 1
          /\ closing'[Len(closing')] \in Unloads
          /\ \A i \in 1 .. Len(closing') : closing'[i] # step
      BY <1>1, <1>6, <2>2 DEF Past, Unloads
    <3>2. closing[Len(closing)] \in Unloads
      <4>1. closing'[Len(closing')] = closing[Len(closing)]
        BY <1>1, <3>1
      <4> QED BY <3>1, <4>1
    <3>3. \A i \in 1 .. Len(closing) : i = 1 \/ closing[i] # step
      <4>1. \A i \in 1 .. Len(closing) : i = 1 \/ (i - 1 \in 1 .. Len(closing')
                                                /\ closing[i] = closing'[i - 1])
        BY <1>1
      <4> QED BY <3>1, <4>1
    <3>4. \A i \in 1 .. Len(closing) : i = 1 \/ closing[i] # "stop"
      BY <1>3
    <3> QED BY <1>1, <3>2, <3>3, <3>4 DEF Past
  <2> QED BY <2>1, <2>2
<1> QED BY <1>1, <1>4, <1>5, <1>6

LEMMA ClosingUnloading ==
    ASSUME UInv, Closing
    PROVE  Unloading'
<1>1. Types /\ Unloading
  BY DEF UInv, Owned
<1>2. /\ closing # <<>> /\ closing' = Tail(closing)
      /\ todo' = todo /\ active' = active /\ kind' = kind
      /\ stop' = stop \/ stop'
      /\ closed' # closed => Head(closing) \in Unloads
      /\ Trip \/ UNCHANGED <<job, token>>
  BY DEF Closing, Next2, Unloads
<1>3. Head(closing) = "stop" => stop'
  BY DEF Closing, Next2
<1>4. Head(closing) = "cancel" /\ active => Trip
  BY DEF Closing, Next2
<1>5. Guards' = Guards /\ Pubs' = Pubs /\ Guards \subseteq Pubs
  BY <1>2 DEF Guards, Pubs, LiveSteps
<1>6. \A step \in {"stop", "cancel"} : Past(step)' =>
         /\ Past(step) \/ Head(closing) = step
         /\ Past("stop") \/ Head(closing) = "stop"
  BY <1>1, <1>2, ClosingTails
<1>7. Past("stop")' \/ Past("cancel")' => stop'
  BY <1>1, <1>2, <1>3, <1>6 DEF Unloading
<1>8. Dead(job) => Dead(job)'
  BY <1>1, <1>2, TripKills, DeadStays
<1>9. Past("cancel")' => (On(Guards)' => Dead(job)')
  <2> SUFFICES ASSUME Past("cancel")', On(Guards)' PROVE Dead(job)'
    OBVIOUS
  <2>1. On(Guards) /\ On(Pubs)
    BY <1>2, <1>5 DEF On
  <2>2. CASE Past("cancel")
    BY <1>1, <1>8, <2>1, <2>2 DEF Unloading
  <2>3. CASE Head(closing) = "cancel"
    BY <1>1, <1>4, <2>1, <2>3, TripKills DEF Unloading
  <2> QED BY <1>6, <2>2, <2>3
<1>10. On(Pubs)' => active'
  BY <1>1, <1>2, <1>5 DEF On, Unloading
<1>11. /\ closing' \in Seq(ClosingSteps)
       /\ \A i \in 1 .. Len(closing') :
             (closing'[i] = "stop" => i = 1) /\ (closing'[i] \in Unloads => i = Len(closing'))
  BY <1>1, <1>2, ClosingTails
<1> QED BY <1>7, <1>9, <1>10, <1>11 DEF Unloading, Unloads, ClosingSteps

LEMMA UnloadingKept ==
    ASSUME UInv, UNCHANGED <<kind, closing, closed, stop, active, todo>>,
           Dead(job) => Dead(job)'
    PROVE  Unloading'
<1>1. Guards' = Guards /\ Pubs' = Pubs /\ \A step : Past(step)' <=> Past(step)
  BY DEF Guards, Pubs, LiveSteps, Past
<1> QED BY <1>1 DEF UInv, Unloading, On, Unloads, ClosingSteps

\* An unload, and the drop of the last handle, begin with everything before them.
LEMMA StartsUnloading ==
    ASSUME UInv, closing = <<>>, UNCHANGED <<kind, closed, stop, active, todo, job, token>>,
           \/ closing' \in {Append(Unload, "unloaded"), Append(Unload, "await")}
           \/ closing' = Append(OnDrop, "forget")
    PROVE  Unloading'
<1>1. PICK s \in {<<"stop">>, <<"stop", "cancel">>, <<"stop", "cancel", "stopping">>,
                 <<"stop", "stopping", "cancel">>}, l \in {"unloaded", "await", "forget"} :
           closing' = Append(s, l) /\ (l \in Unloads => Len(s) = 3)
  <2>1. MInv
    BY DEF UInv
  <2>2. Unload \in {<<"stop", "cancel", "stopping">>, <<"stop", "stopping", "cancel">>}
    BY DEF Unload
  <2>3. OnDrop \in {<<"stop">>, <<"stop", "cancel">>, <<"stop", "stopping", "cancel">>}
    BY <2>1 DEF OnDrop, Unload, MInv, AllKinds
  <2>4. Len(Unload) = 3 /\ "forget" \notin Unloads
    BY <2>2 DEF Unloads
  <2> QED BY <2>2, <2>3, <2>4
<1>2. /\ s \in Seq(ClosingSteps) /\ Len(s) \in 1 .. 3 /\ s[1] = "stop"
      /\ \A i \in 1 .. Len(s) : s[i] \notin Unloads /\ (s[i] = "stop" => i = 1)
      /\ Len(s) = 3 => \E i \in 1 .. Len(s) : s[i] = "cancel"
  <2> USE DEF ClosingSteps, Unloads
  <2>1. CASE s = <<"stop">>
    BY <2>1
  <2>2. CASE s = <<"stop", "cancel">>
    BY <2>2
  <2>3. CASE s = <<"stop", "cancel", "stopping">>
    BY <2>3
  <2>4. CASE s = <<"stop", "stopping", "cancel">>
    BY <2>4
  <2> QED BY <2>1, <2>2, <2>3, <2>4
<1>3. /\ closing' \in Seq(ClosingSteps) /\ Len(closing') = Len(s) + 1
      /\ closing'[Len(s) + 1] = l /\ \A i \in 1 .. Len(s) : closing'[i] = s[i]
      /\ l # "stop"
  <2>1. l \in ClosingSteps /\ l # "stop"
    BY DEF ClosingSteps
  <2> QED BY <1>1, <1>2, <2>1, AppendProperties
<1>4. \A i \in 1 .. Len(closing') :
         (closing'[i] = "stop" => i = 1) /\ (closing'[i] \in Unloads => i = Len(closing'))
  <2>1. \A i \in 1 .. Len(closing') : i \in 1 .. Len(s) \/ i = Len(s) + 1
    BY <1>2, <1>3
  <2> QED BY <1>2, <1>3, <2>1
<1>5. \A step \in {"stop", "cancel"} : Past(step)' => closed # "none"
  <2> SUFFICES ASSUME NEW step \in {"stop", "cancel"}, l \in Unloads
               PROVE  \E i \in 1 .. Len(closing') : closing'[i] = step
    BY <1>3 DEF Past, Unloads
  <2>1. \E i \in 1 .. Len(s) : s[i] = step
    BY <1>1, <1>2
  <2>2. \A i \in 1 .. Len(s) : i \in 1 .. Len(closing')
    BY <1>2, <1>3
  <2> QED BY <1>3, <2>1, <2>2
<1>6. \A step \in {"stop", "cancel"} : Past(step)' => Past(step)
  BY <1>5 DEF Past
<1>7. Guards' = Guards /\ Pubs' = Pubs /\ (Dead(job) => Dead(job)')
  BY DeadStays DEF Guards, Pubs, LiveSteps
<1>8. /\ Past("stop")' \/ Past("cancel")' => stop'
      /\ On(Pubs)' => active'
      /\ Past("cancel")' => (On(Guards)' => Dead(job)')
  BY <1>6, <1>7 DEF UInv, Unloading, On
<1> QED BY <1>3, <1>8, <1>4 DEF Unloading, Unloads, ClosingSteps

LEMMA UnloadingStep == UInv /\ [Next]_vars => UInv'
<1> SUFFICES ASSUME UInv, [Next]_vars PROVE Unloading'
  BY MemoryStep, OwnedStep DEF UInv
<1>1. ASSUME UNCHANGED <<kind, closing, closed, stop, active, todo>>, UNCHANGED <<job, token>>
      PROVE  Unloading'
  BY <1>1, UnloadingKept, DeadStays
<1>2. CASE Worker
  BY <1>2, WorkerUnloading
<1>3. CASE LoaderReturns
  BY <1>1, <1>3 DEF LoaderReturns, worker, shared, asked
<1>4. CASE StartUnload
  BY <1>4, StartsUnloading DEF StartUnload, worker, shared, asked
<1>5. CASE DropHandles
  BY <1>5, StartsUnloading DEF DropHandles, worker, shared, asked
<1>6. CASE Closing
  BY <1>6, ClosingUnloading
<1>7. ASSUME NEW c \in Callers, Caller(c) \/ User(c)
      PROVE  Unloading'
  <2>1. UNCHANGED <<kind, closing, closed, stop, active, todo>>
    BY <1>7 DEF Caller, User, Claim, Send, Receive, Timeout, ReadToken, Opened, Finished,
       Begin, Expire, Push, Finish, DropStream, worker, shared, host
  <2> QED BY <1>7, <2>1, CallersKeepDead, UnloadingKept DEF UInv
<1>8. CASE UNCHANGED vars
  BY <1>1, <1>8 DEF vars, worker, shared, host, asked
<1> QED BY <1>2, <1>3, <1>4, <1>5, <1>6, <1>7, <1>8 DEF Next

\* An unload that has returned has reached the work: a job at work carries a
\* dead token, wherever the worker was between its looks at the flag and the
\* publication of the token (speech/worker.rs:194, 327).
THEOREM UnloadIsHeard == Spec => []UnloadReachesWork
<1>1. Init => UInv
  <2> SUFFICES ASSUME Init PROVE UInv
    OBVIOUS
  <2>1. Unloading
    BY DEF Init, Unloading, Past, On, Pubs, Guards, LiveSteps
  <2> QED BY <2>1, MInvInit, OwnedInit DEF UInv
<1>2. UInv => UnloadReachesWork
  BY DEF UInv, Unloading, Past, On, Guards, AtWork, UnloadReachesWork
<1> QED BY <1>1, <1>2, UnloadingStep, PTL DEF Spec

----------------------------------------------------------------------------
(* The slot, and the shape of the state.                                    *)

StreamsIn == [pcm : 0 .. PcmCap, accepted : 0 .. MaxBlocks, eaten : Nat, finish : BOOLEAN,
              end : Outcomes]
Shape ==
    /\ kind \in Kinds
    /\ loader \in {"waiting", "refused", "failed", "loaded"}
    /\ handles \in {"none", "held", "dropping", "gone"}
    /\ status \in {"up", "stopping", "unloaded"}
    /\ stop \in BOOLEAN /\ active \in BOOLEAN /\ busy \in BOOLEAN
    /\ open \in BOOLEAN /\ reserved \in BOOLEAN
    /\ Len(queue) <= Room
    /\ closed \in {"none", "unloaded", "shutdown"}
    /\ stream \in [Callers -> StreamsIn]

\* A stream has eaten what it accepted, save for what is in its queue and for
\* the block at work.
InHand(c) == IF On({"push"}) /\ job.who = c THEN 1 ELSE 0
Blocks ==
    \A c \in Callers : stream[c].eaten + stream[c].pcm + InHand(c) <= stream[c].accepted

\* One holder of the slot: a call, a job in the queue, or the job that has the
\* giving back before it.
Claimed == {c \in Callers : call[c] = "claimed"}
FreeAhead == "free" \in Range(todo)
SlotHeld ==
    \/ (\E c \in Callers : Claimed = {c}) /\ queue = <<>> /\ ~FreeAhead
    \/ Claimed = {} /\ Len(queue) = 1 /\ ~FreeAhead
    \/ Claimed = {} /\ queue = <<>> /\ FreeAhead
SlotFree == Claimed = {} /\ queue = <<>> /\ ~FreeAhead
Slot ==
    kind = "diarizer" /\ open => (busy /\ SlotHeld) \/ (~busy /\ SlotFree)
SInv == UInv /\ Shape /\ Blocks /\ Slot

\* The worker comes to a block by taking it, and to nothing else of a stream
\* from outside.
LEMMA DoneHead ==
    ASSUME MInv, todo # <<>>, Head(todo) \in JobSteps \cup LiveSteps, Done
    PROVE  todo' # <<>> /\ Head(todo') \in JobSteps \cup IdleSteps
<1>1. kind \in AllKinds /\ Working
  BY AtItsWork DEF MInv, LeaveSteps, JobSteps, LiveSteps
<1>2. ~Between
  BY DEF Between, JobSteps, LiveSteps
<1>3. PICK k \in 1 .. Len(Program) : Tail(todo) = Rest(Program, k + 1)
  <2>1. ASSUME NEW k \in 1 .. Len(Program), InProgram(k)
        PROVE  Tail(todo) = Rest(Program, k + 1)
    BY <1>1, <2>1, ProgramIs, RestIs DEF InProgram
  <2> QED BY <1>1, <1>2, <2>1 DEF Working, InStream
<1>4. Program \in Seq(JobSteps) /\ Len(Program) \in Nat
  BY <1>1, ProgramIs
<1>5. CASE Tail(todo) = <<>>
  BY <1>5 DEF Done, IdleSteps
<1>6. CASE Tail(todo) # <<>>
  <2>1. todo' = Rest(Program, k + 1)
    BY <1>3, <1>6 DEF Done
  <2>2. k + 1 \in 1 .. Len(Program)
    BY <1>3, <1>4, <1>6, RestIs
  <2> QED BY <1>4, <2>1, <2>2, RestIs
<1> QED BY <1>5, <1>6

LEMMA SkipHead ==
    ASSUME MInv, At("check"), todo' = Tail(Tail(Tail(todo)))
    PROVE  todo' # <<>> /\ Head(todo') \in JobSteps
<1>1. kind \in AllKinds /\ Working
  BY AtItsWork DEF MInv, LeaveSteps, At
<1>2. PICK k \in 1 .. Len(Program) : k + 3 \in 1 .. Len(Program) /\ todo' = Rest(Program, k + 3)
  BY <1>1, SkipIs
<1>3. Program \in Seq(JobSteps)
  BY <1>1, ProgramIs
<1>4. ASSUME NEW i \in 1 .. Len(Program)
      PROVE  Rest(Program, i) # <<>> /\ Head(Rest(Program, i)) \in JobSteps
  BY <1>3, RestIs
<1> QED BY <1>2, <1>4

LEMMA ThenIs ==
    ASSUME MInv, todo # <<>>, Head(todo) \in {"run"} \cup LiveSteps,
           NEW step \in LiveSteps, Then(step)
    PROVE  /\ todo \in Seq(JobSteps \cup LiveSteps)
           /\ todo' \in Seq(JobSteps \cup LiveSteps)
           /\ todo' # <<>> /\ Head(todo') = step /\ Tail(todo') = Tail(todo)
<1>1. kind \in AllKinds /\ Working /\ ~Between
  BY AtItsWork DEF MInv, LeaveSteps, LiveSteps, Between
<1>2. todo \in Seq(JobSteps \cup LiveSteps)
  <2>1. ASSUME NEW k \in 1 .. Len(Program), InProgram(k)
        PROVE  todo \in Seq(JobSteps \cup LiveSteps)
    <3>1. todo \in Seq(JobSteps)
      BY <1>1, <2>1, ProgramIs, RestIs DEF InProgram
    <3> QED BY <3>1, SeqWider
  <2> QED BY <1>1, <2>1 DEF Working, InStream
<1>3. Tail(todo) \in Seq(JobSteps \cup LiveSteps)
  BY <1>2, HeadTailProperties
<1> QED BY <1>2, <1>3, ConsIs DEF Then

LEMMA WorkerPush ==
    ASSUME MInv, Worker, On({"push"})'
    PROVE  Live /\ Then("push")
<1> USE DEF IdleSteps, JobSteps, LiveSteps, LeaveSteps
<1>1. ASSUME todo' # <<>> => Head(todo') \in JobSteps \cup IdleSteps \cup LeaveSteps
      PROVE  FALSE
  BY <1>1 DEF On
<1>2. ASSUME todo # <<>>, Head(todo) \in JobSteps \cup LiveSteps, Done
      PROVE  FALSE
  BY <1>1, <1>2, DoneHead
<1>3. todo' # Leaving
  <2>1. Leaving = Rest(Leave, 1)
    BY LeaveIs, SubSeqFull DEF Rest, Leaving
  <2>2. Head(Leaving) \in LeaveSteps
    BY <2>1, LeaveIs, RestIs
  <2> QED BY <1>1, <2>2
<1>4. todo' \notin {<<"top">>, <<"next">>}
  BY <1>1
<1>5. ~LoadEnds /\ ~Top
  BY <1>3, <1>4 DEF LoadEnds, Top
<1>6. ~NextJob
  <2>1. ASSUME todo' = Steps PROVE FALSE
    <3>1. Head(todo') = Program[1] /\ Program[1] \in JobSteps
      BY <2>1, ProgramIs, ElementOfSeq DEF MInv, Steps
    <3> QED BY <1>1, <3>1
  <2> QED BY <1>3, <1>4, <2>1 DEF NextJob
<1>7. ~RefuseStep /\ ~Kernel /\ ~AnswerStep
  BY <1>2, <1>3 DEF RefuseStep, Kernel, AnswerStep, At
<1>8. ~Arm /\ ~Recheck /\ ~SetStatus /\ ~Verify /\ ~Amend /\ ~Free
  BY <1>2 DEF Arm, Recheck, SetStatus, Verify, Amend, Free, At
<1>9. ~Check
  <2>1. ASSUME At("check"), todo' = Tail(Tail(Tail(todo))) PROVE FALSE
    BY <1>1, <2>1, SkipHead
  <2> QED BY <1>2, <2>1 DEF Check, At
<1>10. ~Depart
  BY <1>1, DepartHead
<1>11. Live
  BY <1>5, <1>6, <1>7, <1>8, <1>9, <1>10 DEF Worker
<1>12. \E step \in LiveSteps : Then(step)
  BY <1>2, <1>11 DEF Live, Ends, At
<1>13. Then("push")
  <2>1. PICK step \in LiveSteps : Then(step)
    BY <1>12
  <2>2. todo # <<>> /\ Head(todo) \in {"run"} \cup LiveSteps
    BY <1>11 DEF Live, At
  <2>3. Head(todo') = step
    BY <2>1, <2>2, ThenIs
  <2> QED BY <2>1, <2>3 DEF On
<1> QED BY <1>11, <1>13

LEMMA InHandIs ==
    \A c : InHand(c) \in 0 .. 1 /\ (InHand(c) = 1 <=> On({"push"}) /\ job.who = c)
BY DEF InHand

LEMMA StreamFields ==
    ASSUME Shape, NEW c \in Callers
    PROVE  /\ stream[c] \in StreamsIn
           /\ stream[c].eaten \in Int /\ stream[c].pcm \in Int /\ stream[c].accepted \in Int
BY WorkerAssumption DEF Shape, StreamsIn, WorkerAssumption

\* Nothing is eaten and nothing comes to hand.
LEMMA BlocksKept ==
    ASSUME Blocks, Shape, Shape',
           \A c \in Callers : stream'[c].eaten = stream[c].eaten /\ stream'[c].pcm = stream[c].pcm
                            /\ stream'[c].accepted = stream[c].accepted,
           \A c \in Callers : InHand(c)' = 1 => InHand(c) = 1
    PROVE  Blocks'
<1> SUFFICES ASSUME NEW c \in Callers
             PROVE  (stream[c].eaten + stream[c].pcm + InHand(c) <= stream[c].accepted)'
  BY DEF Blocks
<1>1. InHand(c)' \in 0 .. 1 /\ InHand(c) \in 0 .. 1
  BY InHandIs DEF InHand
<1>2. InHand(c)' <= InHand(c)
  BY <1>1
<1> QED BY <1>1, <1>2, StreamFields DEF Blocks

LEMMA TellIs ==
    ASSUME Shape, NEW r \in Outcomes, Tell(r)
    PROVE  /\ stream' \in [Callers -> StreamsIn]
           /\ \A c \in Callers : stream'[c].eaten = stream[c].eaten
                 /\ stream'[c].pcm = stream[c].pcm /\ stream'[c].accepted = stream[c].accepted
<1>1. ASSUME NEW c \in Callers
      PROVE  /\ stream'[c] \in StreamsIn
             /\ stream'[c].eaten = stream[c].eaten
             /\ stream'[c].pcm = stream[c].pcm /\ stream'[c].accepted = stream[c].accepted
  <2>1. stream'[c] \in {stream[c], [stream[c] EXCEPT !.end = r]}
    BY DEF Tell
  <2> QED BY <2>1, StreamFields DEF StreamsIn
<1> QED BY <1>1 DEF Tell

\* The steps of a stream at work: a block comes to hand, or it is eaten, or
\* neither.
LEMMA LiveStream ==
    ASSUME SInv, Live
    PROVE  /\ job' = job
           /\ \/ /\ job.who \in Callers /\ stream[job.who].pcm > 0
                 /\ stream' = [stream EXCEPT ![job.who].pcm = @ - 1]
              \/ ~On({"push"})' /\ stream' = stream
              \/ /\ ~On({"push"})' /\ On({"push"}) /\ job.who \in Callers
                 /\ stream' = [stream EXCEPT ![job.who].eaten = @ + 1]
<1>1. MInv /\ job \in Jobs /\ todo # <<>> /\ job' = job
  BY DEF SInv, UInv, Owned, Types, Live
<1>2. ASSUME NEW step \in LiveSteps \ {"push"}, Then(step)
      PROVE  ~On({"push"})'
  <2>1. Head(todo) \in {"run"} \cup LiveSteps
    BY DEF Live, At, LiveSteps
  <2>2. Head(todo') = step
    BY <1>1, <1>2, <2>1, ThenIs
  <2> QED BY <1>2, <2>2 DEF On
<1>3. ASSUME Done PROVE ~On({"push"})'
  <2>1. Head(todo) \in JobSteps \cup LiveSteps
    BY DEF Live, At, LiveSteps, JobSteps
  <2> QED BY <1>1, <1>3, <2>1, DoneHead DEF On, JobSteps, IdleSteps
<1>4. /\ {"open", "look", "poll", "guard", "flush", "wait"} \subseteq LiveSteps \ {"push"}
      /\ job.who # Nobody => job.who \in Callers
  BY <1>1 DEF LiveSteps, Jobs
<1>5. \/ /\ job.who \in Callers /\ stream[job.who].pcm > 0
         /\ stream' = [stream EXCEPT ![job.who].pcm = @ - 1]
      \/ /\ Done \/ \E step \in LiveSteps \ {"push"} : Then(step)
         /\ stream' = stream
      \/ /\ At("push") /\ Then("look") /\ job.who \in Callers
         /\ stream' = [stream EXCEPT ![job.who].eaten = @ + 1]
  BY <1>4 DEF Live, Eats, Ends
<1> QED BY <1>1, <1>2, <1>3, <1>4, <1>5 DEF At, On

LEMMA WorkerShape ==
    ASSUME SInv, Worker
    PROVE  Shape' /\ Blocks'
<1> USE DEF shared, host, asked
<1>1. MInv /\ Shape /\ Blocks /\ Types /\ kind' = kind
  BY DEF SInv, UInv, Owned, Worker, LoadEnds, Top, NextJob, RefuseStep, Arm, Recheck,
     SetStatus, Check, Kernel, Live, Verify, Amend, Free, AnswerStep, Depart
<1>2. /\ loader' \in {"waiting", "refused", "failed", "loaded"}
      /\ handles' \in {"none", "held", "dropping", "gone"}
      /\ status' \in {"up", "stopping", "unloaded"} /\ closed' = closed
      /\ stop' \in BOOLEAN /\ active' \in BOOLEAN /\ busy' \in BOOLEAN
      /\ open' \in BOOLEAN /\ reserved' \in BOOLEAN
  BY ZenonT(30), <1>1 DEF Shape, Worker, LoadEnds, Top, NextJob, RefuseStep, Arm, Recheck,
     SetStatus, Check, Kernel, Live, Verify, Amend, Free, AnswerStep, Depart
<1>3. Len(queue') <= Room'
  <2>1. Room' = Room /\ Room \in Nat
    BY <1>1, WorkerAssumption DEF Room, WorkerAssumption
  <2>2. CASE NextJob
    <3>1. queue' = queue \/ (queue # <<>> /\ queue' = Tail(queue))
      BY <2>2 DEF NextJob
    <3>2. Len(queue') <= Len(queue) /\ Len(queue') \in Nat /\ Len(queue) \in Nat
      BY <1>1, <3>1, HeadTailProperties DEF Types
    <3> QED BY <1>1, <2>1, <3>2 DEF Shape
  <2>3. CASE queue' = <<>>
    BY <2>1, <2>3
  <2>4. queue' = queue \/ queue' = <<>> \/ NextJob
    BY DEF Worker, LoadEnds, Top, RefuseStep, Arm, Recheck,
     SetStatus, Check, Kernel, Live, Verify, Amend, Free, AnswerStep, Depart
  <2> QED BY <1>1, <2>1, <2>2, <2>3, <2>4 DEF Shape
<1>4. ASSUME stream' \in [Callers -> StreamsIn]
      PROVE  Shape'
  BY <1>1, <1>2, <1>3, <1>4 DEF Shape, StreamsIn, Outcomes
<1>5. CASE Live
  <2>1. CASE /\ job.who \in Callers /\ stream[job.who].pcm > 0
             /\ stream' = [stream EXCEPT ![job.who].pcm = @ - 1]
    <3> DEFINE c == job.who
    <3>1. /\ stream \in [Callers -> StreamsIn] /\ c \in Callers /\ stream[c].pcm > 0
          /\ stream' = [stream EXCEPT ![c].pcm = @ - 1]
          /\ PcmCap \in Nat /\ MaxBlocks \in Nat /\ job' = job
      BY <1>1, <1>5, <2>1, WorkerAssumption, LiveStream DEF Shape, WorkerAssumption
    <3> HIDE DEF c
    <3>2. stream' \in [Callers -> StreamsIn]
      BY <3>1 DEF StreamsIn
    <3>3. ASSUME NEW d \in Callers
          PROVE  (stream[d].eaten + stream[d].pcm + InHand(d) <= stream[d].accepted)'
      <4>1. /\ InHand(d) \in 0 .. 1 /\ InHand(d)' \in 0 .. 1 /\ (InHand(d)' = 1 => d = c)
        BY <3>1 DEF InHand, c
      <4>2. stream[d].eaten + stream[d].pcm + InHand(d) <= stream[d].accepted
        BY <1>1 DEF Blocks
      <4>3. stream'[d].eaten = stream[d].eaten /\ stream'[d].accepted = stream[d].accepted
            /\ stream'[d].pcm = IF d = c THEN stream[d].pcm - 1 ELSE stream[d].pcm
        BY <3>1 DEF StreamsIn
      <4> QED BY <1>1, <4>1, <4>2, <4>3, StreamFields
    <3> QED BY <1>4, <3>2, <3>3 DEF Blocks
  <2>2. CASE ~On({"push"})' /\ stream' = stream
    <3>1. Shape'
      BY <1>1, <1>4, <2>2 DEF Shape
    <3> QED BY <1>1, <2>2, <3>1, InHandIs, BlocksKept DEF InHand
  <2>3. CASE /\ ~On({"push"})' /\ On({"push"}) /\ job.who \in Callers
             /\ stream' = [stream EXCEPT ![job.who].eaten = @ + 1]
    <3> DEFINE c == job.who
    <3>1. /\ stream \in [Callers -> StreamsIn] /\ c \in Callers
          /\ stream' = [stream EXCEPT ![c].eaten = @ + 1]
          /\ PcmCap \in Nat /\ MaxBlocks \in Nat
          /\ InHand(c) = 1
      BY <1>1, <2>3, WorkerAssumption DEF Shape, WorkerAssumption, InHand
    <3>2. \A d : InHand(d)' = 0 /\ InHand(d) \in 0 .. 1
      BY <2>3 DEF InHand
    <3> HIDE DEF c
    <3>3. stream' \in [Callers -> StreamsIn]
      BY <3>1 DEF StreamsIn
    <3>4. ASSUME NEW d \in Callers
          PROVE  (stream[d].eaten + stream[d].pcm + InHand(d) <= stream[d].accepted)'
      <4>1. stream[d].eaten + stream[d].pcm + InHand(d) <= stream[d].accepted
        BY <1>1 DEF Blocks
      <4>2. stream'[d].pcm = stream[d].pcm /\ stream'[d].accepted = stream[d].accepted
            /\ stream'[d].eaten = IF d = c THEN stream[d].eaten + 1 ELSE stream[d].eaten
        BY <3>1 DEF StreamsIn
      <4>3. InHand(d)' = 0 /\ InHand(d) \in 0 .. 1 /\ (d = c => InHand(d) = 1)
        BY <3>1, <3>2
      <4> QED BY <1>1, <4>1, <4>2, <4>3, StreamFields
    <3> QED BY <1>4, <3>3, <3>4 DEF Blocks
  <2> QED BY <1>5, <2>1, <2>2, <2>3, LiveStream
<1>6. CASE ~Live
  <2>1. \A c : InHand(c)' # 1
    BY <1>1, <1>6, WorkerPush DEF InHand
  <2>2. stream' = stream \/ \E r \in Outcomes : Tell(r)
    <3>1. CASE AnswerStep
      BY <1>1, <3>1 DEF AnswerStep, Types, Outcomes
    <3>2. CASE RefuseStep
      BY <3>2 DEF RefuseStep, Outcomes
    <3> QED BY <1>6, <3>1, <3>2 DEF Worker, LoadEnds, Top, NextJob, Arm, Recheck,
            SetStatus, Check, Kernel, Verify, Amend, Free, Depart
  <2>3. /\ stream' \in [Callers -> StreamsIn]
        /\ \A c \in Callers : stream'[c].eaten = stream[c].eaten
              /\ stream'[c].pcm = stream[c].pcm /\ stream'[c].accepted = stream[c].accepted
    BY <1>1, <2>2, TellIs DEF Shape
  <2>4. Shape'
    BY <1>4, <2>3
  <2> QED BY <1>1, <2>1, <2>3, <2>4, BlocksKept
<1> QED BY <1>5, <1>6

\* A caller changes his own stream: he forgets it, adds a block, or only marks it.
LEMMA OneStream ==
    ASSUME SInv, Shape', NEW c \in Callers, todo' = todo,
           job'.who # Nobody => job'.who = job.who,
           \A d \in Callers \ {c} : stream'[d] = stream[d],
           \/ stream'[c] = NoStream /\ job'.who # c
           \/ stream'[c] = [stream[c] EXCEPT !.pcm = @ + 1, !.accepted = @ + 1]
           \/ \E b \in BOOLEAN : stream'[c] = [stream[c] EXCEPT !.finish = b]
    PROVE  Blocks'
<1>1. ASSUME NEW d \in Callers
      PROVE  /\ InHand(d) \in 0 .. 1 /\ InHand(d)' \in 0 .. 1
             /\ InHand(d)' <= InHand(d) /\ (InHand(d)' = 1 => job'.who = d)
  BY WorkerAssumption DEF InHand, On, WorkerAssumption
<1>2. Shape /\ Blocks
  BY DEF SInv
<1>3. ASSUME NEW d \in Callers
      PROVE  (stream[d].eaten + stream[d].pcm + InHand(d) <= stream[d].accepted)'
  <2>1. stream[d].eaten + stream[d].pcm + InHand(d) <= stream[d].accepted
    BY <1>2 DEF Blocks
  <2>2. /\ stream[d].eaten \in Int /\ stream[d].pcm \in Int /\ stream[d].accepted \in Int
        /\ stream[d] \in StreamsIn
    BY <1>2, StreamFields
  <2>3. CASE stream'[d] = NoStream /\ job'.who # d
    <3>1. InHand(d)' = 0
      BY <1>1, <2>3
    <3> QED BY <2>3, <3>1 DEF NoStream
  <2>4. CASE stream'[d] = [stream[d] EXCEPT !.pcm = @ + 1, !.accepted = @ + 1]
    <3>1. /\ stream'[d].eaten = stream[d].eaten /\ stream'[d].pcm = stream[d].pcm + 1
          /\ stream'[d].accepted = stream[d].accepted + 1
      BY <2>2, <2>4 DEF StreamsIn
    <3> QED BY <1>1, <2>1, <2>2, <3>1
  <2>5. CASE stream'[d] = stream[d] \/ \E b \in BOOLEAN : stream'[d] = [stream[d] EXCEPT !.finish = b]
    <3>1. /\ stream'[d].eaten = stream[d].eaten /\ stream'[d].pcm = stream[d].pcm
          /\ stream'[d].accepted = stream[d].accepted
      BY <2>2, <2>5 DEF StreamsIn
    <3> QED BY <1>1, <2>1, <2>2, <3>1
  <2> QED BY <2>3, <2>4, <2>5
<1> QED BY <1>3 DEF Blocks

LEMMA CallerShape ==
    ASSUME SInv, NEW c \in Callers, Caller(c) \/ User(c)
    PROVE  Shape' /\ Blocks'
<1> USE DEF worker, shared, host
<1>1. Shape /\ Blocks /\ Types /\ job \in Jobs /\ c # Nobody /\ stream[c] \in StreamsIn
  BY WorkerAssumption, StreamFields DEF SInv, UInv, Owned, Types, WorkerAssumption
<1>2. /\ UNCHANGED <<kind, loader, handles, status, stop, active, open, reserved, closed, todo>>
      /\ busy' \in BOOLEAN
  <2>1. UNCHANGED <<kind, loader, handles, status, stop, active, open, reserved, closed, todo>>
    BY DEF Caller, User, Claim, Send, Receive, Timeout, ReadToken, Opened, Finished,
       Begin, Expire, Push, Finish, DropStream
  <2>2. ASSUME NEW live \in BOOLEAN, Send(c, live)
        PROVE  busy' \in {busy, FALSE}
    <3>1. busy' = (busy /\ kind # "diarizer") \/ busy' = busy
      BY <2>2 DEF Send, Sends
    <3>2. busy \in BOOLEAN
      BY <1>1 DEF Shape
    <3> QED BY <3>1, <3>2, Zenon
  <2>3. busy' \in {busy, TRUE, FALSE}
    BY <2>2 DEF Caller, User, Claim, Receive, Timeout, ReadToken, Opened, Finished,
       Begin, Expire, Push, Finish, DropStream
  <2>4. busy \in BOOLEAN
    BY <1>1 DEF Shape
  <2> QED BY <2>1, <2>3, <2>4
<1>3. Len(queue') <= Room'
  <2>1. Room' = Room /\ Room \in Nat /\ Len(queue) \in Nat /\ Len(queue) <= Room
    BY <1>1, <1>2, WorkerAssumption DEF Room, WorkerAssumption, Shape, Types
  <2>2. \/ queue' = queue
        \/ queue' = [i \in 1 .. Len(queue) |-> Orphaned(c, queue[i])]
        \/ Len(queue) < Room /\ \E j \in Jobs : queue' = Append(queue, j)
    <3>1. ASSUME NEW live \in BOOLEAN, Send(c, live)
          PROVE  \/ queue' = queue
                 \/ Len(queue) < Room /\ \E j \in Jobs : queue' = Append(queue, j)
      <4>1. [who |-> c, dead |-> FALSE, live |-> live] \in Jobs
        BY DEF Jobs
      <4> QED BY <3>1, <4>1 DEF Send, Sends
    <3> QED BY <3>1 DEF Caller, User, Claim, Receive, Timeout, ReadToken, Opened, Finished,
         Begin, Expire, Push, Finish, DropStream, GivesUp, Abandon, WaitsOn
  <2>3. ASSUME NEW j \in Jobs, queue' = Append(queue, j)
        PROVE  Len(queue') = Len(queue) + 1
    BY <1>1, <2>3, AppendProperties DEF Types
  <2>4. CASE queue' = [i \in 1 .. Len(queue) |-> Orphaned(c, queue[i])]
    BY <2>1, <2>4
  <2> QED BY <2>1, <2>2, <2>3, <2>4
<1>4. job'.who # Nobody => job'.who = job.who
  BY <1>1 DEF Caller, User, Claim, Send, Receive, Timeout, ReadToken, Opened, Finished,
     Begin, Expire, Push, Finish, DropStream, GivesUp, Abandon, WaitsOn, Orphaned, Jobs
<1>5. ASSUME NEW s \in StreamsIn, stream' = [stream EXCEPT ![c] = s]
      PROVE  Shape' /\ stream'[c] = s /\ \A d \in Callers \ {c} : stream'[d] = stream[d]
  BY <1>1, <1>2, <1>3, <1>5 DEF Shape, StreamsIn, Outcomes
<1>6. CASE stream' = stream
  <2>1. Shape'
    BY <1>1, <1>2, <1>3, <1>6 DEF Shape, StreamsIn, Outcomes
  <2>2. \A d \in Callers : InHand(d)' = 1 => InHand(d) = 1
    BY <1>2, <1>4, WorkerAssumption DEF InHand, On, WorkerAssumption
  <2> QED BY <1>1, <1>6, <2>1, <2>2, BlocksKept
<1>7. CASE stream' = [stream EXCEPT ![c] = NoStream] /\ job'.who # c
  <2>1. NoStream \in StreamsIn
    BY WorkerAssumption DEF NoStream, StreamsIn, Outcomes, WorkerAssumption
  <2> QED BY <1>2, <1>4, <1>5, <1>7, <2>1, OneStream
<1>8. CASE Push(c)
  <2> DEFINE s == [stream[c] EXCEPT !.pcm = @ + 1, !.accepted = @ + 1]
  <2>1. stream' = [stream EXCEPT ![c] = s] /\ stream[c].pcm < PcmCap
        /\ stream[c].accepted < MaxBlocks
    BY <1>1, <1>8 DEF Push
  <2>2. s \in StreamsIn
    <3>1. /\ stream[c].pcm + 1 \in 0 .. PcmCap /\ stream[c].accepted + 1 \in 0 .. MaxBlocks
      BY <1>1, <2>1, WorkerAssumption DEF StreamsIn, WorkerAssumption
    <3>2. s = [stream[c] EXCEPT !.pcm = stream[c].pcm + 1, !.accepted = stream[c].accepted + 1]
      BY <1>1 DEF StreamsIn
    <3> HIDE DEF s
    <3> QED BY <1>1, <3>1, <3>2 DEF StreamsIn
  <2> QED BY <1>2, <1>4, <1>5, <2>1, <2>2, OneStream
<1>9. CASE Finish(c)
  <2>1. PICK b \in BOOLEAN : stream' = [stream EXCEPT ![c] = [stream[c] EXCEPT !.finish = b]]
    <3>1. stream' = [stream EXCEPT ![c] =
                      [stream[c] EXCEPT !.finish = stream[c].finish \/ stream[c].end = "none"]]
      BY <1>9 DEF Finish
    <3> QED BY <3>1
  <2>2. [stream[c] EXCEPT !.finish = b] \in StreamsIn
    BY <1>1 DEF StreamsIn
  <2> QED BY <1>2, <1>4, <1>5, <2>1, <2>2, OneStream
<1>10. CASE Opened(c)
  <2>1. CASE reply[c] = "error" /\ stream' = [stream EXCEPT ![c] = NoStream]
    <3>1. job' = Orphaned(c, job)
      BY <1>10, <2>1 DEF Opened
    <3>2. job'.who # c
      BY <1>1, <3>1, OrphanedIs
    <3> QED BY <1>7, <2>1, <3>2
  <2> QED BY <1>6, <1>10, <2>1 DEF Opened
<1>11. CASE DropStream(c)
  <2>1. job'.who # c
    <3>1. CASE job.who # c
      BY <1>11, <3>1 DEF DropStream
    <3>2. CASE job.who = c
      BY <1>1, <1>11, <3>2 DEF DropStream, Jobs
    <3> QED BY <3>1, <3>2
  <2> QED BY <1>7, <1>11, <2>1 DEF DropStream
<1> QED BY <1>6, <1>8, <1>9, <1>10, <1>11 DEF Caller, User, Claim, Send, Receive, Timeout,
        ReadToken, Finished, Begin, Expire

LEMMA RangeIs ==
    ASSUME NEW S, NEW s \in Seq(S), s # <<>>
    PROVE  \A x : x \in Range(s) <=> x = Head(s) \/ x \in Range(Tail(s))
<1>1. /\ Len(s) \in Nat /\ Len(s) >= 1 /\ Head(s) = s[1] /\ Len(Tail(s)) = Len(s) - 1
      /\ \A i \in 1 .. Len(Tail(s)) : Tail(s)[i] = s[i + 1]
      /\ DOMAIN s = 1 .. Len(s) /\ DOMAIN Tail(s) = 1 .. Len(Tail(s))
  BY HeadTailProperties
<1>2. \A i \in 1 .. Len(s) : i = 1 \/ (i - 1 \in 1 .. Len(Tail(s)) /\ s[i] = Tail(s)[i - 1])
  BY <1>1
<1>3. \A i \in 1 .. Len(Tail(s)) : i + 1 \in 1 .. Len(s)
  BY <1>1
<1>4. ASSUME NEW i \in 1 .. Len(s)
      PROVE  s[i] = Head(s) \/ s[i] \in Range(Tail(s))
  BY <1>1, <1>2 DEF Range
<1>5. ASSUME NEW i \in 1 .. Len(Tail(s))
      PROVE  Tail(s)[i] \in Range(s)
  BY <1>1, <1>3 DEF Range
<1>6. Head(s) \in Range(s)
  <2>1. 1 \in DOMAIN s
    BY <1>1
  <2> QED BY <1>1, <2>1 DEF Range
<1>7. \A x \in Range(s) : x = Head(s) \/ x \in Range(Tail(s))
  BY <1>1, <1>4 DEF Range
<1>8. \A x \in Range(Tail(s)) : x \in Range(s)
  BY <1>1, <1>5 DEF Range
<1> QED BY <1>6, <1>7, <1>8

LEMMA RangeEmpty == \A x : x \notin Range(<<>>)
BY DEF Range

LEMMA RangeWithin ==
    ASSUME NEW S, NEW s \in Seq(S)
    PROVE  Range(s) \subseteq S
BY ElementOfSeq DEF Range

LEMMA JobTodo ==
    ASSUME MInv, todo # <<>>, Head(todo) \in JobSteps \cup LiveSteps
    PROVE  todo \in Seq(JobSteps \cup LiveSteps)
<1>1. kind \in AllKinds /\ Working /\ ~Between
  BY AtItsWork DEF MInv, LeaveSteps, LiveSteps, JobSteps, Between
<1>2. ASSUME NEW k \in 1 .. Len(Program), InProgram(k)
      PROVE  todo \in Seq(JobSteps \cup LiveSteps)
  <2>1. todo \in Seq(JobSteps)
    BY <1>1, <1>2, ProgramIs, RestIs DEF InProgram
  <2> QED BY <2>1, SeqWider
<1> QED BY <1>1, <1>2 DEF Working, InStream

LEMMA DiarizerProgram ==
    ASSUME kind = "diarizer"
    PROVE  /\ Len(Program) = 9 /\ kind \in AllKinds
           /\ \A k \in 1 .. 9 : /\ Program[k] \notin {"refuse", "check"}
                              /\ (Program[k] = "free" <=> k = 7)
                              /\ (Program[k] = "answer" <=> k = 9)
<1>1. Program = <<"arm", "recheck", "running", "run", "verify", "disarm", "free",
                  "ready", "answer">>
  BY DEF Program
<1> QED BY <1>1 DEF AllKinds

\* The giving back of the slot is ahead of a job from its start to that step.
LEMMA FreeInProgram ==
    ASSUME kind = "diarizer", NEW k \in 1 .. 9
    PROVE  "free" \in Range(Rest(Program, k)) <=> k <= 7
<1>1. Program \in Seq(JobSteps) /\ Len(Program) = 9
  BY DiarizerProgram, ProgramIs
<1>2. ASSUME NEW i \in 1 .. 9
      PROVE  \A x : x \in Range(Rest(Program, i))
                      <=> x = Program[i] \/ x \in Range(Rest(Program, i + 1))
  <2>1. /\ Rest(Program, i) # <<>> /\ Rest(Program, i) \in Seq(JobSteps)
        /\ Head(Rest(Program, i)) = Program[i] /\ Tail(Rest(Program, i)) = Rest(Program, i + 1)
    <3>1. i \in 1 .. Len(Program)
      BY <1>1
    <3> QED BY ZenonT(30), <1>1, <3>1, RestIs
  <2> QED BY <2>1, RangeIs
<1>3. "free" \notin Range(Rest(Program, 10))
  <2>1. Rest(Program, 9 + 1) = <<>>
    <3>1. 9 \in 1 .. Len(Program)
      BY <1>1
    <3>2. Rest(Program, 9 + 1) = <<>> <=> 9 = Len(Program)
      BY ZenonT(30), <1>1, <3>1, RestIs
    <3> QED BY <1>1, <3>2
  <2> QED BY <2>1, RangeEmpty
<1>4. \A i \in 1 .. 9 : "free" \in Range(Rest(Program, i))
                           <=> i = 7 \/ "free" \in Range(Rest(Program, i + 1))
  BY <1>2, DiarizerProgram
<1>5. "free" \notin Range(Rest(Program, 9))
  BY <1>3, <1>4
<1>6. "free" \notin Range(Rest(Program, 8))
  BY <1>4, <1>5
<1>7. \A i \in 1 .. 7 : "free" \in Range(Rest(Program, i))
  <2>1. "free" \in Range(Rest(Program, 7))
    BY <1>4
  <2>2. "free" \in Range(Rest(Program, 6))
    BY <1>4, <2>1
  <2>3. "free" \in Range(Rest(Program, 5))
    BY <1>4, <2>2
  <2>4. "free" \in Range(Rest(Program, 4))
    BY <1>4, <2>3
  <2>5. "free" \in Range(Rest(Program, 3))
    BY <1>4, <2>4
  <2>6. "free" \in Range(Rest(Program, 2))
    BY <1>4, <2>5
  <2>7. "free" \in Range(Rest(Program, 1))
    BY <1>4, <2>6
  <2>8. 1 .. 7 = {1, 2, 3, 4, 5, 6, 7}
    OBVIOUS
  <2> QED BY <2>1, <2>2, <2>3, <2>4, <2>5, <2>6, <2>7, <2>8
<1>8. k \in 1 .. 7 \/ k = 8 \/ k = 9
  OBVIOUS
<1> QED BY <1>5, <1>6, <1>7, <1>8

LEMMA LeavingHasNoFree ==
    ASSUME todo' = Leaving
    PROVE  ~FreeAhead'
<1>1. Leaving \in Seq(LeaveSteps)
  BY LeaveIs DEF Leaving
<1> QED BY <1>1, RangeWithin DEF FreeAhead, LeaveSteps

LEMMA BetweenHasNoFree ==
    \A x : "free" \in Range(<<x>>) <=> x = "free"
BY DEF Range

LEMMA DoneFree ==
    ASSUME MInv, todo # <<>>, Head(todo) \in JobSteps \cup LiveSteps, Head(todo) # "free", Done
    PROVE  FreeAhead' <=> FreeAhead
<1>1. FreeAhead <=> "free" \in Range(Tail(todo))
  BY JobTodo, RangeIs DEF FreeAhead
<1>2. CASE Tail(todo) = <<>>
  <2>1. todo' = <<"top">> /\ "free" \notin Range(<<"top">>)
    BY <1>2, BetweenHasNoFree DEF Done
  <2>2. "free" \notin Range(Tail(todo))
    BY <1>2, RangeEmpty
  <2> QED BY <1>1, <2>1, <2>2 DEF FreeAhead
<1>3. CASE Tail(todo) # <<>>
  BY <1>1, <1>3 DEF Done, FreeAhead
<1> QED BY <1>2, <1>3

LEMMA ThenFree ==
    ASSUME MInv, todo # <<>>, Head(todo) \in {"run"} \cup LiveSteps,
           NEW step \in LiveSteps, Then(step)
    PROVE  FreeAhead' <=> FreeAhead
<1>1. /\ todo \in Seq(JobSteps \cup LiveSteps) /\ todo' \in Seq(JobSteps \cup LiveSteps)
      /\ todo' # <<>> /\ Head(todo') = step /\ Tail(todo') = Tail(todo)
  BY ThenIs
<1>2. "free" \in Range(todo) <=> "free" = Head(todo) \/ "free" \in Range(Tail(todo))
  BY <1>1, RangeIs
<1>3. "free" \in Range(todo') <=> "free" = Head(todo') \/ "free" \in Range(Tail(todo'))
  BY <1>1, RangeIs
<1> QED BY <1>1, <1>2, <1>3 DEF FreeAhead, LiveSteps

LEMMA AtProgram ==
    ASSUME kind \in AllKinds, NEW k \in 1 .. Len(Program), InProgram(k)
    PROVE  Head(todo) = Program[k] /\ Program[k] \in JobSteps
<1>1. Program \in Seq(JobSteps)
  BY ProgramIs
<1> QED BY <1>1, RestIs DEF InProgram

\* The job is what has the giving back before it, from its taking to that step.
LEMMA FreeStep ==
    ASSUME MInv, kind = "diarizer", Worker
    PROVE  IF todo' = Steps /\ NextJob THEN ~FreeAhead
           ELSE IF Free THEN FreeAhead /\ ~FreeAhead'
           ELSE FreeAhead' <=> FreeAhead
<1> USE DEF IdleSteps, JobSteps, LiveSteps, LeaveSteps
<1>1. ASSUME todo # <<>>, Head(todo) \in IdleSteps
      PROVE  ~FreeAhead
  <2>1. Working
    BY <1>1, AtItsWork
  <2>2. Between
    <3>1. ASSUME NEW k \in 1 .. Len(Program), InProgram(k)
          PROVE  FALSE
      BY <1>1, <3>1, DiarizerProgram, AtProgram
    <3> QED BY <1>1, <2>1, <3>1 DEF Working, InStream
  <2> QED BY <2>2, BetweenHasNoFree DEF Between, FreeAhead
<1>2. ASSUME todo # <<>>, Head(todo) \in JobSteps
      PROVE  \E k \in 1 .. 9 : InProgram(k) /\ Head(todo) = Program[k]
  <2>1. Working /\ ~Between
    BY <1>2, AtItsWork DEF Between
  <2>2. PICK k \in 1 .. Len(Program) : InProgram(k)
    BY <1>2, <2>1 DEF Working, InStream
  <2> QED BY <2>2, DiarizerProgram, AtProgram
<1>4. todo' \in {<<"top">>, <<"next">>} => ~FreeAhead'
  BY BetweenHasNoFree DEF FreeAhead
<1>5. CASE LoadEnds \/ Top
  BY <1>1, <1>4, <1>5, LeavingHasNoFree DEF LoadEnds, Top, At, NextJob, Free
<1>6. CASE NextJob
  BY <1>1, <1>4, <1>6, LeavingHasNoFree DEF NextJob, At, Free
<1>7. CASE RefuseStep \/ Check
  <2>1. todo # <<>> /\ Head(todo) \in {"refuse", "check"}
    BY <1>7 DEF RefuseStep, Check, At
  <2> QED BY <1>2, <2>1, DiarizerProgram
<1>8. CASE Arm \/ Recheck \/ SetStatus \/ Verify \/ Amend
  BY <1>8, DoneFree DEF Arm, Recheck, SetStatus, Verify, Amend, At, NextJob, Free
<1>9. CASE Kernel
  <2>1. Done /\ todo # <<>> /\ Head(todo) = "run"
    BY <1>9 DEF Kernel, At
  <2> QED BY <2>1, DoneFree DEF At, NextJob, Free
<1>10. CASE Live
  <2>1. todo # <<>> /\ Head(todo) \in {"run"} \cup LiveSteps
    BY <1>10 DEF Live, At
  <2>2. Done \/ \E step \in LiveSteps : Then(step)
    BY <1>10 DEF Live, Ends
  <2>3. FreeAhead' <=> FreeAhead
    BY <2>1, <2>2, DoneFree, ThenFree
  <2> QED BY <2>1, <2>3 DEF At, NextJob, Free
<1>11. CASE Free
  <2>1. todo # <<>> /\ Head(todo) = "free" /\ Done
    BY <1>11 DEF Free, At
  <2>2. PICK k \in 1 .. 9 : InProgram(k) /\ Head(todo) = Program[k]
    BY <1>2, <2>1
  <2>3. k = 7 /\ Program \in Seq(JobSteps) /\ Len(Program) = 9
    BY <2>1, <2>2, DiarizerProgram, ProgramIs
  <2>4. Tail(todo) = Rest(Program, 8) /\ Rest(Program, 8) # <<>>
    <3>1. 7 \in 1 .. Len(Program) /\ 8 \in 1 .. Len(Program)
      BY <2>3
    <3>2. Tail(Rest(Program, 7)) = Rest(Program, 7 + 1) /\ Rest(Program, 8) # <<>>
      BY <2>3, <3>1, RestIs
    <3> QED BY <2>2, <2>3, <3>2 DEF InProgram
  <2>5. todo' = Rest(Program, 8)
    BY <2>1, <2>4 DEF Done
  <2>6. FreeAhead /\ ~FreeAhead'
    BY <2>2, <2>3, <2>5, FreeInProgram DEF FreeAhead, InProgram
  <2> QED BY <1>11, <2>1, <2>6 DEF NextJob, At
<1>12. CASE AnswerStep
  <2>1. todo # <<>> /\ Head(todo) = "answer" /\ (Done \/ todo' = Leaving)
    BY <1>12 DEF AnswerStep, At
  <2>2. PICK k \in 1 .. 9 : InProgram(k) /\ Head(todo) = Program[k]
    BY <1>2, <2>1
  <2>3. k = 9
    BY <2>1, <2>2, DiarizerProgram
  <2>4. ~FreeAhead
    BY <2>2, <2>3, FreeInProgram DEF FreeAhead, InProgram
  <2> QED BY <2>1, <2>4, DoneFree, LeavingHasNoFree DEF At, NextJob, Free
<1>13. CASE Depart
  <2>1. /\ todo \in Seq(LeaveSteps) /\ todo # <<>> /\ todo' = Tail(todo)
    BY <1>13, DepartHead
  <2>2. "free" \notin Range(todo)
    BY <2>1, RangeWithin
  <2>3. "free" \notin Range(todo')
    BY <2>1, <2>2, RangeIs
  <2>4. Head(todo) \in LeaveSteps
    BY <2>1, HeadTailProperties
  <2> QED BY <2>2, <2>3, <2>4 DEF FreeAhead, At, NextJob, Free
<1> QED BY <1>5, <1>6, <1>7, <1>8, <1>9, <1>10, <1>11, <1>12, <1>13 DEF Worker

LEMMA WorkerSlot ==
    ASSUME SInv, Worker
    PROVE  Slot'
<1> USE DEF shared, host, asked
<1>1. MInv /\ Slot /\ Types /\ kind' = kind /\ call' = call /\ (open' => open) /\ Shape
  BY DEF SInv, UInv, Owned, Shape, Worker, LoadEnds, Top, NextJob, RefuseStep, Arm, Recheck,
     SetStatus, Check, Kernel, Live, Verify, Amend, Free, AnswerStep, Depart
<1>2. Claimed' = Claimed
  BY <1>1 DEF Claimed
<1> SUFFICES ASSUME kind = "diarizer", open'
             PROVE  (busy /\ SlotHeld)' \/ (~busy /\ SlotFree)'
  BY <1>1 DEF Slot
<1>3. (busy /\ SlotHeld) \/ (~busy /\ SlotFree)
  BY <1>1 DEF Slot
<1>4. CASE NextJob /\ todo' = Steps
  <2>1. queue # <<>> /\ queue' = Tail(queue) /\ busy' = busy
    <3>1. Steps # <<"top">> /\ Steps # Leaving
      <4>1. Steps[1] \in JobSteps
        BY ProgramIs, DiarizerProgram, ElementOfSeq DEF Steps
      <4>2. Leaving[1] \in LeaveSteps
        BY LeaveIs, ElementOfSeq DEF Leaving
      <4> QED BY <4>1, <4>2 DEF JobSteps, LeaveSteps
    <3> QED BY <1>4, <3>1 DEF NextJob
  <2>2. ~FreeAhead /\ FreeAhead'
    <3>1. FreeAhead'
      <4>1. Program = Rest(Program, 1)
        BY ProgramIs, DiarizerProgram, SubSeqFull DEF Rest
      <4> QED BY <1>4, <4>1, FreeInProgram DEF FreeAhead, Steps
    <3> QED BY <1>1, <1>4, <3>1, FreeStep
  <2>3. busy /\ Claimed = {} /\ Len(queue) = 1
    BY <1>3, <2>1, <2>2 DEF SlotHeld, SlotFree
  <2>4. queue' = <<>>
    BY <1>1, <2>1, <2>3, HeadTailProperties, EmptySeq DEF Types
  <2> QED BY <1>2, <2>1, <2>2, <2>3, <2>4 DEF SlotHeld
<1>5. CASE Free
  <2>1. FreeAhead /\ ~FreeAhead'
    BY <1>1, <1>5, FreeStep DEF Free, NextJob, At
  <2>2. busy' = FALSE /\ queue' = queue
    BY <1>5 DEF Free
  <2> QED BY <1>2, <1>3, <2>1, <2>2 DEF SlotHeld, SlotFree
<1>6. CASE ~(NextJob /\ todo' = Steps) /\ ~Free
  <2>1. FreeAhead' <=> FreeAhead
    BY <1>1, <1>6, FreeStep
  <2>2. queue' = queue
    <3>1. CASE Depart
      <4>1. Head(todo) # "drain"
        <5>1. todo # <<>> /\ Head(todo) \in LeaveSteps
          BY <3>1 DEF Depart, At, LeaveSteps
        <5>2. ~Working
          BY <5>1, WorkHead, DiarizerProgram DEF IdleSteps, JobSteps, LiveSteps, LeaveSteps
        <5>3. PICK k \in 1 .. Len(Leave) + 1 : LeavingAt(k)
          BY <1>1, <5>2 DEF MInv, Course
        <5>4. k \in 1 .. Len(Leave) /\ Head(todo) = Leave[k]
          BY <5>1, <5>3, LeaveHead
        <5>5. Leave = <<"hangup", "release", "gone">>
          BY DEF Leave
        <5> QED BY <5>4, <5>5
      <4> QED BY <3>1, <4>1 DEF Depart, At
    <3>2. CASE NextJob
      BY <1>6, <3>2 DEF NextJob
    <3> QED BY <3>1, <3>2 DEF Worker, LoadEnds, Top, RefuseStep, Arm, Recheck,
         SetStatus, Check, Kernel, Live, Verify, Amend, Free, AnswerStep
  <2>3. busy' = busy
    BY <1>6 DEF Worker, LoadEnds, Top, NextJob, RefuseStep, Arm, Recheck,
       SetStatus, Check, Kernel, Live, Verify, Amend, AnswerStep, Depart
  <2> QED BY <1>2, <1>3, <2>1, <2>2, <2>3 DEF SlotHeld, SlotFree
<1> QED BY <1>4, <1>5, <1>6

LEMMA SlotKept ==
    ASSUME Slot, Types, Types', UNCHANGED <<kind, open, busy, todo>>, Claimed' = Claimed,
           Len(queue') = Len(queue)
    PROVE  Slot'
<1>1. queue' = <<>> <=> queue = <<>>
  BY EmptySeq DEF Types
<1> QED BY <1>1 DEF Slot, SlotHeld, SlotFree, FreeAhead

LEMMA CallerSlot ==
    ASSUME SInv, NEW c \in Callers, Caller(c) \/ User(c)
    PROVE  Slot'
<1> USE DEF worker, shared, host
<1>1. /\ Slot /\ Types /\ Types' /\ Shape /\ Len(queue) \in Nat
      /\ UNCHANGED <<kind, open, todo>>
  <2>1. Types /\ Types' /\ Slot /\ Shape
    BY CallerOwned DEF SInv, UInv, Owned
  <2>2. UNCHANGED <<kind, open, todo>>
    BY DEF Caller, User, Claim, Send, Receive, Timeout, ReadToken, Opened, Finished,
       Begin, Expire, Push, Finish, DropStream
  <2> QED BY <2>1, <2>2 DEF Types
<1>2. CASE kind # "diarizer" \/ ~open
  BY <1>1, <1>2 DEF Slot
<1>3. CASE Claim(c)
  <2>1. call[c] = "asked" /\ busy' = TRUE /\ queue' = queue
    BY <1>3 DEF Claim
  <2>2. CASE busy /\ Returns(c)
    <3>1. call' = [call EXCEPT ![c] = "out"]
      BY <2>2 DEF Returns, Moves
    <3>2. Claimed' = Claimed
      BY <1>1, <2>1, <3>1 DEF Claimed, Types
    <3> QED BY <1>1, <2>1, <2>2, <3>2 DEF Slot, SlotHeld, SlotFree, FreeAhead
  <2>3. CASE ~busy /\ Moves(c, "claimed")
    <3>1. Claimed' = Claimed \cup {c}
      BY <1>1, <2>3 DEF Claimed, Types, Moves
    <3> QED BY <1>1, <2>1, <2>3, <3>1 DEF Slot, SlotHeld, SlotFree, FreeAhead
  <2> QED BY <1>3, <2>2, <2>3 DEF Claim
<1>4. ASSUME kind = "diarizer", open, NEW live \in BOOLEAN, Send(c, live)
      PROVE  Slot'
  <2>1. call[c] = "claimed" /\ c \in Claimed
    BY <1>4 DEF Send, Claimed
  <2>2. Claimed = {c} /\ queue = <<>> /\ ~FreeAhead /\ busy
    BY <1>1, <1>4, <2>1 DEF Slot, SlotHeld, SlotFree
  <2>3. Len(queue) < Room
    BY <1>4, <2>2 DEF Room
  <2>4. Sends(c, live) /\ Moves(c, IF live THEN "opening" ELSE "looking")
    BY <1>1, <1>4, <2>3, WorkerAssumption DEF Send, Room
  <2>5. Len(queue') = 1 /\ busy' = busy
    <3>1. [who |-> c, dead |-> FALSE, live |-> live] \in Jobs
      BY DEF Jobs
    <3> QED BY <1>1, <2>2, <2>4, <3>1, AppendProperties DEF Sends, Types
  <2>6. Claimed' = {}
    <3>1. call'[c] # "claimed" /\ \A d \in Callers \ {c} : call'[d] = call[d]
      BY <1>1, <2>4 DEF Moves, Types
    <3> QED BY <2>2, <3>1 DEF Claimed
  <2> QED BY <1>1, <2>2, <2>5, <2>6 DEF Slot, SlotHeld, FreeAhead
<1>5. ASSUME ~Claim(c), ~\E live \in BOOLEAN : Send(c, live)
      PROVE  Slot'
  <2>1. busy' = busy
    BY <1>5 DEF Caller, User, Receive, Timeout, ReadToken, Opened, Finished,
       Begin, Expire, Push, Finish, DropStream
  <2>2. Len(queue') = Len(queue)
    <3>1. queue' = queue \/ queue' = [i \in 1 .. Len(queue) |-> Orphaned(c, queue[i])]
      BY <1>5 DEF Caller, User, Receive, Timeout, ReadToken, Opened, Finished,
         Begin, Expire, Push, Finish, DropStream, GivesUp, Abandon, WaitsOn
    <3>2. Len([i \in 1 .. Len(queue) |-> Orphaned(c, queue[i])]) = Len(queue)
      BY <1>1
    <3> QED BY <3>1, <3>2
  <2>3. \/ call' = call
        \/ call[c] # "claimed" /\ \E where \in Places \ {"claimed"} : Moves(c, where)
    <3> USE DEF Places
    <3>1. CASE Timeout(c) \/ ReadToken(c)
      BY <3>1 DEF Timeout, ReadToken, GivesUp, WaitsOn, Returns
    <3>2. CASE Opened(c) \/ Finished(c) \/ Receive(c)
      BY <3>2 DEF Opened, Finished, Receive, Returns
    <3>3. CASE User(c)
      BY <3>3 DEF User, Begin, Idle, Expire, Push, Finish, DropStream, Returns
    <3> QED BY <1>5, <3>1, <3>2, <3>3 DEF Caller
  <2>4. Claimed' = Claimed
    BY <1>1, <2>3 DEF Claimed, Moves, Types
  <2> QED BY <1>1, <2>1, <2>2, <2>4, SlotKept
<1> QED BY <1>2, <1>3, <1>4, <1>5

LEMMA SlotStep == SInv /\ [Next]_vars => SInv'
<1> SUFFICES ASSUME SInv, [Next]_vars PROVE Shape' /\ Blocks' /\ Slot'
  BY UnloadingStep DEF SInv
<1>1. UInv' /\ Types /\ Types' /\ Shape /\ Blocks /\ Slot /\ job \in Jobs
  BY UnloadingStep DEF SInv, UInv, Owned, Types
<1>2. ASSUME UNCHANGED <<kind, active, busy, open, reserved, queue, stream, call, todo>>,
             stop' \in BOOLEAN,
             loader' \in {"waiting", "refused", "failed", "loaded"},
             handles' \in {"none", "held", "dropping", "gone"},
             status' \in {"up", "stopping", "unloaded"},
             closed' \in {"none", "unloaded", "shutdown"}, job'.who = job.who
      PROVE  Shape' /\ Blocks' /\ Slot'
  <2>1. Shape'
    BY <1>1, <1>2 DEF Shape, StreamsIn, Outcomes, Room
  <2>2. \A c \in Callers : InHand(c)' = 1 => InHand(c) = 1
    BY <1>2 DEF InHand, On
  <2>3. Claimed' = Claimed
    BY <1>2 DEF Claimed
  <2> QED BY <1>1, <1>2, <2>1, <2>2, <2>3, BlocksKept, SlotKept
<1>3. CASE Worker
  BY <1>3, WorkerShape, WorkerSlot
<1>4. CASE LoaderReturns
  BY <1>1, <1>2, <1>4 DEF LoaderReturns, Shape, worker, shared, asked
<1>5. CASE StartUnload
  BY <1>1, <1>2, <1>5 DEF StartUnload, Shape, worker, shared, asked
<1>6. CASE DropHandles
  BY <1>1, <1>2, <1>6 DEF DropHandles, Shape, worker, shared, asked
<1>7. CASE Closing
  <2>1. job'.who = job.who
    BY <1>1, <1>7, TripKeeps DEF Closing
  <2> QED BY <1>1, <1>2, <1>7, <2>1 DEF Closing, Shape
<1>8. ASSUME NEW c \in Callers, Caller(c) \/ User(c)
      PROVE  Shape' /\ Blocks' /\ Slot'
  BY <1>8, CallerShape, CallerSlot
<1>9. CASE UNCHANGED vars
  BY <1>1, <1>2, <1>9 DEF vars, Shape, worker, shared, host, asked
<1> QED BY <1>3, <1>4, <1>5, <1>6, <1>7, <1>8, <1>9 DEF Next

\* The state keeps to its bounds, and the diarizer's slot belongs to one call,
\* one job in the queue or one at work, whatever is refused, cancelled or
\* panics: nobody who claimed it finds the queue full, and nobody is locked out
\* by a slot without a holder (diarization/worker.rs:160-183).
THEOREM SlotIsExact == Spec => []SlotExact
<1>1. Init => SInv
  <2> SUFFICES ASSUME Init PROVE SInv
    OBVIOUS
  <2>1. UInv
    <3>1. Unloading
      BY DEF Init, Unloading, Past, On, Pubs, Guards, LiveSteps
    <3> QED BY <3>1, MInvInit, OwnedInit DEF UInv
  <2>2. Shape
    <3>1. NoStream \in StreamsIn
      BY WorkerAssumption DEF StreamsIn, NoStream, Outcomes, WorkerAssumption
    <3>2. Len(queue) <= Room
      BY WorkerAssumption DEF Init, Room, WorkerAssumption
    <3> QED BY <3>1, <3>2 DEF Init, Shape
  <2>3. Blocks
    BY DEF Init, Blocks, NoStream, InHand, On
  <2>4. Slot
    BY BetweenHasNoFree DEF Init, Slot, SlotFree, Claimed, FreeAhead
  <2> QED BY <2>1, <2>2, <2>3, <2>4 DEF SInv
<1>2. SInv => SlotExact
  <2> SUFFICES ASSUME SInv PROVE SlotExact
    OBVIOUS
  <2>1. Types /\ Shape /\ Blocks /\ Slot
    BY DEF SInv, UInv, Owned
  <2>2. ASSUME NEW c \in Callers
        PROVE  /\ call[c] \in Places
               /\ stream[c].pcm \in 0 .. PcmCap
               /\ stream[c].accepted \in 0 .. MaxBlocks /\ stream[c].eaten \in 0 .. MaxBlocks
    <3>1. stream[c] \in StreamsIn /\ call[c] \in Places
      BY <2>1 DEF Shape, Types
    <3>2. stream[c].eaten + stream[c].pcm + InHand(c) <= stream[c].accepted
          /\ InHand(c) \in 0 .. 1
      BY <2>1 DEF Blocks, InHand
    <3> QED BY <3>1, <3>2, WorkerAssumption DEF StreamsIn, WorkerAssumption
  <2>3. TypeOK
    BY <2>1, <2>2 DEF TypeOK, Shape, Types, Places
  <2>4. kind = "diarizer" /\ open => SlotHolders = (IF busy THEN 1 ELSE 0)
    <3> SUFFICES ASSUME kind = "diarizer", open
                 PROVE  SlotHolders = IF busy THEN 1 ELSE 0
      OBVIOUS
    <3>1. (busy /\ SlotHeld) \/ (~busy /\ SlotFree)
      BY <2>1 DEF Slot
    <3>2. SlotHolders = Cardinality(Claimed) + Len(queue) + (IF FreeAhead THEN 1 ELSE 0)
      BY DEF SlotHolders, Claimed, FreeAhead
    <3>3. Cardinality({}) = 0 /\ \A c : Cardinality({c}) = 1
      BY FS_EmptySet, FS_Singleton
    <3>4. queue = <<>> => Len(queue) = 0
      OBVIOUS
    <3>5. CASE ~busy /\ SlotFree
      BY <3>2, <3>3, <3>4, <3>5 DEF SlotFree
    <3>6. CASE busy /\ SlotHeld
      <4>1. \/ Cardinality(Claimed) = 1 /\ Len(queue) = 0 /\ ~FreeAhead
            \/ Cardinality(Claimed) = 0 /\ Len(queue) = 1 /\ ~FreeAhead
            \/ Cardinality(Claimed) = 0 /\ Len(queue) = 0 /\ FreeAhead
        BY <3>3, <3>4, <3>6 DEF SlotHeld
      <4>2. SlotHolders = 1
        <5>1. CASE FreeAhead
          BY <3>2, <4>1, <5>1
        <5>2. CASE ~FreeAhead
          <6>1. SlotHolders = Cardinality(Claimed) + Len(queue) + 0
            BY <3>2, <5>2
          <6>2. \/ Cardinality(Claimed) = 1 /\ Len(queue) = 0
                \/ Cardinality(Claimed) = 0 /\ Len(queue) = 1
            BY <4>1, <5>2, Zenon
          <6>3. CASE Cardinality(Claimed) = 1 /\ Len(queue) = 0
            BY <6>1, <6>3
          <6>4. CASE Cardinality(Claimed) = 0 /\ Len(queue) = 1
            BY <6>1, <6>4
          <6> QED BY <6>2, <6>3, <6>4
        <5> QED BY <5>1, <5>2
      <4> QED BY <3>6, <4>2
    <3> QED BY <3>1, <3>5, <3>6
  <2> QED BY <2>3, <2>4 DEF SlotExact
<1> QED BY <1>1, <1>2, SlotStep, PTL DEF Spec
=============================================================================
