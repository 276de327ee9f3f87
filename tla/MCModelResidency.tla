-------------------------- MODULE MCModelResidency --------------------------
(* Small instances of ModelResidency for TLC.                              *)
EXTENDS ModelResidency, TLC

CONSTANTS m1, m2, llama, api, k1, k2

MCModels == {m1, m2}
MCBackends == {llama, api}

\* Both models on one backend, or one on each.
MCOneBackend == [m \in MCModels |-> llama]
MCTwoBackends == (m1 :> llama) @@ (m2 :> api)

\* m2 leaves room for one helper, m1 for both.
MCMb == (m1 :> 2) @@ (m2 :> 3) @@ ("Embedder" :> 1) @@ ("Reranker" :> 1)

\* A build that starts with a backend, or with any.
MCEager == {llama}
MCAnyInitial == {llama, Uninit}

MCChats == {k1, k2}
MCOneChat == {k1}
=============================================================================
