------------------------- MODULE MCRuntimeAdmission -------------------------
(* Small instances of RuntimeAdmission for TLC, in real sizes: a desktop of *)
(* 16 GB with a budget that holds two of the models but not all.            *)
EXTENDS RuntimeAdmission, TLC

CONSTANTS t1, t2, i1, w1, p1, p2

MCTexts == {t1, t2}
MCImages == {i1}
MCWorkers == {w1}
MCCallers == {p1, p2}

\* t1: 2000 MB of weights, 512 KiB a token; t2: 1500 MB, trained for 2048.
MCInfo == t1 :> [file |-> 2000 * 1024, kv |-> 512, train |-> 8192]
       @@ t2 :> [file |-> 1500 * 1024, kv |-> None, train |-> 2048]
\* Nothing is offloaded: the weights are in host memory.
MCWeights == [m \in MCTexts |-> ResidentMb(MCInfo[m].file \div 1024, FALSE, None)]
MCPeak == i1 :> 3000 @@ w1 :> 2500
MCMachine == [mobile |-> FALSE, total |-> 16384, avail |-> 0, commit |-> None,
              reserve |-> None, paging |-> 0]
MCOthers == {2000, 10000}
MCHostBudget == 4000
MCSymmetry == Permutations(MCCallers)
=============================================================================
