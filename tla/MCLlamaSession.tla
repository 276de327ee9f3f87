--------------------------- MODULE MCLlamaSession ---------------------------
(* Small instances of LlamaSession: a window of 10 tokens of which 4 are     *)
(* kept for the reply, a tool block of 4, messages of 1 or 5 tokens, replies *)
(* sampled as 1 or 4, a compaction that keeps the last message.              *)
EXTENDS LlamaSession, TLC

MCSymmetry == Permutations(Models)
MCSizes == {1, 5}
MCLengths == {1, 4}
MCOthers == <<[chat |-> "a", size |-> 1], [chat |-> "b", size |-> 4],
              [chat |-> "c", size |-> 1], [chat |-> "d", size |-> 1]>>
MCStuck == {"b"}
=============================================================================
