---------------------------- MODULE MCApiSession ----------------------------
(* Constant values for the model checker: the turns a caller asks for. *)
EXTENDS ApiSession, TLC

CONSTANTS e1, e2

MCEngines == {e1, e2}
MCOneEngine == {e1}
MCSymmetry == Permutations(MCEngines)

Plain == [api |-> "turn", over |-> NoOverride, thinking |-> 0, staged |-> <<Ask>>]
Quiet == [Plain EXCEPT !.staged = <<>>]
Thoughtful == [Plain EXCEPT !.thinking = 1]
Prompted == [Plain EXCEPT !.over = [system |-> Override, tools |-> -1]]
Tooled == [Plain EXCEPT !.over = [system |-> 0, tools |-> 1]]
Chatted == [Plain EXCEPT !.api = "chat"]
ChatTooled == [Tooled EXCEPT !.api = "chat"]
Spoken == [Quiet EXCEPT !.api = "microphone"]
SpokenAfter == [Spoken EXCEPT !.staged = <<Answer>>]

MCRequests == {Plain, Quiet, Thoughtful, Prompted, Tooled, Chatted, ChatTooled, Spoken, SpokenAfter}
MCFewRequests == {Plain, Quiet}
=============================================================================
