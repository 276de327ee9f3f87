---------------------------- MODULE MCAgentLoop -----------------------------
(***************************************************************************)
(* Instances of AgentLoop: turns of up to two calls, a message of the      *)
(* user, and as many requests to the server as its handshake and two calls *)
(* make.                                                                   *)
(***************************************************************************)
EXTENDS AgentLoop

MCCalls == 1 .. 2

\* Two calls that share the client; a refusal beside and before another call;
\* an exclusive call after and before one that is not; a call made over and over.
MCRounds == {<<"mcp", "mcp">>, <<"grep", "wipe">>, <<"wipe", "push">>,
             <<"push", "grep">>, <<"unheard_of", "unheard_of">>}
=============================================================================
