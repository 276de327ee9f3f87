----------------------------- MODULE McpClient ------------------------------
(***************************************************************************)
(* The client of an external MCP server (src/src/mcp/client.rs) and the    *)
(* tools that share it (src/src/mcp/tool.rs): one child process, one pipe  *)
(* each way, one request at a time under a lock that is handed on in the   *)
(* order it was asked for.  Each write and each read of a line has a       *)
(* deadline of its own.                                                    *)
(*                                                                         *)
(* The server is another program.  It reads lines, answers requests in any *)
(* order, late or never, speaks unasked, and may exit.                     *)
(***************************************************************************)
EXTENDS Integers, Sequences

CONSTANTS
    Calls,     \* the calls of tools that may be under way together, by number
    MaxIds,    \* bound: requests ever made
    MaxNotes,  \* bound: lines the server sends unasked
    Chatty     \* whether it sends one whenever it has said nothing else, unbounded

ASSUME McpAssumption == Calls \subseteq Nat /\ MaxIds \in Nat /\ MaxNotes \in Nat /\ Chatty \in BOOLEAN

Ids == 1 .. MaxIds
Nobody == 0                 \* the id of a notification, and of no request

\* How the server answers, with a result (isError or not, the model is told) or a
\* JSON-RPC error, and how a request ends for the one who made it.
Bodies == {"result", "error"}
Errors == {"Timeout", "Io", "ServerClosed", "Protocol"}
Outcomes == Bodies \cup Errors

VARIABLES
    phase,      \* connect: "initialize", "notify", "list", then "ready" or "down"
    line,       \* the calls that wait for the lock, of which the first holds it
    next_id,
    req,        \* the id the holder's request waits for, or Nobody
    toServer,   \* the lines in the server's stdin
    torn,       \* a frame was cut: text without a newline stands at their end
    held,       \* requests the server has read and not answered
    fromServer, \* the lines in its stdout
    answer,     \* answer[i]: how it answered request i, or "none"
    alive,      \* it has not exited
    notes,      \* lines sent unasked
    asked,      \* asked[c]: the id of the request made for call c
    got         \* got[c]: how call c ended, or "none"

serverVars == <<held, fromServer, answer, alive, notes>>
mcpVars == <<phase, line, next_id, req, toServer, torn, serverVars, asked, got>>

Note == Nobody   \* a line that is a notification
Garbled == -1    \* a line that is two frames, the first of them cut

McpInit ==
    /\ phase = "initialize"
    /\ line = {} /\ next_id = 1 /\ req = Nobody
    /\ toServer = <<>> /\ torn = FALSE
    /\ held = {} /\ fromServer = <<>> /\ alive = TRUE /\ notes = 0
    /\ answer = [i \in Ids |-> "none"]
    /\ asked = [c \in Calls |-> Nobody]
    /\ got = [c \in Calls |-> "none"]

-----------------------------------------------------------------------------
(* The client.                                                             *)

\* write_frame: all of the line, a part or nothing of it before the deadline,
\* or a pipe nobody reads any more.  What follows a cut frame joins its line.
Written(frame, how) ==
    \/ /\ how = "whole"
       /\ toServer' = Append(toServer, IF torn THEN Garbled ELSE frame)
       /\ torn' = FALSE
    \/ how = "Timeout" /\ torn' = TRUE /\ UNCHANGED toServer
    \/ how = "Timeout" /\ UNCHANGED <<toServer, torn>>
    \/ how = "Io" /\ ~alive /\ UNCHANGED <<toServer, torn>>

\* They asked for the lock together, in the order of their numbers, and get it so.
Holder == CHOOSE c \in line : \A d \in line : c <= d

\* Somebody is in request: the handshake, or the call that holds the lock.
Requesting == phase \in {"initialize", "list"} \/ (phase = "ready" /\ line # {})

\* The request returns.  A call gives the lock on; a handshake that got
\* anything but a result is over, and the client and its child with it.
Returned(out) ==
    /\ req' = Nobody
    /\ IF phase = "ready"
         THEN /\ got' = [got EXCEPT ![Holder] = out]
              /\ line' = line \ {Holder}
              /\ UNCHANGED phase
         ELSE /\ phase' = IF out # "result" THEN "down"
                          ELSE IF phase = "initialize" THEN "notify" ELSE "ready"
              /\ UNCHANGED <<line, got>>

Request ==
    /\ Requesting /\ req = Nobody /\ next_id <= MaxIds
    /\ next_id' = next_id + 1
    /\ asked' = IF phase = "ready" THEN [asked EXCEPT ![Holder] = next_id] ELSE asked
    /\ \E how \in {"whole", "Timeout", "Io"} :
         /\ Written(next_id, how)
         /\ IF how = "whole"
              THEN req' = next_id /\ UNCHANGED <<phase, line, got>>
              ELSE Returned(how)
    /\ UNCHANGED serverVars

\* notifications/initialized, best effort.
Notify ==
    /\ phase = "notify"
    /\ \E how \in {"whole", "Timeout", "Io"} : Written(Note, how)
    /\ phase' = "list"
    /\ UNCHANGED <<line, next_id, req, serverVars, asked, got>>

\* Variant: whoever reads a reply takes it.
MatchesAny(l) == l.id # Nobody
Matches(l) == l.id = req

\* next_line gave a line: text that is no frame ends the request, a frame of
\* another id is skipped, and a reply must hold a result or an error.
ReadLine ==
    /\ req # Nobody /\ fromServer # <<>>
    /\ LET l == Head(fromServer)
       IN IF l.body = "garbage" THEN Returned("Protocol")
          ELSE IF ~Matches(l) THEN UNCHANGED <<phase, line, req, got>>
          ELSE Returned(IF l.body = "neither" THEN "Protocol" ELSE l.body)
    /\ fromServer' = Tail(fromServer)
    /\ UNCHANGED <<next_id, toServer, torn, held, answer, alive, notes, asked>>

\* Variant: only writes have a deadline.
ReadEndsClosed ==
    /\ req # Nobody /\ fromServer = <<>> /\ ~alive
    /\ Returned("ServerClosed")
    /\ UNCHANGED <<next_id, toServer, torn, serverVars, asked>>

\* No line came in time, or none can come any more.
ReadEnds ==
    /\ req # Nobody /\ fromServer = <<>>
    /\ Returned(IF alive THEN "Timeout" ELSE "ServerClosed")
    /\ UNCHANGED <<next_id, toServer, torn, serverVars, asked>>

ClientStep == Request \/ Notify \/ ReadLine \/ ReadEnds

\* Tools are called: each asks for the lock.
Join(cs) ==
    /\ line' = cs
    /\ asked' = [c \in Calls |-> Nobody]
    /\ got' = [c \in Calls |-> "none"]

\* map_error: what the model can be told of, and what ends a run.
Told(out) == out = "result"

-----------------------------------------------------------------------------
(* The server.                                                             *)

Take ==
    /\ alive /\ toServer # <<>>
    /\ held' = IF Head(toServer) \in {Note, Garbled} THEN held ELSE held \cup {Head(toServer)}
    /\ toServer' = Tail(toServer)
    /\ UNCHANGED <<phase, line, next_id, req, torn, fromServer, answer, alive, notes, asked, got>>

Answer(i, body) ==
    /\ alive /\ i \in held
    /\ held' = held \ {i}
    /\ answer' = [answer EXCEPT ![i] = body]
    /\ fromServer' = Append(fromServer, [id |-> i, body |-> body])
    /\ UNCHANGED <<phase, line, next_id, req, toServer, torn, alive, notes, asked, got>>

\* A notification, a request of its own (whose ids are its own affair, and may
\* meet the client's), or a line of log that does not belong there.
Unasked ==
    /\ alive
    /\ IF Chatty THEN fromServer = <<>> /\ UNCHANGED notes
                 ELSE phase = "ready" /\ notes < MaxNotes /\ notes' = notes + 1
    /\ \E l \in [id : {Nobody}, body : {"neither", "garbage"}] \cup [id : {next_id - 1}, body : {"neither"}] :
         fromServer' = Append(fromServer, l)
    /\ UNCHANGED <<phase, line, next_id, req, toServer, torn, held, answer, alive, asked, got>>

Exit ==
    /\ alive /\ alive' = FALSE
    /\ held' = {}
    /\ UNCHANGED <<phase, line, next_id, req, toServer, torn, fromServer, answer, notes, asked, got>>

ServerStep ==
    \/ Take \/ Unasked \/ Exit
    \/ \E i \in held, body \in Bodies : Answer(i, body)

-----------------------------------------------------------------------------
\* A call is told of a reply only when the server answered its own request so,
\* though the replies of requests that gave up still stand before it in the pipe.
RepliesAreOwn ==
    \A c \in Calls : got[c] \in Bodies => answer[asked[c]] = got[c]
=============================================================================
