--------------------------- MODULE BridgeSessions ---------------------------
(***************************************************************************)
(* The sessions through which the bridge calls its MCP servers              *)
(* (bridge_run.go). The workers of the bridge process share one cache with  *)
(* one session per server and one mutex, which is held while a session is   *)
(* looked up, opened or closed and not during a call. A call whose transport *)
(* fails closes whatever session of its server is cached by then. (The       *)
(* synchronous proxy of the MCP server has a cache of its own in another    *)
(* process, whose end does not wait for calls in flight; it is not modelled.) *)
(***************************************************************************)
EXTENDS Naturals, Sequences

CONSTANTS
    Caller,     \* calls that may be in flight
    Server,     \* MCP servers
    MaxSessions \* bound on the sessions opened

ASSUME SessionsAssumption == MaxSessions \in Nat

VARIABLES
    request,    \* each caller: its server, the session it has, and where it is
    mutex,      \* callers that hold the cache's mutex
    cached,     \* the session cached for each server, 0 for none
    sessions,   \* sessions opened so far, numbered from 1, with their servers
    closed,     \* sessions closed
    broken,     \* sessions whose server died or stopped answering
    ending      \* the bridge is shutting down, or has shut down

sessionVars == <<request, mutex, cached, sessions, closed, broken, ending>>

Quiet == "quiet"
NoSession == 0

SessionsInit ==
    /\ request = [c \in Caller |-> [to |-> Quiet, session |-> NoSession, at |-> Quiet]]
    /\ mutex = {} /\ cached = [s \in Server |-> NoSession]
    /\ sessions = <<>> /\ closed = {} /\ broken = {} /\ ending = "no"

Goes(c, place) == request' = [request EXCEPT ![c].at = place]
Returns(c) == request' = [request EXCEPT ![c] = [to |-> Quiet, session |-> NoSession, at |-> Quiet]]

\* callMCPProxy; once the bridge ends, workers take no more rows.
NewCall(c, s) ==
    /\ request[c].at = Quiet /\ ending = "no"
    /\ request' = [request EXCEPT ![c] = [to |-> s, session |-> NoSession, at |-> "get"]]
    /\ UNCHANGED <<mutex, cached, sessions, closed, broken, ending>>

\* Seeded bug: get and invalidate do not wait for one another.
FreeAnyhow == TRUE
Free == mutex = {}

LockCache(c) ==
    /\ request[c].at \in {"get", "failed"} /\ Free
    /\ mutex' = mutex \cup {c}
    /\ Goes(c, IF request[c].at = "get" THEN "look" ELSE "drop")
    /\ UNCHANGED <<cached, sessions, closed, broken, ending>>

\* get: the cached session, if there is one; also one that broke unnoticed.
UseSession(c) ==
    /\ request[c].at = "look" /\ cached[request[c].to] # NoSession
    /\ request' = [request EXCEPT ![c].at = "call", ![c].session = cached[request[c].to]]
    /\ mutex' = mutex \ {c}
    /\ UNCHANGED <<cached, sessions, closed, broken, ending>>

\* get: otherwise the server is connected to, still under the mutex.
ConnectServer(c) ==
    /\ request[c].at = "look" /\ cached[request[c].to] = NoSession
    /\ Goes(c, "connect")
    /\ UNCHANGED <<mutex, cached, sessions, closed, broken, ending>>

Connected(c) ==
    /\ request[c].at = "connect" /\ Len(sessions) < MaxSessions
    /\ sessions' = Append(sessions, request[c].to)
    /\ cached' = [cached EXCEPT ![request[c].to] = Len(sessions')]
    /\ request' = [request EXCEPT ![c].at = "call", ![c].session = Len(sessions')]
    /\ mutex' = mutex \ {c}
    /\ UNCHANGED <<closed, broken, ending>>

\* The server is not registered, does not start, or the call's time is up.
ConnectFails(c) ==
    /\ request[c].at = "connect"
    /\ Returns(c) /\ mutex' = mutex \ {c}
    /\ UNCHANGED <<cached, sessions, closed, broken, ending>>

CallAnswered(c) ==
    /\ request[c].at = "call" /\ request[c].session \notin closed \cup broken
    /\ Returns(c)
    /\ UNCHANGED <<mutex, cached, sessions, closed, broken, ending>>

\* The session broke or was closed, or the call's time is up.
CallFails(c) ==
    /\ request[c].at = "call"
    /\ Goes(c, "failed")
    /\ UNCHANGED <<mutex, cached, sessions, closed, broken, ending>>

\* invalidate: the session cached by now is closed and forgotten.
Invalidate(c) ==
    /\ request[c].at = "drop"
    /\ LET n == cached[request[c].to]
       IN  closed' = IF n = NoSession THEN closed ELSE closed \cup {n}
    /\ cached' = [cached EXCEPT ![request[c].to] = NoSession]
    /\ Returns(c) /\ mutex' = mutex \ {c}
    /\ UNCHANGED <<sessions, broken, ending>>

ServerDies(n) ==
    /\ n \in DOMAIN sessions \ (closed \cup broken)
    /\ broken' = broken \cup {n}
    /\ UNCHANGED <<request, mutex, cached, sessions, closed, ending>>

\* The bridge is told to end; calls in flight return, and then closeAll.
EndBridge ==
    /\ ending = "no" /\ ending' = "told"
    /\ UNCHANGED <<request, mutex, cached, sessions, closed, broken>>

CloseAll ==
    /\ ending = "told" /\ \A c \in Caller : request[c].at = Quiet
    /\ closed' = closed \cup {n \in DOMAIN sessions : \E s \in Server : cached[s] = n}
    /\ cached' = [s \in Server |-> NoSession] /\ ending' = "over"
    /\ UNCHANGED <<request, mutex, sessions, broken>>

SessionsNext ==
    \/ \E c \in Caller :
        \/ (\E s \in Server : NewCall(c, s)) \/ LockCache(c) \/ UseSession(c) \/ ConnectServer(c)
        \/ Connected(c) \/ ConnectFails(c) \/ CallAnswered(c) \/ CallFails(c) \/ Invalidate(c)
    \/ (\E n \in DOMAIN sessions : ServerDies(n)) \/ EndBridge \/ CloseAll

SessionsSpec == SessionsInit /\ [][SessionsNext]_sessionVars

----------------------------------------------------------------------------
(* Properties *)

\* Every variable has its type.
SessionsTypeOK ==
    /\ request \in [Caller -> [to : Server \cup {Quiet}, session : 0 .. MaxSessions,
                               at : {Quiet, "get", "look", "connect", "call", "failed", "drop"}]]
    /\ mutex \subseteq Caller
    /\ cached \in [Server -> 0 .. MaxSessions]
    /\ sessions \in Seq(Server) /\ Len(sessions) <= MaxSessions
    /\ closed \cup broken \subseteq DOMAIN sessions
    /\ ending \in {"no", "told", "over"}

\* A session that is open is the one cached for its server: no server process
\* is left running that nobody will close, whichever calls open, fail and
\* invalidate at once, and none is left when the bridge is down.
OpenIsCached == \A n \in DOMAIN sessions \ closed : cached[sessions[n]] = n
=============================================================================
