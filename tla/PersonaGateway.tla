--------------------------- MODULE PersonaGateway ---------------------------
(***************************************************************************)
(* One persona's connection to the chat platform (cmd/persona-host). A      *)
(* worker loop owns the state of every room; each turn of the persona runs  *)
(* in a goroutine of its own that asks the substrate and reports back over  *)
(* the turnResults channel, so that the loop can meanwhile post the         *)
(* room_say beats of running turns and serve other rooms.                   *)
(*                                                                          *)
(* One promoted character, a mind of its own that may be in the cast of     *)
(* several rooms, stands for all of them. Left out: typing pulses, the eyes  *)
(* reaction and room_react, the wording of the framings, the retry of an     *)
(* empty answer (it stays inside one turn), and buffer limits.               *)
(***************************************************************************)
EXTENDS Integers, Sequences, FiniteSets

CONSTANTS
    Channel,        \* the rooms and DM threads the key grants
    Policies,       \* the respond_policy values in play
    CastRooms,      \* the rooms whose cast the character may join
    HopBudget,      \* personaHopBudget
    EarlyArchive,   \* may an archive land before a first turn has a session?
    MaxFrames,      \* bound on messages and program frames
    MaxSessions,    \* bound on substrate sessions
    MaxBeats,       \* bound on the unposted beats
    MaxConns        \* bound on connections

ASSUME PersonaGatewayAssumption ==
    /\ Policies \subseteq {"all", "mentioned", "judgment"}
    /\ Channel # {} /\ CastRooms \subseteq Channel
    /\ HopBudget \in Nat /\ EarlyArchive \in BOOLEAN
    /\ MaxFrames \in Nat /\ MaxSessions \in Nat /\ MaxConns \in Nat
    /\ MaxBeats \in Nat

Session == 1 .. MaxSessions
None == 0                               \* no session yet
\* Whom a message's text calls: a name of the persona or of a facet of it, the
\* promoted character, some other entity with an @, or nobody.
Calls == {"us", "character", "other", "nobody"}
Message == [from : {"human", "persona"}, calls : Calls]
NoMessage == [from |-> "nobody", calls |-> "nobody"]
Voices == {"persona", "character"}

VARIABLES
    \* the worker loop
    conn,       \* Run is in its select loop
    gen,        \* generation: connections so far
    policy,     \* respondPolicy
    \* channelState of each room
    session, busy, pending, hops, archiving,
    cast,       \* the promoted character is in this room's cast
    minds,      \* charSessions: sessions of the character registered here
    \* goroutines
    turns,      \* runTurn goroutines in flight
    results,    \* the turnResults channel
    \* the database
    mind,       \* characters.session_id
    last,       \* sessions the substrate created
    outbox,     \* unposted persona_outbox rows: session, and who said it in which room
    at,         \* the room each session was last asked from, and in which voice
    \* what the rooms saw, and counters
    strays,     \* beats posted to another room than the one they were said in
    chain,      \* turns triggered by what personas said since a human spoke
    renewals,   \* hop budgets renewed without a human since then
    frames      \* frames so far

roomVars == <<session, busy, pending, hops, archiving, minds>>
dbVars   == <<mind, last, outbox, at>>
vars == <<conn, gen, policy, roomVars, cast, turns, results, dbVars, strays, chain,
          renewals, frames>>

Init ==
    /\ conn = FALSE /\ gen = 0 /\ policy = "all"
    /\ session = [c \in Channel |-> None]
    /\ busy = [c \in Channel |-> FALSE]
    /\ pending = [c \in Channel |-> NoMessage]
    /\ hops = [c \in Channel |-> 0]
    /\ archiving = [c \in Channel |-> FALSE]
    /\ cast = [c \in Channel |-> FALSE]
    /\ minds = [c \in Channel |-> {}]
    /\ turns = {} /\ results = <<>>
    /\ mind = None /\ last = 0 /\ outbox = {}
    /\ at = [s \in Session |-> [room |-> CHOOSE c \in Channel : TRUE, voice |-> "persona"]]
    /\ strays = {}
    /\ chain = [c \in Channel |-> 0] /\ renewals = [c \in Channel |-> 0]
    /\ frames = 0

----------------------------------------------------------------------------
(* Starting a turn *)

Addressed(c, m) == m.calls = "us" \/ (m.calls = "character" /\ cast[c])
CallsAnother(c, m) == m.calls = "other" \/ (m.calls = "character" /\ ~cast[c])

\* respond_policy: the messages that cost no turn.
Skips(c, m) ==
    \/ policy = "mentioned" /\ ~Addressed(c, m)
    \/ policy = "judgment" /\ ~Addressed(c, m) /\ CallsAnother(c, m)

\* The goroutine of a turn of voice v on session s (None: it will spawn one).
NewId == CHOOSE i \in 1 .. Cardinality(turns) + 1 : \A t \in turns : t.id # i
Turn(c, v, s) == [id |-> NewId, gen |-> gen, channel |-> c, voice |-> v, session |-> s,
                  spawns |-> s = None]

\* A message to the promoted character runs on the character's own session;
\* every other one, and that one too when the character's record cannot be
\* read, on the room's session s.
Routes(c, m, s) ==
    {Turn(c, "persona", s)} \cup
    (IF m.calls = "character" /\ cast[c] THEN {Turn(c, "character", mind)} ELSE {})

Asked(t) == [room |-> t.channel, voice |-> t.voice]
Go(t) ==
    /\ turns' = turns \cup {t}
    /\ at' = IF t.session = None THEN at ELSE [at EXCEPT ![t.session] = Asked(t)]

\* chain counts from here: -1 when a persona's message said before waits for the
\* turn in flight, whose follow-up is then not counted.
Restart(c) == IF pending[c].from = "persona" THEN -1 ELSE 0
Counted(n) == IF n < 0 THEN 0 ELSE n

\* renewals counts the resets of a budget of which something was spent.
Renewed(c) == renewals[c] + (IF hops[c] > 0 THEN 1 ELSE 0)

\* maybeStartTurn for a message that just arrived; spent and base are hops and
\* chain once it has been noted.
Hear(c, m, spent, base) ==
    /\ hops' = [hops EXCEPT ![c] = spent]
    /\ CASE Skips(c, m) ->
              /\ chain' = [chain EXCEPT ![c] = base]
              /\ UNCHANGED <<busy, pending, turns, at>>
         [] ~Skips(c, m) /\ busy[c] ->
              /\ pending' = [pending EXCEPT ![c] = m]
              /\ chain' = [chain EXCEPT ![c] = Counted(base)]
              /\ UNCHANGED <<busy, turns, at>>
         [] ~Skips(c, m) /\ ~busy[c] ->
              /\ busy' = [busy EXCEPT ![c] = TRUE]
              /\ chain' = [chain EXCEPT ![c] = base + (IF m.from = "persona" THEN 1 ELSE 0)]
              /\ \E t \in Routes(c, m, session[c]) : Go(t)
              /\ UNCHANGED pending

Frame ==
    /\ conn
    /\ frames < MaxFrames
    /\ frames' = frames + 1

\* A human speaks, which resets the hop budget; a blank message does no more.
HumanSpeaks ==
    /\ Frame
    /\ \E c \in Channel :
         /\ renewals' = [renewals EXCEPT ![c] = 0]
         /\ \/ \E k \in Calls : Hear(c, [from |-> "human", calls |-> k], 0, Restart(c))
            \/ /\ hops' = [hops EXCEPT ![c] = 0]
               /\ chain' = [chain EXCEPT ![c] = Restart(c)]
               /\ UNCHANGED <<busy, pending, turns, at>>
    /\ UNCHANGED <<conn, gen, policy, session, archiving, cast, minds, results, mind, last,
                   outbox, strays>>

\* Seeded bug: the hop budget is off by one.
HopLeftPlusOne(c) == hops[c] <= HopBudget
HopLeft(c) == hops[c] < HopBudget

\* Another persona's message counts only when it names us, and spends a hop.
PersonaSpeaks ==
    /\ Frame
    /\ \E c \in Channel, k \in Calls :
         LET m == [from |-> "persona", calls |-> k] IN
         /\ Addressed(c, m) /\ HopLeft(c)
         /\ Hear(c, m, hops[c] + 1, chain[c])
    /\ UNCHANGED <<conn, gen, policy, session, archiving, cast, minds, results, mind, last,
                   outbox, strays, renewals>>

\* A cast frame, and the policy that rides the rooms poll.
CastChanges ==
    /\ conn
    /\ \E c \in CastRooms : cast' = [cast EXCEPT ![c] = ~@]
    /\ UNCHANGED <<conn, gen, policy, roomVars, turns, results, dbVars, strays, chain,
                   renewals, frames>>

RefreshRooms ==
    /\ conn
    /\ \E p \in Policies \ {policy} : policy' = p
    /\ UNCHANGED <<conn, gen, roomVars, cast, turns, results, dbVars, strays, chain,
                   renewals, frames>>

----------------------------------------------------------------------------
(* Archive and resume *)

\* rotateChannel: the room's next turn starts a fresh session, and its personas
\* get a fresh hop budget although no human spoke.
Rotate(c) ==
    /\ session' = [session EXCEPT ![c] = None]
    /\ pending' = [pending EXCEPT ![c] = NoMessage]
    /\ hops' = [hops EXCEPT ![c] = 0]
    /\ archiving' = [archiving EXCEPT ![c] = FALSE]
    /\ busy' = [busy EXCEPT ![c] = FALSE]
    /\ chain' = [chain EXCEPT ![c] = Counted(@)]
    /\ renewals' = [renewals EXCEPT ![c] = Renewed(c)]
    /\ UNCHANGED <<turns, at>>

\* handleProgram "archive": rotate a room without a session; let a turn in
\* flight finish first; otherwise run a closing turn that writes the log.
Archive ==
    /\ Frame
    /\ \E c \in Channel :
         \/ /\ session[c] = None
            /\ EarlyArchive \/ ~busy[c]
            /\ Rotate(c)
         \/ /\ session[c] # None
            /\ archiving' = [archiving EXCEPT ![c] = TRUE]
            /\ busy' = [busy EXCEPT ![c] = TRUE]
            /\ IF busy[c] THEN UNCHANGED <<turns, at>>
                          ELSE Go(Turn(c, "persona", session[c]))
            /\ UNCHANGED <<session, pending, hops, chain, renewals>>
    /\ UNCHANGED <<conn, gen, policy, cast, minds, results, mind, last, outbox, strays>>

ResumeProgram ==
    /\ Frame
    /\ \E c \in Channel :
         /\ hops' = [hops EXCEPT ![c] = 0]
         /\ chain' = [chain EXCEPT ![c] = Restart(c)]
         /\ renewals' = [renewals EXCEPT ![c] = 0]
    /\ UNCHANGED <<conn, gen, policy, session, busy, pending, archiving, minds, cast, turns,
                   results, dbVars, strays>>

----------------------------------------------------------------------------
(* The turn goroutines and the substrate behind them *)

Report(kind, t, s, text) ==
    results' = Append(results, [kind |-> kind, gen |-> t.gen, channel |-> t.channel,
                                voice |-> t.voice, session |-> s, text |-> text])

\* SpawnTurn sees its session appear and reports it early.
SessionAppears ==
    /\ last < MaxSessions
    /\ \E t \in turns :
         /\ t.session = None
         /\ last' = last + 1
         /\ turns' = (turns \ {t}) \cup {[t EXCEPT !.session = last']}
         /\ at' = [at EXCEPT ![last'] = Asked(t)]
         /\ Report("session", t, last', FALSE)
    /\ UNCHANGED <<conn, gen, policy, roomVars, cast, mind, outbox, strays, chain, renewals,
                   frames>>

\* A turn ends with a text, with silence, or with an error (its deadline at
\* the latest). A spawn that fails returns no session; a re-ask keeps its own.
TurnEnds ==
    /\ \E t \in turns :
         /\ turns' = turns \ {t}
         /\ \/ t.session # None /\ \E text \in BOOLEAN : Report("done", t, t.session, text)
            \/ t.spawns /\ Report("done", t, None, FALSE)
    /\ UNCHANGED <<conn, gen, policy, roomVars, cast, dbVars, strays, chain, renewals, frames>>

\* The model calls room_say in a session.
Beat(s) == [session |-> s, room |-> at[s].room, voice |-> at[s].voice]
RoomSay ==
    /\ Cardinality(outbox) < MaxBeats
    /\ \E s \in 1 .. last : outbox' = outbox \cup {Beat(s)}
    /\ UNCHANGED <<conn, gen, policy, roomVars, cast, turns, results, mind, last, at, strays,
                   chain, renewals, frames>>

----------------------------------------------------------------------------
(* The worker loop takes a result *)

\* Seeded bug: no generation check.
StaleNever(tr) == FALSE
Stale(tr) == tr.gen # gen

\* The rooms that hold session sid, when S are the rooms' own sessions and M the
\* sessions of the character registered in them.
\* Seeded bug: the character's sessions are not drained.
HoldersOwn(S, M, sid) == {c \in Channel : S[c] = sid}
Holders(S, M, sid) == {c \in Channel : S[c] = sid \/ sid \in M[c]}

\* drainOutbox: sessToChan keeps one room of each session, whichever the map
\* iteration set last.
DrainOutbox(S, M) ==
    LET claimed == {b \in outbox : Holders(S, M, b.session) # {}} IN
    /\ outbox' = outbox \ claimed
    /\ \E sessToChan \in [{b.session : b \in claimed} -> Channel] :
         /\ \A sid \in DOMAIN sessToChan : sessToChan[sid] \in Holders(S, M, sid)
         /\ strays' = strays \cup {b \in claimed : sessToChan[b.session] # b.room}

Drain ==
    /\ conn
    /\ DrainOutbox(session, minds)
    /\ UNCHANGED <<conn, gen, policy, roomVars, cast, turns, results, mind, last, at, chain,
                   renewals, frames>>

NextResult == IF conn /\ results # <<>> THEN {Head(results)} ELSE {}
Take(tr) ==
    /\ results' = Tail(results)
    /\ UNCHANGED <<conn, gen, policy, cast, last, frames>>

Discard ==
    /\ \E tr \in NextResult : Take(tr) /\ Stale(tr)
    /\ UNCHANGED <<roomVars, turns, mind, outbox, at, strays, chain, renewals>>

Registers(tr) == tr.voice = "character" /\ tr.session # None
Registered(tr) ==
    IF Registers(tr) THEN [minds EXCEPT ![tr.channel] = @ \cup {tr.session}] ELSE minds

\* kindSession. Saving the character's session keeps the first one saved, and
\* may fail.
SessionKnown ==
    /\ \E tr \in NextResult :
         /\ Take(tr) /\ ~Stale(tr) /\ tr.kind = "session"
         /\ minds' = Registered(tr)
         /\ mind' \in {mind, IF Registers(tr) /\ mind = None THEN tr.session ELSE mind}
         /\ session' = IF tr.voice = "persona" /\ session[tr.channel] = None
                       THEN [session EXCEPT ![tr.channel] = tr.session] ELSE session
    /\ UNCHANGED <<busy, pending, hops, archiving, turns, outbox, at, strays, chain, renewals>>

\* The room's session once a turn of it is over.
\* Seeded bug: a turn that failed takes the session away.
OwnSessionOrNone(tr) ==
    IF tr.voice = "persona" THEN tr.session ELSE session[tr.channel]
\* Seeded bug: a turn of the character takes the room's session over.
OwnSessionAnyVoice(tr) == IF tr.session # None THEN tr.session ELSE session[tr.channel]
OwnSession(tr) ==
    IF tr.voice = "persona" /\ tr.session # None THEN tr.session ELSE session[tr.channel]

\* The room is free, and the message that waited gets a turn on session s unless
\* the policy skips it by now.
FollowUp(c, s) ==
    LET m == pending[c]
        answered == m # NoMessage /\ ~Skips(c, m) IN
    /\ pending' = [pending EXCEPT ![c] = NoMessage]
    /\ busy' = [busy EXCEPT ![c] = answered]
    /\ \/ /\ answered
          /\ chain' = [chain EXCEPT ![c] = @ + (IF m.from = "persona" THEN 1 ELSE 0)]
          /\ \E t \in Routes(c, m, s) : Go(t)
       \/ /\ ~answered
          /\ chain' = [chain EXCEPT ![c] = Counted(@)]
          /\ UNCHANGED <<turns, at>>

\* kindDone: note the session, post the beats and then the answer if there is
\* one, and free the room: an archive rotates it, else the message that waited
\* gets its turn.
TurnDone ==
    /\ \E tr \in NextResult :
         LET c == tr.channel
             now == [session EXCEPT ![c] = OwnSession(tr)] IN
         /\ Take(tr) /\ ~Stale(tr) /\ tr.kind = "done"
         /\ minds' = Registered(tr)
         /\ IF tr.text THEN DrainOutbox(now, minds') ELSE UNCHANGED <<outbox, strays>>
         /\ \/ archiving[c] /\ Rotate(c)
            \/ /\ ~archiving[c]
               /\ session' = now
               /\ FollowUp(c, now[c])
               /\ UNCHANGED <<hops, archiving, renewals>>
    /\ UNCHANGED mind

----------------------------------------------------------------------------
(* The connection *)

\* Seeded bug: a reconnect keeps the rooms' turns, whose results are stale.
ForgetSessions ==
    /\ session' = [c \in Channel |-> None]
    /\ minds' = [c \in Channel |-> {}]
    /\ cast' = [c \in Channel |-> FALSE]
    /\ UNCHANGED <<busy, pending, hops, archiving, chain, renewals>>

\* The rooms' state is gone, and with it what they had spent of their budgets.
ForgetRooms ==
    /\ session' = [c \in Channel |-> None]
    /\ busy' = [c \in Channel |-> FALSE]
    /\ pending' = [c \in Channel |-> NoMessage]
    /\ hops' = [c \in Channel |-> 0]
    /\ archiving' = [c \in Channel |-> FALSE]
    /\ minds' = [c \in Channel |-> {}]
    /\ cast' = [c \in Channel |-> FALSE]
    /\ chain' = [c \in Channel |-> Counted(chain[c])]
    /\ renewals' = [c \in Channel |-> Renewed(c)]

Connect ==
    /\ ~conn /\ gen < MaxConns
    /\ conn' = TRUE
    /\ gen' = gen + 1
    /\ UNCHANGED <<policy, roomVars, cast, turns, results, dbVars, strays, chain, renewals, frames>>

\* The socket closes: Run returns and superviseGateway empties the channels
\* map. The turns go on.
Disconnect ==
    /\ conn
    /\ conn' = FALSE
    /\ ForgetRooms
    /\ UNCHANGED <<gen, policy, turns, results, dbVars, strays, frames>>

\* The host process dies, and its turns with it.
HostRestart ==
    /\ gen > 0
    /\ conn' = FALSE /\ gen' = 0 /\ policy' = "all"
    /\ ForgetRooms
    /\ turns' = {} /\ results' = <<>>
    /\ UNCHANGED <<dbVars, strays, frames>>

----------------------------------------------------------------------------

Next ==
    \/ HumanSpeaks \/ PersonaSpeaks \/ CastChanges \/ RefreshRooms
    \/ Archive \/ ResumeProgram
    \/ SessionAppears \/ TurnEnds \/ RoomSay
    \/ Drain \/ Discard \/ SessionKnown \/ TurnDone
    \/ Connect \/ Disconnect \/ HostRestart

Spec == Init /\ [][Next]_vars

\* A turn ends by its deadline; the loop takes the results and the drain tick
\* comes. Nothing makes a message arrive, a connection open or a model speak.
FairSpec ==
    /\ Spec
    /\ WF_vars(TurnEnds)
    /\ WF_vars(Discard) /\ WF_vars(SessionKnown) /\ WF_vars(TurnDone)
    /\ WF_vars(Drain)

----------------------------------------------------------------------------
(* Properties *)

Result == [kind : {"session", "done"}, gen : 0 .. MaxConns, channel : Channel,
           voice : Voices, session : Session \cup {None}, text : BOOLEAN]
BeatType == [session : Session, room : Channel, voice : Voices]

\* Every variable has its type (the fields of channelState and turnResult).
TypeOK ==
    /\ conn \in BOOLEAN /\ gen \in 0 .. MaxConns /\ policy \in Policies \cup {"all"}
    /\ session \in [Channel -> Session \cup {None}]
    /\ busy \in [Channel -> BOOLEAN]
    /\ pending \in [Channel -> Message \cup {NoMessage}]
    /\ hops \in [Channel -> 0 .. HopBudget]
    /\ archiving \in [Channel -> BOOLEAN]
    /\ cast \in [Channel -> BOOLEAN]
    /\ minds \in [Channel -> SUBSET Session]
    /\ \A t \in turns : t.gen \in 0 .. MaxConns /\ t.channel \in Channel /\ t.voice \in Voices
    /\ results \in Seq(Result)
    /\ mind \in Session \cup {None} /\ last \in 0 .. MaxSessions
    /\ outbox \subseteq BeatType /\ strays \subseteq BeatType
    /\ at \in [Session -> [room : Channel, voice : Voices]]
    /\ chain \in [Channel -> Nat \cup {-1}] /\ renewals \in [Channel -> Nat]
    /\ frames \in 0 .. MaxFrames

\* `busy` = a turn is in flight for this channel (one at a time, so a persona
\* doesn't talk over itself): a room is busy exactly while one turn of this
\* connection runs for it or one answer of it waits in the results channel,
\* through archives, reconnects and coalesced follow-ups.
OneTurn ==
    conn =>
      \A c \in Channel :
        Cardinality({t \in turns : t.gen = gen /\ t.channel = c})
        + Cardinality({i \in DOMAIN results : /\ results[i].kind = "done"
                                              /\ results[i].gen = gen
                                              /\ results[i].channel = c})
        = (IF busy[c] THEN 1 ELSE 0)

\* The ping-pong guard: what other personas say triggers at most
\* personaHopBudget turns since the last human message (or resume), however
\* their messages wait for a turn in flight, replace each other or follow a
\* reset, plus as many for each archive, reconnect and restart of the host since
\* then: these zero the count too, although no human spoke.
HopChain == \A c \in Channel : chain[c] <= HopBudget * (1 + renewals[c])

\* A room's session stays the room's for as long as the connection and the
\* program last: only a rotation (of a room that becomes idle) or the end of the
\* connection takes it away, and nothing replaces it by another one.
SessionKept ==
    [][\A c \in Channel :
         session[c] # None /\ session'[c] # session[c] /\ conn' =>
           session'[c] = None /\ archiving[c] /\ ~busy'[c]]_vars

\* What is said in a room stays in the room, except for characters of several
\* rooms: no two rooms ever share a session, no session of a room is a session of
\* the character, and a room_say beat posted to another room than the one it was
\* said in was said by a character whom another room may cast too, never by the
\* persona. (outbox.go says of all beats that they go "to the right channel".)
RoomsApart ==
    /\ \A c, d \in Channel :
        /\ session[c] # None /\ c # d => session[c] # session[d]
        /\ session[c] \notin minds[d]
    /\ \A b \in strays : b.voice = "character" /\ \E c \in CastRooms : c # b.room

\* The beats of a turn that is still running reach the room: a beat of a session
\* that a room holds, as its own or the character's, leaves the outbox unless
\* the room lets go of the session first.
BeatsDelivered ==
    \A s \in Session, c \in Channel :
      LET Held == session[c] = s \/ s \in minds[c]
      IN (Held /\ \E b \in outbox : b.session = s) ~>
           (~Held \/ ~\E b \in outbox : b.session = s)

\* No room stays busy for ever and no message waits for ever.
Quiesces ==
    \A c \in Channel :
      /\ busy[c] ~> ~busy[c]
      /\ pending[c] # NoMessage ~> pending[c] = NoMessage
=============================================================================
