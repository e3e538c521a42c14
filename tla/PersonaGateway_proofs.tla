----------------------- MODULE PersonaGateway_proofs -----------------------
(***************************************************************************)
(* Proofs about PersonaGateway, for every set of rooms, hop budget and       *)
(* number of messages, sessions, beats and connections.                     *)
(***************************************************************************)
EXTENDS PersonaGateway, FiniteSetTheorems, TLAPS

----------------------------------------------------------------------------
(* Types *)

\* A goroutine is a record of these fields.
TurnRecord(t) ==
    t = [id |-> t.id, gen |-> t.gen, channel |-> t.channel, voice |-> t.voice,
         session |-> t.session, spawns |-> t.spawns]

TurnTyped(t) ==
    /\ TurnRecord(t) /\ t.session \in Session \cup {None}
    /\ t.gen \in 0 .. MaxConns /\ t.channel \in Channel /\ t.voice \in Voices

Typed == TypeOK /\ \A t \in turns : TurnTyped(t)

\* What a room that hears or answers a message leaves of its own state.
RoomTyped ==
    /\ busy \in [Channel -> BOOLEAN]
    /\ pending \in [Channel -> Message \cup {NoMessage}]
    /\ hops \in [Channel -> 0 .. HopBudget]
    /\ chain \in [Channel -> Nat \cup {-1}]
    /\ at \in [Session -> [room : Channel, voice : Voices]]
    /\ \A t \in turns : TurnTyped(t)

\* The new goroutine of room c: on the room's session s or on the mind.
LEMMA NewTurns ==
    ASSUME NEW c, NEW v, NEW s
    PROVE  /\ TurnRecord(Turn(c, v, s))
           /\ Turn(c, v, s).gen = gen /\ Turn(c, v, s).channel = c
           /\ Turn(c, v, s).voice = v /\ Turn(c, v, s).session = s
BY DEF Turn, TurnRecord

LEMMA Routed ==
    ASSUME Typed, NEW c \in Channel, NEW m, NEW s \in Session \cup {None}, NEW t \in Routes(c, m, s)
    PROVE  /\ TurnTyped(t) /\ t.gen = gen /\ t.channel = c
           /\ \/ t.voice = "persona" /\ t.session = s
              \/ t.voice = "character" /\ t.session = mind /\ cast[c]
<1>1. t = Turn(c, "persona", s) \/ (t = Turn(c, "character", mind) /\ cast[c])
  BY DEF Routes
<1> QED  BY <1>1, NewTurns DEF TurnTyped, Typed, TypeOK, Voices

LEMMA Going ==
    ASSUME Typed, NEW t, TurnTyped(t), Go(t)
    PROVE  /\ \A u \in turns' : TurnTyped(u)
           /\ at' \in [Session -> [room : Channel, voice : Voices]]
<1>1. \A u \in turns' : TurnTyped(u)
  BY DEF Go, Typed
<1>2. at' \in [Session -> [room : Channel, voice : Voices]]
  BY DEF Go, Asked, Typed, TypeOK, TurnTyped
<1> QED  BY <1>1, <1>2

LEMMA HearTyped ==
    ASSUME Typed, NEW c \in Channel, NEW m \in Message, NEW spent \in 0 .. HopBudget,
           NEW base \in Nat \cup {-1}, Hear(c, m, spent, base)
    PROVE  RoomTyped'
<1>1. /\ busy \in [Channel -> BOOLEAN]
      /\ pending \in [Channel -> Message \cup {NoMessage}]
      /\ hops \in [Channel -> 0 .. HopBudget]
      /\ chain \in [Channel -> Nat \cup {-1}]
      /\ session[c] \in Session \cup {None}
  BY DEF Typed, TypeOK
<1>2. hops' \in [Channel -> 0 .. HopBudget]
  BY <1>1 DEF Hear
<1>3. Counted(base) \in Nat \cup {-1} /\ base + 1 \in Nat \cup {-1} /\ base + 0 \in Nat \cup {-1}
  BY DEF Counted
<1>4. CASE Skips(c, m)
  <2>1. chain' = [chain EXCEPT ![c] = base] /\ UNCHANGED <<busy, pending, turns, at>>
    BY <1>4 DEF Hear
  <2> QED  BY <1>1, <1>2, <2>1 DEF RoomTyped, Typed, TypeOK
<1>5. CASE ~Skips(c, m) /\ busy[c]
  <2>1. /\ chain' = [chain EXCEPT ![c] = Counted(base)]
        /\ pending' = [pending EXCEPT ![c] = m] /\ UNCHANGED <<busy, turns, at>>
    BY <1>5 DEF Hear
  <2> QED  BY <1>1, <1>2, <1>3, <2>1 DEF RoomTyped, Typed, TypeOK
<1>6. CASE ~Skips(c, m) /\ ~busy[c]
  <2>1. /\ chain' = [chain EXCEPT ![c] = base + (IF m.from = "persona" THEN 1 ELSE 0)]
        /\ busy' = [busy EXCEPT ![c] = TRUE] /\ UNCHANGED pending
        /\ \E t \in Routes(c, m, session[c]) : Go(t)
    BY <1>6 DEF Hear
  <2>2. chain' \in [Channel -> Nat \cup {-1}]
    BY <1>1, <1>3, <2>1
  <2>3. (\A u \in turns' : TurnTyped(u)) /\ at' \in [Session -> [room : Channel, voice : Voices]]
    BY <1>1, <2>1, Routed, Going
  <2> QED  BY <1>1, <1>2, <2>1, <2>2, <2>3 DEF RoomTyped
<1> QED  BY <1>4, <1>5, <1>6

LEMMA RotateTyped == ASSUME Typed, NEW c \in Channel, Rotate(c)
    PROVE  /\ RoomTyped' /\ session' \in [Channel -> Session \cup {None}]
           /\ archiving' \in [Channel -> BOOLEAN] /\ renewals' \in [Channel -> Nat]
<1>1. 0 \in 0 .. HopBudget
  BY PersonaGatewayAssumption
<1>2. Renewed(c) \in Nat /\ Counted(chain[c]) \in Nat \cup {-1}
  BY DEF Renewed, Counted, Typed, TypeOK
<1> QED  BY <1>1, <1>2 DEF Rotate, RoomTyped, Typed, TypeOK

LEMMA ForgetTyped == ASSUME Typed, ForgetRooms, UNCHANGED at, UNCHANGED turns \/ turns' = {}
    PROVE  /\ RoomTyped' /\ session' \in [Channel -> Session \cup {None}] /\ archiving' \in [Channel -> BOOLEAN]
           /\ cast' \in [Channel -> BOOLEAN] /\ minds' \in [Channel -> SUBSET Session]
           /\ renewals' \in [Channel -> Nat]
<1>1. 0 \in 0 .. HopBudget
  BY PersonaGatewayAssumption
<1>2. \A c \in Channel : Renewed(c) \in Nat /\ Counted(chain[c]) \in Nat \cup {-1}
  BY DEF Renewed, Counted, Typed, TypeOK
<1> QED  BY <1>1, <1>2 DEF ForgetRooms, RoomTyped, Typed, TypeOK

\* The beats that a drain leaves or posts astray are beats.
LEMMA DrainTyped == ASSUME Typed, NEW S, NEW M, DrainOutbox(S, M)
    PROVE  outbox' \subseteq outbox /\ strays' \subseteq BeatType
BY DEF DrainOutbox, Typed, TypeOK

LEMMA FrameTyped == ASSUME Typed, Frame PROVE frames' \in 0 .. MaxFrames /\ conn
BY PersonaGatewayAssumption DEF Frame, Typed, TypeOK

\* The room part and the rest together.
LEMMA Together ==
    ASSUME Typed, RoomTyped',
           conn' \in BOOLEAN, gen' \in 0 .. MaxConns, policy' \in Policies \cup {"all"},
           session' \in [Channel -> Session \cup {None}], archiving' \in [Channel -> BOOLEAN],
           cast' \in [Channel -> BOOLEAN], minds' \in [Channel -> SUBSET Session],
           results' \in Seq(Result), mind' \in Session \cup {None}, last' \in 0 .. MaxSessions,
           outbox' \subseteq BeatType,
           strays' \subseteq BeatType, renewals' \in [Channel -> Nat],
           frames' \in 0 .. MaxFrames
    PROVE  Typed'
BY DEF Typed, TypeOK, RoomTyped, TurnTyped

LEMMA TalkTyped == ASSUME Typed, HumanSpeaks \/ PersonaSpeaks PROVE Typed'
<1>0. frames' \in 0 .. MaxFrames /\ conn /\ 0 \in 0 .. HopBudget
  BY FrameTyped, PersonaGatewayAssumption DEF HumanSpeaks, PersonaSpeaks
<1>1. RoomTyped'
  <2>1. CASE HumanSpeaks
    <3>1. PICK c \in Channel :
            /\ renewals' = [renewals EXCEPT ![c] = 0]
            /\ \/ \E k \in Calls : Hear(c, [from |-> "human", calls |-> k], 0, Restart(c))
               \/ /\ hops' = [hops EXCEPT ![c] = 0]
                  /\ chain' = [chain EXCEPT ![c] = Restart(c)]
                  /\ UNCHANGED <<busy, pending, turns, at>>
      BY <2>1 DEF HumanSpeaks
    <3>2. Restart(c) \in Nat \cup {-1}
      BY DEF Restart
    <3>3. CASE \E k \in Calls : Hear(c, [from |-> "human", calls |-> k], 0, Restart(c))
      <4>1. \A k \in Calls : [from |-> "human", calls |-> k] \in Message
        BY DEF Message
      <4> QED  BY <1>0, <3>2, <3>3, <4>1, HearTyped
    <3>4. CASE /\ hops' = [hops EXCEPT ![c] = 0]
               /\ chain' = [chain EXCEPT ![c] = Restart(c)]
               /\ UNCHANGED <<busy, pending, turns, at>>
      BY <1>0, <3>2, <3>4 DEF RoomTyped, Typed, TypeOK
    <3> QED  BY <3>1, <3>3, <3>4
  <2>2. CASE PersonaSpeaks
    <3>1. PICK c \in Channel, k \in Calls :
            /\ hops[c] < HopBudget
            /\ Hear(c, [from |-> "persona", calls |-> k], hops[c] + 1, chain[c])
      BY <2>2 DEF PersonaSpeaks, HopLeft
    <3>2. /\ hops[c] + 1 \in 0 .. HopBudget /\ chain[c] \in Nat \cup {-1}
          /\ [from |-> "persona", calls |-> k] \in Message
      BY <3>1, PersonaGatewayAssumption DEF Typed, TypeOK, Message
    <3> QED  BY <3>1, <3>2, HearTyped
  <2> QED  BY <2>1, <2>2
<1>2. renewals' \in [Channel -> Nat]
  BY DEF HumanSpeaks, PersonaSpeaks, Typed, TypeOK
<1> QED
  BY <1>0, <1>1, <1>2, Together DEF HumanSpeaks, PersonaSpeaks, Typed, TypeOK

LEMMA ArchiveTyped == ASSUME Typed, Archive \/ ResumeProgram PROVE Typed'
<1>0. frames' \in 0 .. MaxFrames /\ conn /\ 0 \in 0 .. HopBudget
  BY FrameTyped, PersonaGatewayAssumption DEF Archive, ResumeProgram
<1>1. CASE Archive
  <2>1. PICK c \in Channel :
         \/ Rotate(c)
         \/ /\ archiving' = [archiving EXCEPT ![c] = TRUE]
            /\ busy' = [busy EXCEPT ![c] = TRUE]
            /\ IF busy[c] THEN UNCHANGED <<turns, at>>
                          ELSE Go(Turn(c, "persona", session[c]))
            /\ UNCHANGED <<session, pending, hops, chain, renewals>>
    BY <1>1 DEF Archive
  <2>2. /\ RoomTyped' /\ session' \in [Channel -> Session \cup {None}]
        /\ archiving' \in [Channel -> BOOLEAN] /\ renewals' \in [Channel -> Nat]
    <3>1. CASE Rotate(c)
      BY <3>1, RotateTyped
    <3>2. CASE ~Rotate(c)
      <4>1. TurnTyped(Turn(c, "persona", session[c]))
        BY NewTurns DEF TurnTyped, Typed, TypeOK, Voices
      <4>2. UNCHANGED <<turns, at>> \/ Go(Turn(c, "persona", session[c]))
        BY <2>1, <3>2
      <4>3. (\A u \in turns' : TurnTyped(u)) /\ at' \in [Session -> [room : Channel, voice : Voices]]
        BY <4>1, <4>2, Going DEF Typed, TypeOK
      <4>4. /\ archiving' = [archiving EXCEPT ![c] = TRUE] /\ busy' = [busy EXCEPT ![c] = TRUE]
            /\ UNCHANGED <<session, pending, hops, chain, renewals>>
        BY <2>1, <3>2
      <4>5. archiving' \in [Channel -> BOOLEAN] /\ busy' \in [Channel -> BOOLEAN]
        BY <4>4 DEF Typed, TypeOK
      <4> QED  BY <4>3, <4>4, <4>5 DEF RoomTyped, Typed, TypeOK
    <3> QED  BY <3>1, <3>2
  <2> QED  BY <1>0, <1>1, <2>2, Together DEF Archive, Typed, TypeOK
<1>2. CASE ResumeProgram
  <2>1. PICK c \in Channel : /\ hops' = [hops EXCEPT ![c] = 0]
                             /\ chain' = [chain EXCEPT ![c] = Restart(c)]
                             /\ renewals' = [renewals EXCEPT ![c] = 0]
    BY <1>2 DEF ResumeProgram
  <2>2. Restart(c) \in Nat \cup {-1}
    BY DEF Restart
  <2>3. RoomTyped'
    BY <1>0, <1>2, <2>1, <2>2 DEF ResumeProgram, dbVars, RoomTyped, Typed, TypeOK
  <2>4. renewals' \in [Channel -> Nat]
    BY <2>1 DEF Typed, TypeOK
  <2> QED  BY <1>0, <1>2, <2>3, <2>4, Together DEF ResumeProgram, dbVars, Typed, TypeOK
<1> QED  BY <1>1, <1>2

LEMMA QuietTyped ==
    ASSUME Typed, CastChanges \/ RefreshRooms \/ RoomSay \/ Drain \/ Connect
    PROVE  Typed'
<1>1. RoomTyped'
  BY DEF CastChanges, RefreshRooms, RoomSay, Drain, Connect, roomVars, dbVars, RoomTyped, Typed, TypeOK
<1>2. CASE CastChanges \/ RefreshRooms
  BY <1>1, <1>2, Together DEF CastChanges, RefreshRooms, roomVars, dbVars, Typed, TypeOK
<1>3. CASE RoomSay
  <2>1. PICK s \in 1 .. last : outbox' = outbox \cup {Beat(s)}
    BY <1>3 DEF RoomSay
  <2>2. s \in Session
    BY <2>1, PersonaGatewayAssumption DEF Typed, TypeOK, Session
  <2>3. outbox' \subseteq BeatType
    BY <2>1, <2>2 DEF Beat, BeatType, Typed, TypeOK
  <2> QED  BY <1>1, <1>3, <2>3, Together DEF RoomSay, roomVars, Typed, TypeOK
<1>4. CASE Drain
  BY <1>1, <1>4, DrainTyped, Together DEF Drain, roomVars, Typed, TypeOK
<1>5. CASE Connect
  BY <1>1, <1>5, PersonaGatewayAssumption, Together DEF Connect, roomVars, dbVars, Typed, TypeOK
<1> QED  BY <1>2, <1>3, <1>4, <1>5

\* A result joins the end of the queue, and the first one leaves it.
LEMMA Reported ==
    ASSUME Typed, NEW kind \in {"session", "done"}, NEW t, TurnTyped(t),
           NEW s \in Session \cup {None}, NEW text \in BOOLEAN, Report(kind, t, s, text)
    PROVE  /\ results' \in Seq(Result) /\ Len(results) \in Nat
           /\ DOMAIN results = 1 .. Len(results) /\ DOMAIN results' = 1 .. Len(results) + 1
           /\ results'[Len(results) + 1].kind = kind /\ results'[Len(results) + 1].gen = t.gen
           /\ results'[Len(results) + 1].channel = t.channel
           /\ results'[Len(results) + 1].voice = t.voice /\ results'[Len(results) + 1].session = s
           /\ \A i \in 1 .. Len(results) : results'[i] = results[i]
<1> DEFINE r == [kind |-> kind, gen |-> t.gen, channel |-> t.channel, voice |-> t.voice,
                 session |-> s, text |-> text]
<1>1. r \in Result /\ results \in Seq(Result) /\ results' = Append(results, r)
  BY DEF Result, TurnTyped, Report, Typed, TypeOK
<1> HIDE DEF r
<1>2. /\ results' \in Seq(Result) /\ Len(results) \in Nat
      /\ DOMAIN results = 1 .. Len(results) /\ DOMAIN results' = 1 .. Len(results) + 1
      /\ results'[Len(results) + 1] = r
      /\ \A i \in 1 .. Len(results) : results'[i] = results[i]
  BY <1>1
<1> QED  BY <1>2 DEF r

LEMMA Taken ==
    ASSUME Typed, NEW tr \in NextResult, Take(tr)
    PROVE  /\ conn /\ tr \in Result /\ tr = results[1] /\ 1 \in DOMAIN results
           /\ results' \in Seq(Result)
           /\ \A i \in DOMAIN results' : i + 1 \in DOMAIN results /\ results'[i] = results[i + 1]
           /\ \A i \in DOMAIN results : i # 1 => i - 1 \in DOMAIN results' /\ i \in Nat
<1>1. conn /\ results # <<>> /\ tr = Head(results) /\ results' = Tail(results) /\ results \in Seq(Result)
  BY DEF NextResult, Take, Typed, TypeOK
<1> QED  BY <1>1

LEMMA ReportsTyped == ASSUME Typed, SessionAppears \/ TurnEnds PROVE Typed'
<1>1. CASE SessionAppears
  <2>1. PICK t \in turns :
          /\ turns' = (turns \ {t}) \cup {[t EXCEPT !.session = last']}
          /\ at' = [at EXCEPT ![last'] = Asked(t)]
          /\ Report("session", t, last', FALSE)
    BY <1>1 DEF SessionAppears
  <2>2. last' \in Session /\ last' \in 0 .. MaxSessions /\ TurnTyped(t)
    BY <1>1, PersonaGatewayAssumption DEF SessionAppears, Typed, TypeOK, Session
  <2> DEFINE u == [t EXCEPT !.session = last']
  <2>3. TurnTyped(u)
    BY <2>2 DEF TurnTyped, TurnRecord
  <2> HIDE DEF u
  <2>4. (\A v \in turns' : TurnTyped(v)) /\ at' \in [Session -> [room : Channel, voice : Voices]]
    BY <2>1, <2>2, <2>3 DEF Typed, TypeOK, u, TurnTyped, Asked
  <2>5. results' \in Seq(Result)
    BY <2>1, <2>2, Reported
  <2>6. RoomTyped'
    BY <1>1, <2>4 DEF SessionAppears, roomVars, RoomTyped, Typed, TypeOK
  <2> QED  BY <1>1, <2>2, <2>5, <2>6, Together DEF SessionAppears, roomVars, Typed, TypeOK
<1>2. CASE TurnEnds
  <2>1. PICK t \in turns :
          /\ turns' = turns \ {t}
          /\ \E s \in Session \cup {None}, text \in BOOLEAN : Report("done", t, s, text)
    BY <1>2 DEF TurnEnds, Typed, TurnTyped
  <2>2. results' \in Seq(Result)
    BY <2>1, Reported DEF Typed
  <2>3. RoomTyped'
    BY <1>2, <2>1 DEF TurnEnds, roomVars, dbVars, RoomTyped, Typed, TypeOK
  <2> QED  BY <1>2, <2>2, <2>3, Together DEF TurnEnds, roomVars, dbVars, Typed, TypeOK
<1> QED  BY <1>1, <1>2

LEMMA RegisteredTyped ==
    ASSUME Typed, NEW tr \in Result
    PROVE  Registered(tr) \in [Channel -> SUBSET Session]
<1>1. Registers(tr) => tr.session \in Session
  BY DEF Registers, Result
<1>2. tr.channel \in Channel /\ minds \in [Channel -> SUBSET Session]
  BY DEF Typed, TypeOK, Result
<1> QED  BY <1>1, <1>2 DEF Registered

LEMMA OwnTyped ==
    ASSUME Typed, NEW tr \in Result
    PROVE  tr.channel \in Channel /\ OwnSession(tr) \in Session \cup {None}
BY DEF OwnSession, Typed, TypeOK, Result

LEMMA FollowUpTyped ==
    ASSUME Typed, NEW c \in Channel, NEW s \in Session \cup {None}, FollowUp(c, s), UNCHANGED hops
    PROVE  RoomTyped'
<1>1. /\ busy' \in [Channel -> BOOLEAN] /\ pending' \in [Channel -> Message \cup {NoMessage}]
      /\ hops' \in [Channel -> 0 .. HopBudget]
  BY DEF FollowUp, Typed, TypeOK
<1>2. chain' \in [Channel -> Nat \cup {-1}]
  <2>1. /\ chain \in [Channel -> Nat \cup {-1}] /\ Counted(chain[c]) \in Nat \cup {-1}
        /\ chain[c] + 1 \in Nat \cup {-1} /\ chain[c] + 0 \in Nat \cup {-1}
    BY DEF Typed, TypeOK, Counted
  <2>2. \E n \in Nat \cup {-1} : chain' = [chain EXCEPT ![c] = n]
    BY <2>1 DEF FollowUp
  <2> QED  BY <2>1, <2>2
<1>3. (\A u \in turns' : TurnTyped(u)) /\ at' \in [Session -> [room : Channel, voice : Voices]]
  <2>1. UNCHANGED <<turns, at>> \/ \E t \in Routes(c, pending[c], s) : Go(t)
    BY DEF FollowUp
  <2> QED  BY <2>1, Routed, Going DEF Typed, TypeOK
<1> QED  BY <1>1, <1>2, <1>3 DEF RoomTyped

LEMMA DiscardTyped == ASSUME Typed, Discard PROVE Typed'
<1>1. PICK tr \in NextResult : Take(tr)
  BY DEF Discard
<1>2. results' \in Seq(Result) /\ UNCHANGED <<conn, gen, policy, cast, last, frames>>
  BY <1>1, Taken DEF Take
<1>3. RoomTyped'
  BY DEF Discard, roomVars, RoomTyped, Typed, TypeOK
<1> QED  BY <1>2, <1>3, Together DEF Discard, roomVars, Typed, TypeOK

LEMMA SessionKnownTyped == ASSUME Typed, SessionKnown PROVE Typed'
<1>1. PICK tr \in NextResult :
        /\ Take(tr)
        /\ minds' = Registered(tr)
        /\ mind' \in {mind, IF Registers(tr) /\ mind = None THEN tr.session ELSE mind}
        /\ session' = IF tr.voice = "persona" /\ session[tr.channel] = None
                      THEN [session EXCEPT ![tr.channel] = tr.session] ELSE session
  BY DEF SessionKnown
<1>2. /\ tr \in Result /\ results' \in Seq(Result)
      /\ UNCHANGED <<conn, gen, policy, cast, last, frames>>
  BY <1>1, Taken DEF Take
<1>3. RoomTyped' /\ UNCHANGED <<archiving, outbox, strays, renewals>>
  BY DEF SessionKnown, RoomTyped, Typed, TypeOK
<1>4. tr.session \in Session \cup {None} /\ tr.channel \in Channel
  BY <1>2 DEF Result
<1>5. minds' \in [Channel -> SUBSET Session]
  BY <1>1, <1>2, RegisteredTyped
<1>6. session' \in [Channel -> Session \cup {None}] /\ mind' \in Session \cup {None}
  BY <1>1, <1>4 DEF Typed, TypeOK
<1> QED  BY <1>2, <1>3, <1>5, <1>6, Together DEF Typed, TypeOK

LEMMA TurnDoneTyped == ASSUME Typed, TurnDone PROVE Typed'
<1>1. PICK tr \in NextResult :
        LET now == [session EXCEPT ![tr.channel] = OwnSession(tr)] IN
        /\ Take(tr) /\ minds' = Registered(tr)
        /\ IF tr.text THEN DrainOutbox(now, minds') ELSE UNCHANGED <<outbox, strays>>
        /\ \/ archiving[tr.channel] /\ Rotate(tr.channel)
           \/ /\ session' = now
              /\ FollowUp(tr.channel, now[tr.channel])
              /\ UNCHANGED <<hops, archiving, renewals>>
  BY DEF TurnDone
<1> DEFINE now == [session EXCEPT ![tr.channel] = OwnSession(tr)]
<1>2. /\ tr \in Result /\ results' \in Seq(Result)
      /\ UNCHANGED <<conn, gen, policy, cast, last, frames>>
  BY <1>1, Taken DEF Take
<1>3. tr.channel \in Channel /\ now \in [Channel -> Session \cup {None}]
      /\ now[tr.channel] \in Session \cup {None}
  BY <1>2, OwnTyped DEF Typed, TypeOK
<1> HIDE DEF now
<1>4. minds' \in [Channel -> SUBSET Session]
  BY <1>1, <1>2, RegisteredTyped
<1>5. /\ RoomTyped' /\ session' \in [Channel -> Session \cup {None}]
      /\ archiving' \in [Channel -> BOOLEAN] /\ renewals' \in [Channel -> Nat]
  <2>1. CASE Rotate(tr.channel)
    BY <1>3, <2>1, RotateTyped
  <2>2. CASE /\ session' = now /\ FollowUp(tr.channel, now[tr.channel])
             /\ UNCHANGED <<hops, archiving, renewals>>
    BY <1>3, <2>2, FollowUpTyped DEF Typed, TypeOK
  <2> QED  BY <1>1, <2>1, <2>2 DEF now
<1>6. /\ outbox' \subseteq BeatType
      /\ strays' \subseteq BeatType
  BY <1>1, DrainTyped DEF Typed, TypeOK
<1>7. mind' = mind
  BY DEF TurnDone
<1> QED  BY <1>2, <1>4, <1>5, <1>6, <1>7, Together DEF Typed, TypeOK

LEMMA ConnectionTyped == ASSUME Typed, Disconnect \/ HostRestart PROVE Typed'
<1>0. /\ RoomTyped' /\ session' \in [Channel -> Session \cup {None}] /\ archiving' \in [Channel -> BOOLEAN]
      /\ cast' \in [Channel -> BOOLEAN] /\ minds' \in [Channel -> SUBSET Session]
      /\ renewals' \in [Channel -> Nat]
  <2>1. ForgetRooms /\ UNCHANGED at /\ (UNCHANGED turns \/ turns' = {})
    BY DEF Disconnect, HostRestart, dbVars
  <2> QED  BY <2>1, ForgetTyped
<1>1. CASE Disconnect
  BY <1>0, <1>1, Together DEF Disconnect, dbVars, Typed, TypeOK
<1>2. CASE HostRestart
  <2>1. results' \in Seq(Result) /\ gen' \in 0 .. MaxConns
    BY <1>2, PersonaGatewayAssumption DEF HostRestart
  <2>2. /\ conn' \in BOOLEAN /\ policy' \in Policies \cup {"all"} /\ UNCHANGED <<dbVars, strays, frames>>
    BY <1>2 DEF HostRestart
  <2> QED  BY <1>0, <2>1, <2>2, Together DEF dbVars, Typed, TypeOK
<1> QED  BY <1>1, <1>2

LEMMA StartTyped == Init => Typed
<1> SUFFICES ASSUME Init PROVE Typed
  OBVIOUS
<1>1. (CHOOSE c \in Channel : TRUE) \in Channel
  BY PersonaGatewayAssumption
<1>2. 0 \in 0 .. HopBudget /\ 0 \in 0 .. MaxSessions /\ 0 \in 0 .. MaxConns /\ 0 \in 0 .. MaxFrames
  BY PersonaGatewayAssumption
<1>3. at \in [Session -> [room : Channel, voice : Voices]] /\ results \in Seq(Result)
  BY <1>1 DEF Init, Voices
<1> QED  BY <1>2, <1>3 DEF Init, Typed, TypeOK

LEMMA NextTyped == ASSUME Typed, [Next]_vars PROVE Typed'
<1>1. CASE UNCHANGED vars
  BY <1>1 DEF vars, roomVars, dbVars, Typed, TypeOK, TurnTyped
<1> QED
  BY <1>1, TalkTyped, QuietTyped, ArchiveTyped, ReportsTyped, DiscardTyped, SessionKnownTyped,
     TurnDoneTyped, ConnectionTyped DEF Next

LEMMA AlwaysTyped == Spec => []Typed
BY StartTyped, NextTyped, PTL DEF Spec

\* The state of the rooms, of the goroutines and of the outbox keeps its
\* shape; hops never passes personaHopBudget.
THEOREM GatewayTypes == Spec => []TypeOK
<1>1. Typed => TypeOK
  BY DEF Typed
<1> QED  BY <1>1, AlwaysTyped, PTL

----------------------------------------------------------------------------
(* The ping-pong guard *)

\* What the budgets renewed since a human spoke paid for.
Given(c) == HopBudget * renewals[c]

\* What triggered turns, and a persona's message that still waits, spent a hop
\* each, of this budget or of an earlier one. A message waits only for a turn in
\* flight.
ChainedIn(c) ==
    /\ chain[c] + (IF pending[c].from = "persona" THEN 1 ELSE 0) <= hops[c] + Given(c)
    /\ ~busy[c] => pending[c] = NoMessage

Chained == \A c \in Channel : ChainedIn(c)

\* Only room c hears or ends something.
Elsewhere(c) ==
    \A d \in Channel \ {c} : /\ chain'[d] = chain[d] /\ hops'[d] = hops[d]
                             /\ pending'[d] = pending[d] /\ busy'[d] = busy[d]
                             /\ renewals'[d] = renewals[d]

LEMMA OneRoomChained ==
    ASSUME Chained, NEW c \in Channel, Elsewhere(c), ChainedIn(c)'
    PROVE  Chained'
BY DEF Chained, ChainedIn, Elsewhere, Given

LEMMA ChainTypes ==
    ASSUME Typed, NEW c \in Channel
    PROVE  /\ chain[c] \in Int /\ hops[c] \in Nat /\ busy[c] \in BOOLEAN
           /\ chain[c] >= -1 /\ hops[c] <= HopBudget /\ renewals[c] \in Nat /\ Given(c) \in Nat
<1>1. \A n \in Nat : HopBudget * n \in Nat
  BY PersonaGatewayAssumption
<1> QED  BY <1>1, PersonaGatewayAssumption DEF Typed, TypeOK, Given

\* A budget is renewed: what had been spent is paid for by the one before.
LEMMA RenewalChained ==
    ASSUME Typed, NEW c \in Channel, ChainedIn(c), chain'[c] = Counted(chain[c]),
           renewals'[c] = Renewed(c), hops'[c] = 0, pending'[c] = NoMessage
    PROVE  ChainedIn(c)'
<1>1. chain[c] <= hops[c] + Given(c)
  BY ChainTypes DEF ChainedIn
<1>2. \A n \in Nat : HopBudget * (n + 1) = HopBudget * n + HopBudget
  BY PersonaGatewayAssumption
<1>3. Given(c)' = IF hops[c] > 0 THEN Given(c) + HopBudget ELSE Given(c)
  BY <1>2, ChainTypes DEF Given, Renewed
<1>4. Counted(chain[c]) <= Given(c)'
  BY <1>1, <1>3, ChainTypes, PersonaGatewayAssumption DEF Counted
<1>5. Given(c)' \in Nat /\ Counted(chain[c]) \in Nat
  BY <1>3, ChainTypes, PersonaGatewayAssumption DEF Counted
<1>6. NoMessage.from = "nobody"
  BY DEF NoMessage
<1> QED  BY <1>4, <1>5, <1>6 DEF ChainedIn

\* A message is heard with n hops spent, when base turns were triggered before
\* and r budgets renewed.
LEMMA HearChained ==
    ASSUME Typed, Chained, NEW c \in Channel, NEW m \in Message, NEW n \in Nat, NEW base \in Int,
           NEW r \in Nat, renewals' = [renewals EXCEPT ![c] = r],
           base + (IF pending[c].from = "persona" THEN 1 ELSE 0)
                + (IF m.from = "persona" THEN 1 ELSE 0) <= n + HopBudget * r,
           m.from = "persona" => n >= 1, Hear(c, m, n, base)
    PROVE  Chained'
<1>1. /\ hops' = [hops EXCEPT ![c] = n] /\ hops'[c] = n
      /\ ChainedIn(c) /\ NoMessage.from = "nobody" /\ m.from \in {"human", "persona"}
  BY DEF Hear, Typed, TypeOK, Chained, NoMessage, Message
<1>5. renewals'[c] = r /\ Given(c)' = HopBudget * r
      /\ \A d \in Channel \ {c} : renewals'[d] = renewals[d]
  BY DEF Given, Typed, TypeOK
<1>6. HopBudget * r \in Nat
  BY PersonaGatewayAssumption
<1> DEFINE g == HopBudget * r
<1> HIDE DEF g
<1>7. /\ Given(c)' = g /\ g \in Nat
      /\ base + (IF pending[c].from = "persona" THEN 1 ELSE 0)
              + (IF m.from = "persona" THEN 1 ELSE 0) <= n + g
  BY <1>5, <1>6 DEF g
<1>2. CASE Skips(c, m)
  <2>1. chain' = [chain EXCEPT ![c] = base] /\ UNCHANGED <<busy, pending>>
    BY <1>2 DEF Hear
  <2>2. ChainedIn(c)' /\ Elsewhere(c)
    BY <1>1, <1>5, <1>7, <2>1 DEF ChainedIn, Elsewhere, Typed, TypeOK
  <2> QED  BY <2>2, OneRoomChained
<1>3. CASE ~Skips(c, m) /\ busy[c]
  <2>1. /\ chain' = [chain EXCEPT ![c] = Counted(base)]
        /\ pending' = [pending EXCEPT ![c] = m] /\ UNCHANGED busy
    BY <1>3 DEF Hear
  <2>2. chain'[c] = Counted(base) /\ pending'[c] = m /\ busy'[c] = TRUE /\ Elsewhere(c)
    BY <1>1, <1>3, <1>5, <2>1 DEF Elsewhere, Typed, TypeOK
  <2>3. Counted(base) + (IF m.from = "persona" THEN 1 ELSE 0) <= n + g
    BY <1>1, <1>7 DEF Counted
  <2> QED  BY <1>1, <1>7, <2>2, <2>3, OneRoomChained DEF ChainedIn
<1>4. CASE ~Skips(c, m) /\ ~busy[c]
  <2>1. /\ chain' = [chain EXCEPT ![c] = base + (IF m.from = "persona" THEN 1 ELSE 0)]
        /\ busy' = [busy EXCEPT ![c] = TRUE] /\ UNCHANGED pending
    BY <1>4 DEF Hear
  <2>2. /\ chain'[c] = base + (IF m.from = "persona" THEN 1 ELSE 0)
        /\ pending'[c] = NoMessage /\ busy'[c] = TRUE /\ Elsewhere(c)
    BY <1>1, <1>4, <1>5, <2>1 DEF ChainedIn, Elsewhere, Typed, TypeOK
  <2> QED  BY <1>1, <1>7, <2>2, OneRoomChained DEF ChainedIn
<1> QED  BY <1>2, <1>3, <1>4

LEMMA RotateChained == ASSUME Typed, Chained, NEW c \in Channel, Rotate(c) PROVE Chained'
<1>1. /\ Elsewhere(c) /\ chain'[c] = Counted(chain[c]) /\ hops'[c] = 0
      /\ pending'[c] = NoMessage /\ renewals'[c] = Renewed(c)
  BY DEF Rotate, Elsewhere, Typed, TypeOK
<1> QED  BY <1>1, RenewalChained, OneRoomChained DEF Chained

LEMMA FollowUpChained ==
    ASSUME Typed, Chained, NEW c \in Channel, NEW s, FollowUp(c, s), UNCHANGED <<hops, renewals>>
    PROVE  Chained'
<1>1. /\ pending' = [pending EXCEPT ![c] = NoMessage] /\ \E b : busy' = [busy EXCEPT ![c] = b]
      /\ \/ chain' = [chain EXCEPT ![c] = @ + (IF pending[c].from = "persona" THEN 1 ELSE 0)]
         \/ chain' = [chain EXCEPT ![c] = Counted(@)]
  BY DEF FollowUp
<1>2. /\ Elsewhere(c) /\ pending'[c] = NoMessage /\ hops'[c] = hops[c] /\ Given(c)' = Given(c)
      /\ \/ chain'[c] = chain[c] + (IF pending[c].from = "persona" THEN 1 ELSE 0)
         \/ chain'[c] = Counted(chain[c])
  BY <1>1 DEF Elsewhere, Given, Typed, TypeOK
<1>3. Counted(chain[c]) <= hops[c] + Given(c)
  BY ChainTypes DEF Counted, Chained, ChainedIn
<1>4. chain[c] + (IF pending[c].from = "persona" THEN 1 ELSE 0) <= hops[c] + Given(c)
  BY DEF Chained, ChainedIn
<1>5. chain'[c] <= hops[c] + Given(c) /\ chain'[c] + 0 = chain'[c]
  BY <1>2, <1>3, <1>4, ChainTypes DEF Counted
<1> QED  BY <1>2, <1>5, OneRoomChained DEF ChainedIn, NoMessage

LEMMA TalkChained ==
    ASSUME Typed, Chained, HumanSpeaks \/ PersonaSpeaks \/ ResumeProgram \/ Archive
    PROVE  Chained'
<1>0. HopBudget * 0 = 0
  BY PersonaGatewayAssumption
<1>1. ASSUME NEW c \in Channel, hops' = [hops EXCEPT ![c] = 0],
             chain' = [chain EXCEPT ![c] = Restart(c)], renewals' = [renewals EXCEPT ![c] = 0],
             UNCHANGED <<busy, pending>>
      PROVE  Chained'
  <2>1. /\ Elsewhere(c) /\ hops'[c] = 0 /\ chain'[c] = Restart(c)
        /\ pending'[c] = pending[c] /\ busy'[c] = busy[c] /\ ChainedIn(c) /\ Given(c)' = 0
    BY <1>1, <1>0 DEF Elsewhere, Typed, TypeOK, Chained, Given
  <2> QED  BY <2>1, OneRoomChained DEF ChainedIn, Restart
<1>2. CASE HumanSpeaks
  <2>1. PICK c \in Channel :
          /\ renewals' = [renewals EXCEPT ![c] = 0]
          /\ \/ \E k \in Calls : Hear(c, [from |-> "human", calls |-> k], 0, Restart(c))
             \/ /\ hops' = [hops EXCEPT ![c] = 0]
                /\ chain' = [chain EXCEPT ![c] = Restart(c)]
                /\ UNCHANGED <<busy, pending>>
    BY <1>2 DEF HumanSpeaks
  <2>2. ASSUME NEW k \in Calls, Hear(c, [from |-> "human", calls |-> k], 0, Restart(c))
        PROVE  Chained'
    <3> DEFINE m == [from |-> "human", calls |-> k]
    <3>1. m \in Message /\ m.from = "human"
      BY DEF Message
    <3>2. /\ Restart(c) \in Int
          /\ Restart(c) + (IF pending[c].from = "persona" THEN 1 ELSE 0) + 0 <= 0 + HopBudget * 0
      BY <1>0 DEF Restart
    <3>3. Hear(c, m, 0, Restart(c))
      BY <2>2
    <3> HIDE DEF m
    <3> QED  BY <2>1, <3>1, <3>2, <3>3, HearChained
  <2> QED  BY <1>1, <2>1, <2>2
<1>3. CASE PersonaSpeaks
  <2>1. PICK c \in Channel, k \in Calls :
          /\ Hear(c, [from |-> "persona", calls |-> k], hops[c] + 1, chain[c])
          /\ UNCHANGED renewals
    BY <1>3 DEF PersonaSpeaks
  <2> DEFINE m == [from |-> "persona", calls |-> k]
  <2>2. m \in Message /\ m.from = "persona" /\ Hear(c, m, hops[c] + 1, chain[c])
    BY <2>1 DEF Message
  <2> HIDE DEF m
  <2>3. chain[c] + (IF pending[c].from = "persona" THEN 1 ELSE 0) <= hops[c] + Given(c)
    BY DEF Chained, ChainedIn
  <2>4. /\ chain[c] + (IF pending[c].from = "persona" THEN 1 ELSE 0) + 1
             <= (hops[c] + 1) + Given(c)
        /\ chain[c] \in Int /\ hops[c] + 1 \in Nat /\ hops[c] + 1 >= 1
    BY <2>3, ChainTypes
  <2>5. renewals' = [renewals EXCEPT ![c] = renewals[c]] /\ renewals[c] \in Nat
    BY <2>1 DEF Typed, TypeOK
  <2> QED  BY <2>2, <2>4, <2>5, HearChained DEF Given
<1>4. CASE ResumeProgram
  BY <1>1, <1>4 DEF ResumeProgram
<1>5. CASE Archive
  <2>1. PICK c \in Channel :
          \/ Rotate(c)
          \/ busy' = [busy EXCEPT ![c] = TRUE] /\ UNCHANGED <<pending, hops, chain, renewals>>
    BY <1>5 DEF Archive
  <2>2. CASE busy' = [busy EXCEPT ![c] = TRUE] /\ UNCHANGED <<pending, hops, chain, renewals>>
    BY <2>2 DEF Chained, ChainedIn, Given, Typed, TypeOK
  <2> QED  BY <2>1, <2>2, RotateChained
<1> QED  BY <1>2, <1>3, <1>4, <1>5

LEMMA NextChained == ASSUME Typed, Chained, [Next]_vars PROVE Chained'
<1>1. CASE HumanSpeaks \/ PersonaSpeaks \/ ResumeProgram \/ Archive
  BY <1>1, TalkChained
<1>2. CASE TurnDone
  <2>1. PICK c \in Channel : \/ Rotate(c)
                             \/ \E s : FollowUp(c, s) /\ UNCHANGED <<hops, renewals>>
    <3>1. \A tr \in NextResult : Take(tr) => tr \in Result
      BY Taken
    <3> QED  BY <1>2, <3>1 DEF TurnDone, Result
  <2> QED  BY <2>1, RotateChained, FollowUpChained
<1>3. CASE Disconnect \/ HostRestart
  <2>1. ForgetRooms
    BY <1>3 DEF Disconnect, HostRestart
  <2>2. \A c \in Channel : /\ chain'[c] = Counted(chain[c]) /\ renewals'[c] = Renewed(c)
                           /\ hops'[c] = 0 /\ pending'[c] = NoMessage
    BY <2>1 DEF ForgetRooms
  <2> QED  BY <2>2, RenewalChained DEF Chained
<1>4. CASE \/ CastChanges \/ RefreshRooms \/ SessionAppears \/ TurnEnds \/ RoomSay
           \/ Drain \/ Discard \/ SessionKnown \/ Connect \/ UNCHANGED vars
  <2>1. UNCHANGED <<chain, hops, pending, busy, renewals>>
    BY <1>4 DEF CastChanges, RefreshRooms, SessionAppears, TurnEnds, RoomSay, Drain, Discard,
                SessionKnown, Connect, roomVars, vars
  <2> QED  BY <2>1 DEF Chained, ChainedIn, Given
<1> QED  BY <1>1, <1>2, <1>3, <1>4 DEF Next

\* What other personas say triggers at most personaHopBudget turns since the last
\* human message (or resume), however their messages wait for a turn in flight,
\* replace each other or follow a reset, and as many for each archive, reconnect
\* or restart since then that zeroed a count.
THEOREM ChainsBounded == Spec => []HopChain
<1>1. Init => Chained
  <2> SUFFICES ASSUME Init, NEW c \in Channel PROVE ChainedIn(c)
    BY DEF Chained
  <2>1. HopBudget * 0 = 0
    BY PersonaGatewayAssumption
  <2>2. chain[c] = 0 /\ hops[c] = 0 /\ renewals[c] = 0 /\ pending[c] = NoMessage
    BY DEF Init
  <2> QED  BY <2>1, <2>2 DEF ChainedIn, Given, NoMessage
<1>2. Typed /\ Chained => HopChain
  <2> SUFFICES ASSUME Typed, Chained, NEW c \in Channel
               PROVE  chain[c] <= HopBudget * (1 + renewals[c])
    BY DEF HopChain
  <2>1. chain[c] + (IF pending[c].from = "persona" THEN 1 ELSE 0) <= hops[c] + Given(c)
    BY DEF Chained, ChainedIn
  <2>2. chain[c] <= HopBudget + Given(c)
    BY <2>1, ChainTypes, PersonaGatewayAssumption
  <2>3. \A n \in Nat : HopBudget * (1 + n) = HopBudget + HopBudget * n
    BY PersonaGatewayAssumption
  <2>4. renewals[c] \in Nat
    BY ChainTypes
  <2> QED  BY <2>2, <2>3, <2>4 DEF Given
<1>3. Typed /\ Chained /\ [Next]_vars => Chained'
  BY NextChained
<1> QED  BY <1>1, <1>2, <1>3, AlwaysTyped, PTL DEF Spec

----------------------------------------------------------------------------
(* What is said in a room stays in the room *)

\* Voice v speaks in room c on session s: the room or a goroutine holds it, or
\* a result brings it.
SpeaksOn(v, s, c) ==
    \/ v = "persona" /\ session[c] = s
    \/ v = "character" /\ (s \in minds[c] \/ (mind = s /\ c \in CastRooms))
    \/ \E t \in turns : t.voice = v /\ t.session = s /\ t.channel = c
    \/ \E i \in DOMAIN results :
         results[i].voice = v /\ results[i].session = s /\ results[i].channel = c

\* A session has one voice; the persona's sessions are at home in one room, the
\* character's in the rooms that may cast the character.
AtHome ==
    \A v \in Voices, s \in Session, c \in Channel : SpeaksOn(v, s, c) =>
        /\ s <= last /\ at[s].voice = v
        /\ v = "persona" => at[s].room = c
        /\ v = "character" => c \in CastRooms

BeatAtHome(b) ==
    /\ b.session <= last /\ b.voice = at[b.session].voice
    /\ b.voice = "persona" => b.room = at[b.session].room
    /\ b.voice = "character" => b.room \in CastRooms

CastAtHome ==
    /\ \A c \in Channel : cast[c] => c \in CastRooms
    /\ \A t \in turns : t.voice = "character" => t.channel \in CastRooms
    /\ \A s \in Session : at[s].voice = "character" => at[s].room \in CastRooms

StraysAtHome == \A b \in strays : b.voice = "character" /\ \E c \in CastRooms : c # b.room

Homed == AtHome /\ (\A b \in outbox : BeatAtHome(b)) /\ CastAtHome /\ StraysAtHome

\* Sessions keep their voice, and only those of the character move, to rooms that
\* may cast it.
VoicesStay ==
    \A s \in Session :
        /\ at'[s].voice = at[s].voice
        /\ at'[s].room = at[s].room \/ (at[s].voice = "character" /\ at'[s].room \in CastRooms)

\* A session that voice v speaks on in room c, or may as the character.
Spoken(v, s, c) ==
    \/ SpeaksOn(v, s, c)
    \/ v = "character" /\ c \in CastRooms /\ \E d \in Channel : SpeaksOn(v, s, d)

LEMMA HomedMoves ==
    ASSUME Typed, Homed, UNCHANGED last, VoicesStay,
           \A v \in Voices, s \in Session, c \in Channel : SpeaksOn(v, s, c)' => Spoken(v, s, c),
           outbox' \subseteq BeatType, \A b \in outbox' : b \in outbox \/ BeatAtHome(b),
           StraysAtHome', \A c \in Channel : cast'[c] => c \in CastRooms,
           \A t \in turns' : t \in turns \/ (t.voice = "character" => t.channel \in CastRooms)
    PROVE  Homed'
<1>1. AtHome'
  <2> SUFFICES ASSUME NEW v \in Voices, NEW s \in Session, NEW c \in Channel, SpeaksOn(v, s, c)'
               PROVE  /\ s <= last /\ at'[s].voice = v
                      /\ v = "persona" => at'[s].room = c
                      /\ v = "character" => c \in CastRooms
    BY DEF AtHome
  <2>1. \A w \in Voices, q \in Session, d \in Channel : SpeaksOn(w, q, d) =>
          /\ q <= last /\ at[q].voice = w
          /\ w = "persona" => at[q].room = d
          /\ w = "character" => d \in CastRooms
    BY DEF Homed, AtHome
  <2>2. CASE SpeaksOn(v, s, c)
    BY <2>1, <2>2 DEF VoicesStay
  <2>3. CASE v = "character" /\ c \in CastRooms /\ \E d \in Channel : SpeaksOn(v, s, d)
    BY <2>1, <2>3 DEF VoicesStay
  <2>4. Spoken(v, s, c)
    OBVIOUS
  <2> QED  BY <2>2, <2>3, <2>4 DEF Spoken
<1>2. ASSUME NEW b \in outbox' PROVE BeatAtHome(b)'
  <2>1. BeatAtHome(b) /\ b.session \in Session /\ b.voice \in Voices
    BY <1>2 DEF Homed, BeatType
  <2> QED  BY <2>1 DEF BeatAtHome, VoicesStay, Voices
<1>3. CastAtHome'
  BY DEF Homed, CastAtHome, VoicesStay
<1> QED  BY <1>1, <1>2, <1>3 DEF Homed

LEMMA HomedStays ==
    ASSUME Typed, Homed, UNCHANGED <<last, at>>,
           \A v \in Voices, s \in Session, c \in Channel : SpeaksOn(v, s, c)' => SpeaksOn(v, s, c),
           outbox' \subseteq BeatType, \A b \in outbox' : b \in outbox \/ BeatAtHome(b),
           StraysAtHome', \A c \in Channel : cast'[c] => c \in CastRooms,
           \A t \in turns' : t \in turns \/ (t.voice = "character" => t.channel \in CastRooms)
    PROVE  Homed'
<1>1. VoicesStay
  BY DEF VoicesStay
<1>2. \A v \in Voices, s \in Session, c \in Channel : SpeaksOn(v, s, c)' => Spoken(v, s, c)
  BY DEF Spoken
<1> QED  BY <1>1, <1>2, HomedMoves

\* A goroutine that starts on a session of its room and voice leaves the
\* sessions their voices.
Started(t) ==
    /\ TurnTyped(t)
    /\ t.session # None => SpeaksOn(t.voice, t.session, t.channel)
    /\ t.voice = "character" => t.channel \in CastRooms

LEMMA GoingHome ==
    ASSUME Typed, Homed, NEW t, Started(t), Go(t)
    PROVE  /\ VoicesStay /\ turns' = turns \cup {t}
           /\ TurnTyped(t)
<1>1. TurnTyped(t) /\ turns' = turns \cup {t}
  BY DEF Go, Started
<1>2. CASE t.session = None
  BY <1>1, <1>2 DEF Go, VoicesStay
<1>3. CASE t.session # None
  <2>1. /\ t.session \in Session /\ t.voice \in Voices /\ t.channel \in Channel
        /\ at \in [Session -> [room : Channel, voice : Voices]]
    BY <1>1, <1>3 DEF TurnTyped, Typed, TypeOK
  <2>2. /\ at[t.session].voice = t.voice
        /\ t.voice = "persona" => at[t.session].room = t.channel
        /\ t.voice = "character" => t.channel \in CastRooms
    BY <1>3, <2>1 DEF Started, Homed, AtHome
  <2>3. at' = [at EXCEPT ![t.session] = Asked(t)]
    BY <1>3 DEF Go
  <2>4. Asked(t).room = t.channel /\ Asked(t).voice = t.voice
    BY DEF Asked
  <2>5. \A s \in Session : at'[s] = IF s = t.session THEN Asked(t) ELSE at[s]
    BY <2>1, <2>3
  <2> QED  BY <1>1, <2>1, <2>2, <2>4, <2>5 DEF VoicesStay, Voices
<1> QED  BY <1>2, <1>3

\* Every route of room c starts on a session of the room, when s is one.
LEMMA RoutesHome ==
    ASSUME Typed, Homed, NEW c \in Channel, NEW m, NEW s \in Session \cup {None},
           s # None => SpeaksOn("persona", s, c), NEW t \in Routes(c, m, s)
    PROVE  Started(t) /\ t.channel = c
<1>1. /\ TurnTyped(t) /\ t.channel = c
      /\ \/ t.voice = "persona" /\ t.session = s
         \/ t.voice = "character" /\ t.session = mind /\ cast[c]
  BY Routed
<1>2. cast[c] => c \in CastRooms /\ SpeaksOn("character", mind, c)
  BY DEF SpeaksOn, Homed, CastAtHome
<1> QED  BY <1>1, <1>2 DEF Started

\* Only a character's beat goes astray when the rooms hold sessions that their
\* voices speak on.
LEMMA DrainHome ==
    ASSUME Typed, Homed, NEW S, NEW M, DrainOutbox(S, M),
           \A s \in Session, c \in Channel : S[c] = s => SpeaksOn("persona", s, c),
           \A s \in Session, c \in Channel : s \in M[c] => SpeaksOn("character", s, c)
    PROVE  outbox' \subseteq outbox /\ StraysAtHome'
<1> DEFINE claimed == {b \in outbox : Holders(S, M, b.session) # {}}
<1>1. PICK f \in [{b.session : b \in claimed} -> Channel] :
        /\ \A sid \in DOMAIN f : f[sid] \in Holders(S, M, sid)
        /\ strays' = strays \cup {b \in claimed : f[b.session] # b.room}
  BY DEF DrainOutbox
<1> DEFINE sids == {b.session : b \in claimed}
<1>3. f \in [sids -> Channel] /\ \A b \in claimed : b.session \in sids /\ b \in outbox
  OBVIOUS
<1> HIDE DEF claimed, sids
<1>2. ASSUME NEW b \in claimed, f[b.session] # b.room
      PROVE  b.voice = "character" /\ \E c \in CastRooms : c # b.room
  <2>1. b \in outbox /\ b.session \in Session /\ b.voice \in Voices /\ BeatAtHome(b)
    BY <1>3 DEF Typed, TypeOK, BeatType, Homed
  <2>2. b.session \in sids /\ DOMAIN f = sids
    BY <1>3
  <2>3. f[b.session] \in Channel /\ f[b.session] \in Holders(S, M, b.session)
    BY <1>1, <1>3, <2>2
  <2>4. S[f[b.session]] = b.session \/ b.session \in M[f[b.session]]
    BY <2>3 DEF Holders
  <2>5. CASE S[f[b.session]] = b.session
    <3>1. at[b.session].voice = "persona" /\ at[b.session].room = f[b.session]
      BY <2>1, <2>3, <2>5 DEF Homed, AtHome, Voices
    <3> QED  BY <1>2, <2>1, <3>1 DEF BeatAtHome
  <2>6. CASE b.session \in M[f[b.session]]
    <3>1. at[b.session].voice = "character" /\ f[b.session] \in CastRooms
      BY <2>1, <2>3, <2>6 DEF Homed, AtHome, Voices
    <3> QED  BY <1>2, <2>1, <3>1 DEF BeatAtHome
  <2> QED  BY <2>4, <2>5, <2>6
<1>4. \A b \in strays : b.voice = "character" /\ \E c \in CastRooms : c # b.room
  BY DEF Homed, StraysAtHome
<1>5. outbox' \subseteq outbox
  BY DEF DrainOutbox
<1> QED  BY <1>1, <1>2, <1>4, <1>5 DEF StraysAtHome

\* The rooms' state alone changes, and a goroutine may start.
LEMMA RoomStepHome ==
    ASSUME Typed, Homed, UNCHANGED <<cast, minds, results, mind, last, outbox, strays>>,
           \A c \in Channel : session'[c] \in {session[c], None},
           UNCHANGED <<turns, at>> \/ \E t : Started(t) /\ Go(t)
    PROVE  Homed'
<1>1. VoicesStay /\ \A t \in turns' : t \in turns \/ Started(t)
  BY GoingHome DEF VoicesStay
<1>2. ASSUME NEW v \in Voices, NEW s \in Session, NEW c \in Channel, SpeaksOn(v, s, c)'
      PROVE  SpeaksOn(v, s, c)
  <2>1. s # None
    BY DEF Session, None
  <2> QED  BY <1>1, <1>2, <2>1 DEF SpeaksOn, Started
<1>3. \A v \in Voices, s \in Session, c \in Channel : SpeaksOn(v, s, c)' => Spoken(v, s, c)
  BY <1>2 DEF Spoken
<1>4. outbox' \subseteq BeatType /\ StraysAtHome' /\ \A c \in Channel : cast'[c] => c \in CastRooms
  BY DEF Typed, TypeOK, Homed, CastAtHome, StraysAtHome
<1> QED  BY <1>1, <1>3, <1>4, HomedMoves DEF Started

LEMMA TalkHome ==
    ASSUME Typed, Homed, HumanSpeaks \/ PersonaSpeaks \/ Archive \/ ResumeProgram
    PROVE  Homed'
<1>1. /\ UNCHANGED <<cast, minds, results, mind, last, outbox, strays>>
      /\ \A c \in Channel : session'[c] \in {session[c], None}
  BY DEF HumanSpeaks, PersonaSpeaks, Archive, ResumeProgram, dbVars, Rotate, Typed, TypeOK
<1>2. ASSUME NEW c \in Channel, NEW m, NEW n, NEW base, Hear(c, m, n, base)
      PROVE  UNCHANGED <<turns, at>> \/ \E t : Started(t) /\ Go(t)
  <2>1. UNCHANGED <<turns, at>> \/ \E t \in Routes(c, m, session[c]) : Go(t)
    BY <1>2 DEF Hear
  <2>2. session[c] \in Session \cup {None} /\ SpeaksOn("persona", session[c], c)
    BY DEF SpeaksOn, Typed, TypeOK
  <2> QED  BY <2>1, <2>2, RoutesHome
<1>3. CASE HumanSpeaks \/ PersonaSpeaks
  <2>1. UNCHANGED <<turns, at>> \/ \E t : Started(t) /\ Go(t)
    BY <1>2, <1>3 DEF HumanSpeaks, PersonaSpeaks
  <2> QED  BY <1>1, <2>1, RoomStepHome
<1>4. CASE Archive \/ ResumeProgram
  <2>1. UNCHANGED <<turns, at>> \/ \E c \in Channel : Go(Turn(c, "persona", session[c]))
    BY <1>4 DEF Archive, ResumeProgram, Rotate, dbVars
  <2>2. \A c \in Channel : Started(Turn(c, "persona", session[c]))
    BY NewTurns DEF Started, SpeaksOn, TurnTyped, Typed, TypeOK, Voices
  <2> QED  BY <1>1, <2>1, <2>2, RoomStepHome
<1> QED  BY <1>3, <1>4

LEMMA QuietHome ==
    ASSUME Typed, Homed, CastChanges \/ RefreshRooms \/ RoomSay \/ Drain \/ Connect \/ UNCHANGED vars
    PROVE  Homed'
<1>1. /\ UNCHANGED <<session, minds, mind, turns, results, last, at>>
  BY DEF CastChanges, RefreshRooms, RoomSay, Drain, Connect, vars, roomVars, dbVars
<1>2. \A v \in Voices, s \in Session, c \in Channel : SpeaksOn(v, s, c)' => SpeaksOn(v, s, c)
  BY <1>1 DEF SpeaksOn
<1>3. \A c \in Channel : cast'[c] => c \in CastRooms
  BY DEF CastChanges, RefreshRooms, RoomSay, Drain, Connect, vars, Homed, CastAtHome, Typed, TypeOK
<1>4. outbox' \subseteq BeatType
  <2>1. Typed'
    BY QuietTyped DEF vars, roomVars, dbVars, Typed, TypeOK, TurnTyped
  <2> QED  BY <2>1 DEF Typed, TypeOK
<1>5. \A t \in turns' : t \in turns
  BY <1>1
<1>6. CASE RoomSay
  <2>1. PICK s \in 1 .. last : outbox' = outbox \cup {Beat(s)}
    BY <1>6 DEF RoomSay
  <2>2. s \in Session /\ s <= last /\ at[s].voice \in Voices
    BY <2>1, PersonaGatewayAssumption DEF Typed, TypeOK, Session
  <2>3. BeatAtHome(Beat(s))
    BY <2>2 DEF Beat, BeatAtHome, Homed, CastAtHome
  <2>4. \A b \in outbox' : b \in outbox \/ BeatAtHome(b)
    BY <2>1, <2>3
  <2>5. StraysAtHome'
    BY <1>6 DEF RoomSay, Homed, StraysAtHome
  <2> QED  BY <1>1, <1>2, <1>3, <1>4, <1>5, <2>4, <2>5, HomedStays
<1>7. CASE Drain
  <2>1. /\ \A s \in Session, c \in Channel : session[c] = s => SpeaksOn("persona", s, c)
        /\ \A s \in Session, c \in Channel : s \in minds[c] => SpeaksOn("character", s, c)
    BY DEF SpeaksOn
  <2>2. DrainOutbox(session, minds)
    BY <1>7 DEF Drain
  <2>3. outbox' \subseteq outbox /\ StraysAtHome'
    BY <2>1, <2>2, DrainHome
  <2> QED  BY <1>1, <1>2, <1>3, <1>4, <1>5, <2>3, HomedStays
<1>8. CASE CastChanges \/ RefreshRooms \/ Connect \/ UNCHANGED vars
  <2>1. outbox' = outbox /\ StraysAtHome'
    BY <1>8 DEF CastChanges, RefreshRooms, Connect, vars, dbVars, Homed, StraysAtHome
  <2> QED  BY <1>1, <1>2, <1>3, <1>4, <1>5, <2>1, HomedStays
<1> QED  BY <1>6, <1>7, <1>8

\* A new session is at home where its goroutine runs, and nobody else has it.
LEMMA AppearsHome == ASSUME Typed, Homed, SessionAppears PROVE Homed'
<1>1. PICK t \in turns :
        /\ last' = last + 1 /\ t.session = None
        /\ turns' = (turns \ {t}) \cup {[t EXCEPT !.session = last']}
        /\ at' = [at EXCEPT ![last'] = Asked(t)]
        /\ Report("session", t, last', FALSE)
        /\ UNCHANGED <<roomVars, cast, mind, outbox, strays>>
  BY DEF SessionAppears
<1> DEFINE n == last'
           u == [t EXCEPT !.session = n]
<1>2. /\ n \in Session /\ n = last + 1 /\ last \in Nat /\ TurnTyped(t)
      /\ t.channel \in Channel /\ t.voice \in Voices
  BY <1>1, PersonaGatewayAssumption DEF SessionAppears, Typed, TypeOK, Session
<1>3. u.session = n /\ u.voice = t.voice /\ u.channel = t.channel
  BY <1>2 DEF TurnTyped, TurnRecord
<1>4. \A v \in turns' : v \in turns \/ v = u
  BY <1>1
<1>5. /\ at'[n].room = t.channel /\ at'[n].voice = t.voice
      /\ \A s \in Session : s = n \/ at'[s] = at[s]
  BY <1>1, <1>2 DEF Asked, Typed, TypeOK
<1>6. \A v \in Voices, s \in Session, c \in Channel : SpeaksOn(v, s, c) => s <= last
  BY DEF Homed, AtHome
<1>7. t.voice = "character" => t.channel \in CastRooms
  BY DEF Homed, CastAtHome
<1>8. /\ Len(results) \in Nat /\ DOMAIN results' = 1 .. Len(results) + 1
      /\ results'[Len(results) + 1].voice = t.voice
      /\ results'[Len(results) + 1].session = n
      /\ results'[Len(results) + 1].channel = t.channel
      /\ \A i \in 1 .. Len(results) : results'[i] = results[i]
  BY <1>1, <1>2, Reported
<1>9. DOMAIN results = 1 .. Len(results)
  BY DEF Typed, TypeOK
<1> HIDE DEF n, u
<1>10. ASSUME NEW v \in Voices, NEW s \in Session, NEW c \in Channel, SpeaksOn(v, s, c)'
       PROVE  SpeaksOn(v, s, c) \/ (v = t.voice /\ s = n /\ c = t.channel)
  <2>1. UNCHANGED <<session, minds, mind>>
    BY <1>1 DEF roomVars
  <2>2. ASSUME NEW w \in turns', w.voice = v, w.session = s, w.channel = c
        PROVE  SpeaksOn(v, s, c) \/ (v = t.voice /\ s = n /\ c = t.channel)
    BY <1>3, <1>4, <2>2 DEF SpeaksOn
  <2>3. ASSUME NEW i \in DOMAIN results', results'[i].voice = v, results'[i].session = s,
               results'[i].channel = c
        PROVE  SpeaksOn(v, s, c) \/ (v = t.voice /\ s = n /\ c = t.channel)
    <3>1. i \in 1 .. Len(results) \/ i = Len(results) + 1
      BY <1>8
    <3> QED  BY <1>8, <1>9, <2>3, <3>1 DEF SpeaksOn
  <2> QED  BY <1>10, <2>1, <2>2, <2>3 DEF SpeaksOn
<1>11. ASSUME NEW v \in Voices, NEW s \in Session, NEW c \in Channel, SpeaksOn(v, s, c)'
       PROVE  /\ s <= n /\ at'[s].voice = v
              /\ v = "persona" => at'[s].room = c
              /\ v = "character" => c \in CastRooms
  <2>1. CASE s = n
    <3>1. ~SpeaksOn(v, s, c)
      BY <1>2, <1>6, <2>1
    <3> QED  BY <1>2, <1>5, <1>7, <1>10, <1>11, <2>1, <3>1
  <2>2. CASE s # n
    <3>1. SpeaksOn(v, s, c)
      BY <1>10, <1>11, <2>2
    <3>2. /\ s <= last /\ at[s].voice = v
          /\ v = "persona" => at[s].room = c
          /\ v = "character" => c \in CastRooms
      <4>1. AtHome
        BY DEF Homed
      <4> QED  BY <3>1, <4>1, Zenon DEF AtHome
    <3>3. s <= n
      BY <1>2, <3>2 DEF Session
    <3> QED  BY <1>5, <2>2, <3>2, <3>3
  <2> QED  BY <2>1, <2>2
<1>12. AtHome'
  BY <1>11 DEF AtHome, n
<1>13. ASSUME NEW b \in outbox' PROVE BeatAtHome(b)'
  <2>1. b \in outbox /\ b.session \in Session /\ b.session <= last /\ BeatAtHome(b)
    BY <1>1, <1>13 DEF Homed, BeatAtHome, Typed, TypeOK, BeatType
  <2>2. b.session # n /\ b.session <= n
    BY <1>2, <2>1 DEF Session
  <2> QED  BY <1>5, <2>1, <2>2 DEF BeatAtHome, n
<1>14. CastAtHome' /\ StraysAtHome'
  <2>1. \A s \in Session : at'[s].voice = "character" => at'[s].room \in CastRooms
    BY <1>5, <1>7 DEF Homed, CastAtHome
  <2> QED  BY <1>1, <1>3, <1>4, <1>7, <2>1 DEF Homed, CastAtHome, StraysAtHome
<1> QED  BY <1>12, <1>13, <1>14 DEF Homed

LEMMA EndsHome == ASSUME Typed, Homed, TurnEnds PROVE Homed'
<1>1. PICK t \in turns :
        /\ turns' = turns \ {t}
        /\ \E s \in {t.session, None}, text \in BOOLEAN : Report("done", t, s, text)
  BY DEF TurnEnds
<1>2. PICK s \in {t.session, None}, text \in BOOLEAN : Report("done", t, s, text)
  BY <1>1
<1>3. TurnTyped(t) /\ s \in Session \cup {None}
  BY DEF Typed, TurnTyped
<1>4. /\ Len(results) \in Nat /\ DOMAIN results' = 1 .. Len(results) + 1
      /\ results'[Len(results) + 1].voice = t.voice
      /\ results'[Len(results) + 1].session = s
      /\ results'[Len(results) + 1].channel = t.channel
      /\ \A i \in 1 .. Len(results) : results'[i] = results[i]
      /\ DOMAIN results = 1 .. Len(results)
  BY <1>2, <1>3, Reported
<1>5. UNCHANGED <<session, minds, mind, last, at, outbox, strays, cast>>
  BY DEF TurnEnds, roomVars, dbVars
<1>6. ASSUME NEW v \in Voices, NEW q \in Session, NEW c \in Channel, SpeaksOn(v, q, c)'
      PROVE  SpeaksOn(v, q, c)
  <2>1. ASSUME NEW i \in DOMAIN results', results'[i].voice = v, results'[i].session = q,
               results'[i].channel = c
        PROVE  SpeaksOn(v, q, c)
    <3>1. i \in 1 .. Len(results) \/ i = Len(results) + 1
      BY <1>4
    <3>2. q # None
      BY DEF Session, None
    <3> QED  BY <1>4, <2>1, <3>1, <3>2 DEF SpeaksOn
  <2> QED  BY <1>1, <1>5, <1>6, <2>1 DEF SpeaksOn
<1> QED  BY <1>1, <1>5, <1>6, HomedStays DEF Homed, CastAtHome, StraysAtHome, Typed, TypeOK

LEMMA ForgetHome == ASSUME Typed, Homed, Disconnect \/ HostRestart PROVE Homed'
<1>1. /\ UNCHANGED <<mind, last, outbox, at, strays>>
      /\ UNCHANGED <<turns, results>> \/ (turns' = {} /\ results' = <<>>)
      /\ \A c \in Channel : session'[c] = None /\ minds'[c] = {} /\ ~cast'[c]
  BY DEF Disconnect, HostRestart, ForgetRooms, dbVars
<1>2. ASSUME NEW v \in Voices, NEW s \in Session, NEW c \in Channel, SpeaksOn(v, s, c)'
      PROVE  SpeaksOn(v, s, c)
  <2>1. s # None
    BY DEF Session, None
  <2> QED  BY <1>1, <1>2, <2>1 DEF SpeaksOn
<1> QED  BY <1>1, <1>2, HomedStays DEF Homed, CastAtHome, StraysAtHome, Typed, TypeOK

\* What the first result brings is a session of its room and voice.
LEMMA Brought ==
    ASSUME Typed, NEW tr \in NextResult, Take(tr)
    PROVE  /\ SpeaksOn(tr.voice, tr.session, tr.channel)
           /\ tr.voice \in Voices /\ tr.channel \in Channel /\ tr.session \in Session \cup {None}
           /\ \A v, s, c : (\E i \in DOMAIN results' : /\ results'[i].voice = v /\ results'[i].session = s
                                                      /\ results'[i].channel = c)
                             => SpeaksOn(v, s, c)
<1>1. /\ tr \in Result /\ tr = results[1] /\ 1 \in DOMAIN results
      /\ \A i \in DOMAIN results' : i + 1 \in DOMAIN results /\ results'[i] = results[i + 1]
  BY Taken
<1> QED  BY <1>1 DEF SpeaksOn, Result

LEMMA RegisteredHome ==
    ASSUME Typed, NEW tr \in NextResult, Take(tr), NEW s \in Session, NEW c \in Channel,
           s \in Registered(tr)[c]
    PROVE  SpeaksOn("character", s, c)
<1>1. CASE Registers(tr)
  <2>1. s \in minds[c] \/ (c = tr.channel /\ s = tr.session)
    BY <1>1 DEF Registered, Typed, TypeOK
  <2> QED  BY <1>1, <2>1, Brought DEF SpeaksOn, Registers
<1>2. CASE ~Registers(tr)
  BY <1>2 DEF Registered, SpeaksOn
<1> QED  BY <1>1, <1>2

LEMMA DiscardHome == ASSUME Typed, Homed, Discard PROVE Homed'
<1>1. PICK tr \in NextResult : Take(tr)
  BY DEF Discard
<1>2. UNCHANGED <<session, minds, turns, mind, last, outbox, at, strays, cast>>
  BY <1>1 DEF Discard, roomVars, Take
<1>3. \A v \in Voices, s \in Session, c \in Channel : SpeaksOn(v, s, c)' => SpeaksOn(v, s, c)
  BY <1>1, <1>2, Brought DEF SpeaksOn
<1> QED  BY <1>2, <1>3, HomedStays DEF Homed, CastAtHome, StraysAtHome, Typed, TypeOK

LEMMA SessionKnownHome == ASSUME Typed, Homed, SessionKnown PROVE Homed'
<1>1. PICK tr \in NextResult :
        /\ Take(tr) /\ minds' = Registered(tr)
        /\ mind' \in {mind, IF Registers(tr) /\ mind = None THEN tr.session ELSE mind}
        /\ session' = IF tr.voice = "persona" /\ session[tr.channel] = None
                      THEN [session EXCEPT ![tr.channel] = tr.session] ELSE session
  BY DEF SessionKnown
<1>2. UNCHANGED <<turns, last, outbox, at, strays, cast>>
  BY <1>1 DEF SessionKnown, Take
<1>3. ASSUME NEW v \in Voices, NEW s \in Session, NEW c \in Channel, SpeaksOn(v, s, c)'
      PROVE  Spoken(v, s, c)
  <2>1. session'[c] = s => SpeaksOn("persona", s, c)
    <3>1. session \in [Channel -> Session \cup {None}]
      BY DEF Typed, TypeOK
    <3>2. \/ session'[c] = session[c]
          \/ tr.voice = "persona" /\ c = tr.channel /\ session'[c] = tr.session
      BY <1>1, <3>1
    <3>3. tr.voice = "persona" => SpeaksOn("persona", tr.session, tr.channel)
      BY <1>1, Brought
    <3> QED  BY <3>2, <3>3 DEF SpeaksOn
  <2>2. s \in minds'[c] => SpeaksOn("character", s, c)
    BY <1>1, RegisteredHome
  <2>3. mind' = s /\ c \in CastRooms => Spoken("character", s, c)
    <3>1. CASE mind' = mind
      BY <3>1 DEF Spoken, SpeaksOn
    <3>2. CASE mind' # mind /\ mind' = s /\ c \in CastRooms
      <4>1. Registers(tr) /\ tr.session = s
        BY <1>1, <3>2
      <4>2. SpeaksOn("character", s, tr.channel) /\ tr.channel \in Channel
        BY <1>1, <4>1, Brought DEF Registers
      <4> QED  BY <3>2, <4>2 DEF Spoken
    <3> QED  BY <3>1, <3>2
  <2>4. (\E i \in DOMAIN results' : /\ results'[i].voice = v /\ results'[i].session = s
                                   /\ results'[i].channel = c) => SpeaksOn(v, s, c)
    BY <1>1, Brought
  <2>5. (\E t \in turns' : t.voice = v /\ t.session = s /\ t.channel = c) => SpeaksOn(v, s, c)
    BY <1>2 DEF SpeaksOn
  <2> QED  BY <1>3, <2>1, <2>2, <2>3, <2>4, <2>5 DEF Spoken, SpeaksOn
<1>4. /\ VoicesStay /\ outbox' \subseteq BeatType /\ StraysAtHome'
      /\ \A c \in Channel : cast'[c] => c \in CastRooms
  BY <1>2 DEF VoicesStay, Homed, CastAtHome, StraysAtHome, Typed, TypeOK
<1> QED  BY <1>2, <1>3, <1>4, HomedMoves

LEMMA TurnDoneHome == ASSUME Typed, Homed, TurnDone PROVE Homed'
<1>1. PICK tr \in NextResult :
        LET now == [session EXCEPT ![tr.channel] = OwnSession(tr)] IN
        /\ Take(tr) /\ minds' = Registered(tr)
        /\ IF tr.text THEN DrainOutbox(now, minds') ELSE UNCHANGED <<outbox, strays>>
        /\ \/ archiving[tr.channel] /\ Rotate(tr.channel)
           \/ session' = now /\ FollowUp(tr.channel, now[tr.channel])
  BY DEF TurnDone
<1> DEFINE now == [session EXCEPT ![tr.channel] = OwnSession(tr)]
<1>2. UNCHANGED <<last, cast, mind>>
  BY <1>1 DEF TurnDone, Take
<1>3. /\ tr.channel \in Channel /\ now \in [Channel -> Session \cup {None}]
      /\ \A s \in Session, c \in Channel : now[c] = s => SpeaksOn("persona", s, c)
  <2>1. /\ tr.channel \in Channel /\ session \in [Channel -> Session \cup {None}]
        /\ OwnSession(tr) \in Session \cup {None}
    BY <1>1, Brought DEF OwnSession, Typed, TypeOK
  <2>2. \A s \in Session : OwnSession(tr) = s => SpeaksOn("persona", s, tr.channel)
    BY <1>1, Brought DEF OwnSession, SpeaksOn
  <2> QED  BY <2>1, <2>2 DEF SpeaksOn
<1> HIDE DEF now
<1>4. \A s \in Session, c \in Channel : s \in minds'[c] => SpeaksOn("character", s, c)
  BY <1>1, RegisteredHome
<1>5. outbox' \subseteq outbox /\ StraysAtHome'
  <2>1. CASE tr.text
    <3>1. DrainOutbox(now, minds')
      BY <1>1, <2>1 DEF now
    <3> QED  BY <1>3, <1>4, <3>1, DrainHome
  <2>2. CASE ~tr.text
    BY <1>1, <2>2 DEF Homed, StraysAtHome
  <2> QED  BY <2>1, <2>2
<1>6. \A s \in Session, c \in Channel : session'[c] = s => SpeaksOn("persona", s, c)
  <2>1. CASE Rotate(tr.channel)
    BY <1>3, <2>1 DEF Rotate, SpeaksOn, Typed, TypeOK, Session, None
  <2>2. CASE session' = now
    BY <1>3, <2>2
  <2> QED  BY <1>1, <2>1, <2>2 DEF now
<1>7. UNCHANGED <<turns, at>> \/ \E t : Started(t) /\ Go(t)
  <2>1. CASE Rotate(tr.channel)
    BY <2>1 DEF Rotate
  <2>2. CASE FollowUp(tr.channel, now[tr.channel])
    <3>1. UNCHANGED <<turns, at>> \/ \E t \in Routes(tr.channel, pending[tr.channel], now[tr.channel]) : Go(t)
      BY <2>2 DEF FollowUp
    <3>2. /\ now[tr.channel] \in Session \cup {None}
          /\ now[tr.channel] # None => SpeaksOn("persona", now[tr.channel], tr.channel)
      BY <1>3
    <3> QED  BY <1>3, <3>1, <3>2, RoutesHome
  <2> QED  BY <1>1, <2>1, <2>2 DEF now
<1>8. VoicesStay /\ \A t \in turns' : t \in turns \/ Started(t)
  BY <1>7, GoingHome DEF VoicesStay
<1>9. ASSUME NEW v \in Voices, NEW s \in Session, NEW c \in Channel, SpeaksOn(v, s, c)'
      PROVE  Spoken(v, s, c)
  <2>0. s # None
    BY DEF Session, None
  <2>1. (\E i \in DOMAIN results' : /\ results'[i].voice = v /\ results'[i].session = s
                                   /\ results'[i].channel = c) => SpeaksOn(v, s, c)
    BY <1>1, Brought
  <2>2. (\E t \in turns' : t.voice = v /\ t.session = s /\ t.channel = c) => SpeaksOn(v, s, c)
    BY <1>8, <2>0 DEF SpeaksOn, Started
  <2>3. mind' = s /\ c \in CastRooms => SpeaksOn("character", s, c)
    BY <1>2 DEF SpeaksOn
  <2> QED  BY <1>4, <1>6, <1>9, <2>1, <2>2, <2>3 DEF Spoken, SpeaksOn
<1>10. outbox' \subseteq BeatType /\ \A c \in Channel : cast'[c] => c \in CastRooms
  BY <1>2, <1>5 DEF Homed, CastAtHome, Typed, TypeOK
<1> QED  BY <1>2, <1>5, <1>8, <1>9, <1>10, HomedMoves DEF Started

LEMMA NextHome == ASSUME Typed, Homed, [Next]_vars PROVE Homed'
BY TalkHome, QuietHome, AppearsHome, EndsHome, ForgetHome, DiscardHome, SessionKnownHome,
   TurnDoneHome DEF Next

LEMMA StartHome == Init => Homed
BY DEF Init, Homed, AtHome, CastAtHome, StraysAtHome, SpeaksOn, Session, None

\* Through reconnects, host restarts, archives and failed turns, no two rooms
\* share a session and no room has a session of the character. A beat posted to
\* another room than the one it was said in is one of a character that another
\* room may cast too: none of the persona's, and none when one room at most casts
\* the character.
THEOREM RoomsStayApart == Spec => []RoomsApart
<1>1. Typed /\ Homed => RoomsApart
  <2> SUFFICES ASSUME Typed, Homed, NEW c \in Channel, NEW d \in Channel
               PROVE  /\ session[c] # None /\ c # d => session[c] # session[d]
                      /\ session[c] \notin minds[d]
    BY DEF RoomsApart, Homed, StraysAtHome
  <2>1. session[c] = None => session[c] \notin minds[d]
    BY DEF Typed, TypeOK, Session, None
  <2>2. CASE session[c] # None
    <3>1. session[c] \in Session /\ SpeaksOn("persona", session[c], c)
      BY <2>2 DEF SpeaksOn, Typed, TypeOK
    <3>2. at[session[c]].room = c /\ at[session[c]].voice = "persona"
      BY <3>1 DEF Homed, AtHome, Voices
    <3>3. session[d] = session[c] => at[session[c]].room = d
      BY <3>1 DEF Homed, AtHome, Voices, SpeaksOn
    <3>4. session[c] \in minds[d] => at[session[c]].voice = "character"
      BY <3>1 DEF Homed, AtHome, Voices, SpeaksOn
    <3> QED  BY <3>2, <3>3, <3>4
  <2> QED  BY <2>1, <2>2
<1>2. Typed /\ Homed /\ [Next]_vars => Homed'
  BY NextHome
<1> QED  BY <1>1, <1>2, StartHome, AlwaysTyped, PTL DEF Spec

----------------------------------------------------------------------------
(* A room has one turn at a time *)

\* Goroutine t and result i are of room c and of this connection.
Runs(t, c) == t.gen = gen /\ t.channel = c
Waits(i, c) == results[i].gen = gen /\ results[i].channel = c
Done(i, c) == Waits(i, c) /\ results[i].kind = "done"

\* The room is busy while one goroutine runs for it or its answer waits, which
\* is the last result of the room.
OneAtATime(c) ==
    /\ \A t, u \in turns : Runs(t, c) /\ Runs(u, c) => t = u
    /\ \A t \in turns, i \in DOMAIN results : Runs(t, c) => ~Done(i, c)
    /\ \A i, j \in DOMAIN results : Done(i, c) /\ Waits(j, c) => j <= i
    /\ busy[c] => (\E t \in turns : Runs(t, c)) \/ (\E i \in DOMAIN results : Done(i, c))
    /\ \A t \in turns : Runs(t, c) => busy[c]
    /\ \A i \in DOMAIN results : Waits(i, c) => busy[c]

\* Nothing that runs or waits is younger than the connection, and a room that
\* nobody serves is not busy.
Served ==
    /\ \A t \in turns : t.gen <= gen
    /\ \A i \in DOMAIN results : results[i].gen <= gen
    /\ ~conn => \A c \in Channel : ~busy[c]
    /\ conn => \A c \in Channel : OneAtATime(c)

LEMMA QuietServed ==
    ASSUME Served, UNCHANGED <<conn, gen, busy, turns, results>>
    PROVE  Served'
BY DEF Served, OneAtATime, Runs, Waits, Done

\* A room that nothing runs or waits for, and one where only goroutine t runs.
LEMMA IdleServed ==
    ASSUME NEW c, \A t \in turns' : ~Runs(t, c)', \A i \in DOMAIN results' : ~Waits(i, c)',
           ~busy'[c]
    PROVE  OneAtATime(c)'
BY DEF OneAtATime, Done

LEMMA AloneServed ==
    ASSUME NEW c, NEW t \in turns', Runs(t, c)', \A u \in turns' : Runs(u, c)' => u = t,
           \A i \in DOMAIN results' : ~Done(i, c)', busy'[c]
    PROVE  OneAtATime(c)'
BY DEF OneAtATime

\* A turn of an idle room starts.
LEMMA StartServed ==
    ASSUME Typed, Served, conn, NEW c \in Channel, ~busy[c], busy' = [busy EXCEPT ![c] = TRUE],
           NEW t, turns' = turns \cup {t}, t.gen = gen, t.channel = c,
           UNCHANGED <<conn, gen, results>>
    PROVE  Served'
<1>1. gen \in Nat
  BY PersonaGatewayAssumption DEF Typed, TypeOK
<1>2. ASSUME NEW d \in Channel PROVE OneAtATime(d)'
  <2>1. OneAtATime(d) /\ OneAtATime(c)
    BY DEF Served
  <2>2. \A u : Runs(u, d)' <=> Runs(u, d)
    BY DEF Runs
  <2>3. \A i : (Waits(i, d)' <=> Waits(i, d)) /\ (Done(i, d)' <=> Done(i, d))
    BY DEF Waits, Done
  <2>4. CASE d # c
    <3>1. busy'[d] = busy[d]
      BY <2>4 DEF Typed, TypeOK
    <3>2. ~Runs(t, d)
      BY <2>4 DEF Runs
    <3>3. \A u \in turns' : Runs(u, d)' => u \in turns
      BY <2>2, <3>2
    <3> QED  BY <2>1, <2>2, <2>3, <3>1, <3>3 DEF OneAtATime
  <2>5. CASE d = c
    <3>1. (\A u \in turns : ~Runs(u, c)) /\ \A i \in DOMAIN results : ~Waits(i, c)
      BY <2>1 DEF OneAtATime
    <3>2. t \in turns' /\ busy'[c] /\ Runs(t, c)'
      BY DEF Typed, TypeOK, Runs
    <3>3. \A u \in turns' : Runs(u, c)' => u = t
      BY <2>2, <2>5, <3>1
    <3>4. \A i \in DOMAIN results' : ~Done(i, c)'
      BY <2>3, <2>5, <3>1 DEF Done
    <3> QED  BY <2>5, <3>2, <3>3, <3>4, AloneServed
  <2> QED  BY <2>4, <2>5
<1> QED  BY <1>1, <1>2 DEF Served

\* A goroutine reports: its session, and runs on, or its answer.
LEMMA ReportServed ==
    ASSUME Typed, Served, NEW t \in turns, NEW kind \in {"session", "done"},
           NEW s \in Session \cup {None}, NEW text \in BOOLEAN, Report(kind, t, s, text),
           UNCHANGED <<conn, gen, busy>>,
           \/ kind = "done" /\ turns' = turns \ {t}
           \/ kind = "session" /\ \E u : /\ turns' = (turns \ {t}) \cup {u}
                                         /\ u.gen = t.gen /\ u.channel = t.channel
    PROVE  Served'
<1>0. PICK n \in Nat : n = Len(results) + 1
  BY DEF Typed, TypeOK
<1>1. /\ Len(results) \in Nat /\ DOMAIN results = 1 .. Len(results) /\ DOMAIN results' = 1 .. n
      /\ results'[n].kind = kind /\ results'[n].gen = t.gen /\ results'[n].channel = t.channel
      /\ \A i \in 1 .. Len(results) : results'[i] = results[i]
      /\ n \notin DOMAIN results /\ \A i \in DOMAIN results : i <= n
      /\ \A i \in DOMAIN results' : i \in DOMAIN results \/ i = n
      /\ \A i \in DOMAIN results : i \in DOMAIN results'
      /\ n \in DOMAIN results' /\ n \in Nat
  <2>1. TurnTyped(t)
    BY DEF Typed
  <2> QED  BY <1>0, <2>1, Reported
<1>2. t.gen <= gen /\ \A i \in DOMAIN results' : results'[i].gen <= gen
  BY <1>1 DEF Served
<1>3. \A u \in turns' : u.gen <= gen
  BY <1>2 DEF Served
<1>4. ASSUME NEW c \in Channel, conn PROVE OneAtATime(c)'
  <2>1. OneAtATime(c)
    BY <1>4 DEF Served
  <2>2. \A u : Runs(u, c)' <=> Runs(u, c)
    BY DEF Runs
  <2>3. \A i \in DOMAIN results : (Waits(i, c)' <=> Waits(i, c)) /\ (Done(i, c)' <=> Done(i, c))
    BY <1>1 DEF Waits, Done
  <2>4. (results[n].gen = gen)' <=> t.gen = gen
    BY <1>1
  <2>5. (results[n].channel = c)' <=> t.channel = c
    BY <1>1
  <2>6. (Waits(n, c)' <=> Runs(t, c)) /\ (Done(n, c)' <=> Runs(t, c) /\ kind = "done")
    BY <1>1, <2>4, <2>5 DEF Waits, Done, Runs
  <2>7. CASE ~Runs(t, c)
    <3>1. /\ \A u \in turns' : Runs(u, c)' => u \in turns
          /\ \A u \in turns : Runs(u, c) => u \in turns'
      BY <2>2, <2>7 DEF Runs
    <3>2. \A i \in DOMAIN results' : Waits(i, c)' => i \in DOMAIN results
      BY <1>1, <2>6, <2>7
    <3>3. \A i \in DOMAIN results' : Done(i, c)' => i \in DOMAIN results
      BY <1>1, <2>6, <2>7
    <3>4. busy'[c] = busy[c]
      OBVIOUS
    <3>5. busy'[c] => (\E u \in turns' : Runs(u, c)') \/ (\E i \in DOMAIN results' : Done(i, c)')
      BY <1>1, <2>1, <2>2, <2>3, <3>1, <3>4 DEF OneAtATime
    <3>6. \A i, j \in DOMAIN results' : Done(i, c)' /\ Waits(j, c)' => j <= i
      BY <2>1, <2>3, <3>2, <3>3 DEF OneAtATime
    <3>7. /\ \A u, v \in turns' : Runs(u, c)' /\ Runs(v, c)' => u = v
          /\ \A u \in turns', i \in DOMAIN results' : Runs(u, c)' => ~Done(i, c)'
          /\ \A u \in turns' : Runs(u, c)' => busy'[c]
          /\ \A i \in DOMAIN results' : Waits(i, c)' => busy'[c]
      BY <2>1, <2>2, <2>3, <3>1, <3>2, <3>3, <3>4 DEF OneAtATime
    <3> QED  BY <3>5, <3>6, <3>7 DEF OneAtATime
  <2>8. CASE Runs(t, c)
    <3>1. /\ \A u \in turns : Runs(u, c) => u = t
          /\ \A i \in DOMAIN results : ~Done(i, c)
          /\ busy[c] /\ busy'[c]
      BY <2>1, <2>8 DEF OneAtATime
    <3>2. CASE kind = "done" /\ turns' = turns \ {t}
      <4>1. \A u \in turns' : ~Runs(u, c)'
        BY <2>2, <3>1, <3>2
      <4>2. Done(n, c)' /\ \A i \in DOMAIN results' : Done(i, c)' => i = n
        BY <1>1, <2>3, <2>6, <2>8, <3>1, <3>2
      <4>3. \A i, j \in DOMAIN results' : Done(i, c)' /\ Waits(j, c)' => j <= i
        BY <1>1, <4>2
      <4> QED  BY <1>1, <3>1, <4>1, <4>2, <4>3 DEF OneAtATime
    <3>3. CASE kind = "session"
      <4>1. PICK u : turns' = (turns \ {t}) \cup {u} /\ u.gen = t.gen /\ u.channel = t.channel
        BY <3>3
      <4>2. u \in turns' /\ Runs(u, c)' /\ \A v \in turns' : Runs(v, c)' => v = u
        BY <2>2, <2>8, <3>1, <4>1 DEF Runs
      <4>3. \A i \in DOMAIN results' : ~Done(i, c)'
        BY <1>1, <2>3, <2>6, <3>1, <3>3
      <4> QED  BY <3>1, <4>2, <4>3, AloneServed
    <3> QED  BY <3>2, <3>3
  <2> QED  BY <2>7, <2>8
<1> QED  BY <1>2, <1>3, <1>4 DEF Served

\* The loop takes a result that is no answer of room d.
LEMMA Shifted ==
    ASSUME Typed, Served, NEW tr \in NextResult, Take(tr), NEW d \in Channel,
           ~(tr.gen = gen /\ tr.channel = d /\ tr.kind = "done"), busy'[d] = busy[d],
           turns \subseteq turns', \A u \in turns' : Runs(u, d) => u \in turns
    PROVE  OneAtATime(d)'
<1>1. /\ conn /\ tr = results[1] /\ 1 \in DOMAIN results
      /\ \A i \in DOMAIN results' : i + 1 \in DOMAIN results /\ results'[i] = results[i + 1] /\ i \in Nat
      /\ \A i \in DOMAIN results : i # 1 => i - 1 \in DOMAIN results' /\ i \in Nat
      /\ UNCHANGED gen
  <2>1. results' \in Seq(Result)
    BY Taken
  <2>2. \A i \in DOMAIN results' : i \in Nat
    BY <2>1
  <2> QED  BY <2>2, Taken DEF Take
<1>2. OneAtATime(d)
  BY <1>1 DEF Served
<1>3. \A u : Runs(u, d)' <=> Runs(u, d)
  BY <1>1 DEF Runs
<1>4. \A i \in DOMAIN results' : /\ i + 1 \in DOMAIN results
                                 /\ Waits(i, d)' <=> Waits(i + 1, d)
                                 /\ Done(i, d)' <=> Done(i + 1, d)
  BY <1>1 DEF Waits, Done
<1>5. ~Done(1, d)
  BY <1>1 DEF Done, Waits
<1>6. \A i \in DOMAIN results : Done(i, d) => i - 1 \in DOMAIN results' /\ Done(i - 1, d)'
  <2>1. ASSUME NEW i \in DOMAIN results, Done(i, d)
        PROVE  i - 1 \in DOMAIN results' /\ Done(i - 1, d)'
    <3>1. i - 1 \in DOMAIN results' /\ (i - 1) + 1 = i
      BY <1>1, <1>5, <2>1
    <3> QED  BY <1>4, <2>1, <3>1
  <2> QED  BY <2>1
<1>7. \A i, j \in DOMAIN results' : Done(i, d)' /\ Waits(j, d)' => j <= i
  <2>1. ASSUME NEW i \in DOMAIN results', NEW j \in DOMAIN results', Done(i, d)', Waits(j, d)'
        PROVE  j <= i
    <3>1. j + 1 <= i + 1
      BY <1>2, <1>4, <2>1 DEF OneAtATime
    <3> QED  BY <1>1, <3>1
  <2> QED  BY <2>1
<1>8. busy'[d] => (\E u \in turns' : Runs(u, d)') \/ (\E i \in DOMAIN results' : Done(i, d)')
  BY <1>2, <1>3, <1>6 DEF OneAtATime
<1>9. /\ \A u, v \in turns' : Runs(u, d)' /\ Runs(v, d)' => u = v
      /\ \A u \in turns', i \in DOMAIN results' : Runs(u, d)' => ~Done(i, d)'
      /\ \A u \in turns' : Runs(u, d)' => busy'[d]
      /\ \A i \in DOMAIN results' : Waits(i, d)' => busy'[d]
  BY <1>2, <1>3, <1>4 DEF OneAtATime
<1> QED  BY <1>7, <1>8, <1>9 DEF OneAtATime

\* What is left in the queue is not younger than the connection.
LEMMA StillOld ==
    ASSUME Typed, Served, NEW tr \in NextResult, Take(tr)
    PROVE  \A i \in DOMAIN results' : results'[i].gen <= gen'
BY Taken DEF Served, Take

LEMMA TakeServed ==
    ASSUME Typed, Served, NEW tr \in NextResult, Take(tr), ~(tr.gen = gen /\ tr.kind = "done"),
           UNCHANGED <<busy, turns>>
    PROVE  Served'
<1>1. \A d \in Channel : OneAtATime(d)'
  BY Shifted
<1>2. UNCHANGED gen /\ conn'
  BY Taken DEF Take
<1> QED  BY <1>1, <1>2, StillOld DEF Served

\* The loop takes the answer of room c: the room is idle, or its follow-up
\* starts.
LEMMA AnswerServed ==
    ASSUME Typed, Served, NEW tr \in NextResult, Take(tr), tr.gen = gen, tr.kind = "done",
           NEW c \in Channel, tr.channel = c,
           \/ UNCHANGED turns /\ busy' = [busy EXCEPT ![c] = FALSE]
           \/ /\ \E t : turns' = turns \cup {t} /\ t.gen = gen /\ t.channel = c
              /\ busy' = [busy EXCEPT ![c] = TRUE]
    PROVE  Served'
<1>1. /\ conn /\ tr = results[1] /\ 1 \in DOMAIN results /\ UNCHANGED <<conn, gen>>
      /\ \A i \in DOMAIN results' : i + 1 \in DOMAIN results /\ results'[i] = results[i + 1] /\ i \in Nat
      /\ gen \in Nat /\ \A i \in DOMAIN results' : i >= 1
  <2>1. results' \in Seq(Result) /\ gen \in Nat
    BY Taken, PersonaGatewayAssumption DEF Typed, TypeOK
  <2>2. \A i \in DOMAIN results' : i \in Nat /\ i >= 1
    BY <2>1
  <2> QED  BY <2>1, <2>2, Taken DEF Take
<1>2. busy \in [Channel -> BOOLEAN]
  BY DEF Typed, TypeOK
<1>3. ASSUME NEW d \in Channel, d # c PROVE OneAtATime(d)'
  <2>1. busy'[d] = busy[d]
    BY <1>2, <1>3
  <2>2. turns \subseteq turns' /\ \A u \in turns' : Runs(u, d) => u \in turns
    BY <1>3 DEF Runs
  <2> QED  BY <1>3, <2>1, <2>2, Shifted
<1>4. OneAtATime(c)'
  <2>1. Done(1, c) /\ OneAtATime(c)
    BY <1>1 DEF Done, Waits, Served
  <2>2. (\A u \in turns : ~Runs(u, c)) /\ \A j \in DOMAIN results : Waits(j, c) => j <= 1
    BY <1>1, <2>1 DEF OneAtATime
  <2>3. \A i \in DOMAIN results' : ~Waits(i, c)'
    <3>1. ASSUME NEW i \in DOMAIN results', Waits(i, c)' PROVE FALSE
      <4>1. i + 1 \in DOMAIN results /\ Waits(i + 1, c)
        BY <1>1, <3>1 DEF Waits
      <4> QED  BY <1>1, <2>2, <4>1
    <3> QED  BY <3>1
  <2>4. \A u : Runs(u, c)' <=> Runs(u, c)
    BY <1>1 DEF Runs
  <2>5. CASE UNCHANGED turns /\ busy' = [busy EXCEPT ![c] = FALSE]
    <3>1. ~busy'[c] /\ \A u \in turns' : ~Runs(u, c)'
      BY <1>2, <2>2, <2>4, <2>5
    <3> QED  BY <2>3, <3>1, IdleServed
  <2>6. CASE /\ \E t : turns' = turns \cup {t} /\ t.gen = gen /\ t.channel = c
             /\ busy' = [busy EXCEPT ![c] = TRUE]
    <3>1. PICK t : turns' = turns \cup {t} /\ t.gen = gen /\ t.channel = c
      BY <2>6
    <3>2. t \in turns' /\ Runs(t, c)' /\ busy'[c]
      BY <1>2, <2>4, <2>6, <3>1 DEF Runs
    <3>3. \A u \in turns' : Runs(u, c)' => u = t
      BY <2>2, <2>4, <3>1
    <3>4. \A i \in DOMAIN results' : ~Done(i, c)'
      BY <2>3 DEF Done
    <3> QED  BY <3>2, <3>3, <3>4, AloneServed
  <2> QED  BY <2>5, <2>6
<1>5. \A u \in turns' : u.gen <= gen
  BY <1>1 DEF Served
<1> QED  BY <1>1, <1>3, <1>4, <1>5, StillOld DEF Served

LEMMA TalkServed == ASSUME Typed, Served, HumanSpeaks \/ PersonaSpeaks PROVE Served'
<1>1. conn /\ UNCHANGED <<conn, gen, results>>
  BY DEF HumanSpeaks, PersonaSpeaks, Frame
<1>2. CASE UNCHANGED <<busy, turns>>
  BY <1>1, <1>2, QuietServed
<1>3. CASE ~UNCHANGED <<busy, turns>>
  <2>0. PICK c \in Channel : \E m, spent, base : Hear(c, m, spent, base)
    BY <1>3 DEF HumanSpeaks, PersonaSpeaks
  <2>1. PICK m, spent, base : Hear(c, m, spent, base)
    BY <2>0
  <2>2. /\ ~busy[c] /\ busy' = [busy EXCEPT ![c] = TRUE]
        /\ \E t \in Routes(c, m, session[c]) : Go(t)
    BY <1>3, <2>1 DEF Hear
  <2>3. session[c] \in Session \cup {None}
    BY DEF Typed, TypeOK
  <2>4. PICK t \in Routes(c, m, session[c]) : turns' = turns \cup {t}
    BY <2>2 DEF Go
  <2>5. t.gen = gen /\ t.channel = c
    BY <2>3, Routed
  <2> QED  BY <1>1, <2>2, <2>4, <2>5, StartServed
<1> QED  BY <1>2, <1>3

LEMMA ArchiveServed == ASSUME Typed, Served, ~EarlyArchive, Archive PROVE Served'
<1>1. conn /\ UNCHANGED <<conn, gen, results>> /\ busy \in [Channel -> BOOLEAN]
  BY DEF Archive, Frame, Typed, TypeOK
<1>2. PICK c \in Channel :
         \/ ~busy[c] /\ Rotate(c)
         \/ /\ busy' = [busy EXCEPT ![c] = TRUE]
            /\ IF busy[c] THEN UNCHANGED <<turns, at>>
                          ELSE Go(Turn(c, "persona", session[c]))
  BY DEF Archive
<1>3. CASE busy[c] \/ (~busy[c] /\ Rotate(c))
  <2>1. UNCHANGED turns /\ \E b \in BOOLEAN : b = busy[c] /\ busy' = [busy EXCEPT ![c] = b]
    BY <1>1, <1>2, <1>3 DEF Rotate
  <2>2. [busy EXCEPT ![c] = busy[c]] = busy
    BY <1>1
  <2> QED  BY <1>1, <2>1, <2>2, QuietServed
<1>4. CASE ~busy[c] /\ ~Rotate(c)
  <2> DEFINE t == Turn(c, "persona", session[c])
  <2>1. turns' = turns \cup {t} /\ busy' = [busy EXCEPT ![c] = TRUE]
    BY <1>2, <1>4 DEF Go
  <2>2. t.gen = gen /\ t.channel = c
    BY NewTurns
  <2> HIDE DEF t
  <2> QED  BY <1>1, <1>4, <2>1, <2>2, StartServed
<1> QED  BY <1>3, <1>4

LEMMA TurnDoneServed == ASSUME Typed, Served, TurnDone PROVE Served'
<1>1. PICK tr \in NextResult :
        /\ Take(tr) /\ tr.gen = gen /\ tr.kind = "done"
        /\ \/ Rotate(tr.channel)
           \/ \E s \in Session \cup {None} : FollowUp(tr.channel, s)
  <2>1. PICK tr \in NextResult :
          /\ Take(tr) /\ ~Stale(tr) /\ tr.kind = "done"
          /\ \/ Rotate(tr.channel)
             \/ FollowUp(tr.channel, [session EXCEPT ![tr.channel] = OwnSession(tr)][tr.channel])
    BY DEF TurnDone
  <2>2. tr.channel \in Channel /\ OwnSession(tr) \in Session \cup {None}
    BY <2>1, Taken, OwnTyped
  <2>3. [session EXCEPT ![tr.channel] = OwnSession(tr)][tr.channel] = OwnSession(tr)
    BY <2>2 DEF Typed, TypeOK
  <2> QED  BY <2>1, <2>2, <2>3 DEF Stale
<1>2. PICK c \in Channel : tr.channel = c
  BY <1>1, Taken, OwnTyped
<1>3. CASE Rotate(c)
  BY <1>1, <1>2, <1>3, AnswerServed DEF Rotate
<1>4. CASE ~Rotate(c)
  <2>1. PICK s \in Session \cup {None} : FollowUp(c, s)
    BY <1>1, <1>2, <1>4
  <2> DEFINE answered == pending[c] # NoMessage /\ ~Skips(c, pending[c])
  <2>2. /\ busy' = [busy EXCEPT ![c] = answered]
        /\ \/ answered /\ \E t \in Routes(c, pending[c], s) : Go(t)
           \/ ~answered /\ UNCHANGED turns
        /\ answered \in BOOLEAN
    BY <2>1 DEF FollowUp
  <2> HIDE DEF answered
  <2>3. CASE ~answered
    <3>1. UNCHANGED turns /\ busy' = [busy EXCEPT ![c] = FALSE]
      BY <2>2, <2>3
    <3> QED  BY <1>1, <1>2, <3>1, AnswerServed
  <2>4. CASE answered
    <3>1. PICK t \in Routes(c, pending[c], s) : turns' = turns \cup {t}
      BY <2>2, <2>4 DEF Go
    <3>2. t.gen = gen /\ t.channel = c
      BY Routed
    <3>3. busy' = [busy EXCEPT ![c] = TRUE]
      BY <2>2, <2>4
    <3> QED  BY <1>1, <1>2, <3>1, <3>2, <3>3, AnswerServed
  <2> QED  BY <2>3, <2>4
<1> QED  BY <1>3, <1>4

LEMMA ConnectionServed ==
    ASSUME Typed, Served, Connect \/ Disconnect \/ HostRestart PROVE Served'
<1>0. gen \in Nat
  BY PersonaGatewayAssumption DEF Typed, TypeOK
<1>1. CASE Connect
  <2>1. conn' /\ gen' = gen + 1 /\ UNCHANGED <<busy, turns, results>> /\ \A c \in Channel : ~busy[c]
    BY <1>1 DEF Connect, roomVars, Served
  <2>2. (\A t \in turns' : t.gen <= gen) /\ \A i \in DOMAIN results' : results'[i].gen <= gen
    BY <2>1 DEF Served
  <2>3. (\A t \in turns : t.gen \in Nat) /\ \A i \in DOMAIN results : results[i].gen \in Nat
    <3>1. \A i \in DOMAIN results : results[i] \in Result
      BY DEF Typed, TypeOK
    <3>2. \A r \in Result : r.gen \in Nat
      BY PersonaGatewayAssumption DEF Result
    <3>3. \A t \in turns : t.gen \in Nat
      BY PersonaGatewayAssumption DEF Typed, TypeOK
    <3> QED  BY <3>1, <3>2, <3>3
  <2>4. (\A t \in turns : t.gen # gen') /\ \A i \in DOMAIN results' : results'[i].gen # gen'
    BY <1>0, <2>1, <2>2, <2>3
  <2>5. \A c \in Channel : OneAtATime(c)'
    BY <2>1, <2>4 DEF OneAtATime, Runs, Waits, Done
  <2>6. (\A t \in turns' : t.gen <= gen') /\ \A i \in DOMAIN results' : results'[i].gen <= gen'
    BY <1>0, <2>1, <2>2, <2>3
  <2> QED  BY <2>1, <2>5, <2>6 DEF Served
<1>2. CASE Disconnect
  <2>1. ~conn' /\ UNCHANGED <<gen, turns, results>> /\ \A c \in Channel : ~busy'[c]
    BY <1>2 DEF Disconnect, ForgetRooms
  <2> QED  BY <2>1 DEF Served
<1>3. CASE HostRestart
  <2>1. ~conn' /\ turns' = {} /\ results' = <<>> /\ \A c \in Channel : ~busy'[c]
    BY <1>3 DEF HostRestart, ForgetRooms
  <2> QED  BY <2>1 DEF Served
<1> QED  BY <1>1, <1>2, <1>3

LEMMA ReportsServed == ASSUME Typed, Served, SessionAppears \/ TurnEnds PROVE Served'
<1>1. CASE SessionAppears
  <2>1. PICK t \in turns :
          /\ turns' = (turns \ {t}) \cup {[t EXCEPT !.session = last']}
          /\ Report("session", t, last', FALSE)
    BY <1>1 DEF SessionAppears
  <2>2. last' \in Session \cup {None} /\ UNCHANGED <<conn, gen, busy>>
    BY <1>1, PersonaGatewayAssumption DEF SessionAppears, roomVars, Typed, TypeOK, Session
  <2>3. PICK u : u = [t EXCEPT !.session = last']
    OBVIOUS
  <2>4. u.gen = t.gen /\ u.channel = t.channel
    BY <2>3 DEF Typed, TurnTyped, TurnRecord
  <2> QED  BY <2>1, <2>2, <2>3, <2>4, ReportServed
<1>2. CASE TurnEnds
  <2>1. PICK t \in turns :
          /\ turns' = turns \ {t}
          /\ \E s \in Session \cup {None}, text \in BOOLEAN : Report("done", t, s, text)
    BY <1>2 DEF TurnEnds, Typed, TurnTyped
  <2>2. UNCHANGED <<conn, gen, busy>>
    BY <1>2 DEF TurnEnds, roomVars
  <2> QED  BY <2>1, <2>2, ReportServed
<1> QED  BY <1>1, <1>2

LEMMA NextServed == ASSUME Typed, Served, ~EarlyArchive, Next PROVE Served'
<1>1. CASE HumanSpeaks \/ PersonaSpeaks
  BY <1>1, TalkServed
<1>2. CASE Archive
  BY <1>2, ArchiveServed
<1>3. CASE SessionAppears \/ TurnEnds
  BY <1>3, ReportsServed
<1>4. CASE TurnDone
  BY <1>4, TurnDoneServed
<1>5. CASE Connect \/ Disconnect \/ HostRestart
  BY <1>5, ConnectionServed
<1>6. CASE Discard
  <2>1. PICK tr \in NextResult : Take(tr) /\ tr.gen # gen
    BY <1>6 DEF Discard, Stale
  <2>2. UNCHANGED <<busy, turns>>
    BY <1>6 DEF Discard, roomVars
  <2> QED  BY <2>1, <2>2, TakeServed
<1>7. CASE SessionKnown
  <2>1. PICK tr \in NextResult : Take(tr) /\ tr.kind # "done"
    BY <1>7 DEF SessionKnown
  <2>2. UNCHANGED <<busy, turns>>
    BY <1>7 DEF SessionKnown
  <2> QED  BY <2>1, <2>2, TakeServed
<1>8. CASE CastChanges \/ RefreshRooms \/ ResumeProgram \/ RoomSay \/ Drain
  <2>1. UNCHANGED <<conn, gen, busy, turns, results>>
    BY <1>8 DEF CastChanges, RefreshRooms, ResumeProgram, RoomSay, Drain, roomVars
  <2> QED  BY <2>1, QuietServed
<1> QED  BY <1>1, <1>2, <1>3, <1>4, <1>5, <1>6, <1>7, <1>8 DEF Next

LEMMA AlwaysServed == ASSUME ~EarlyArchive PROVE Spec => []Served
<1>1. Init => Served
  BY DEF Init, Served
<1>2. ASSUME Typed, Served, [Next]_vars PROVE Served'
  <2>1. CASE UNCHANGED vars
    BY <1>2, <2>1, QuietServed DEF vars, roomVars
  <2> QED  BY <1>2, <2>1, NextServed
<1> QED  BY <1>1, <1>2, AlwaysTyped, PTL DEF Spec

\* Through archives, reconnects, host restarts and the follow-ups of the
\* messages that waited, a room is busy exactly while one turn of it runs or its
\* answer waits, when an archive finds every first turn with its session.
THEOREM OneTurnAtATime == ASSUME ~EarlyArchive PROVE Spec => []OneTurn
<1>1. Typed /\ Served => OneTurn
  <2> SUFFICES ASSUME Typed, Served, conn, NEW c \in Channel
               PROVE  Cardinality({t \in turns : t.gen = gen /\ t.channel = c})
                      + Cardinality({i \in DOMAIN results : /\ results[i].kind = "done"
                                                            /\ results[i].gen = gen
                                                            /\ results[i].channel = c})
                      = (IF busy[c] THEN 1 ELSE 0)
    BY DEF OneTurn
  <2> DEFINE R == {t \in turns : t.gen = gen /\ t.channel = c}
             D == {i \in DOMAIN results : /\ results[i].kind = "done" /\ results[i].gen = gen
                                          /\ results[i].channel = c}
  <2>1. OneAtATime(c) /\ busy[c] \in BOOLEAN
    BY DEF Served, Typed, TypeOK
  <2>2. \A t \in turns : Runs(t, c) <=> t \in R
    BY DEF Runs
  <2>3. \A i \in DOMAIN results : (Done(i, c) <=> i \in D) /\ (Done(i, c) => Waits(i, c))
    BY DEF Done, Waits
  <2>4. \A i, j \in D : i = j
    <3>1. DOMAIN results \subseteq Nat
      BY DEF Typed, TypeOK
    <3>2. \A i, j \in D : i <= j /\ j <= i
      BY <2>1, <2>3 DEF OneAtATime
    <3> QED  BY <3>1, <3>2
  <2>5. \A t, u \in R : t = u
    BY <2>1, <2>2 DEF OneAtATime
  <2>6. R \subseteq turns /\ D \subseteq DOMAIN results
    OBVIOUS
  <2> HIDE DEF R, D
  <2>7. (R = {} \/ D = {}) /\ (busy[c] <=> R # {} \/ D # {})
    BY <2>1, <2>2, <2>3, <2>6 DEF OneAtATime
  <2>8. (R = {} \/ \E t : R = {t}) /\ (D = {} \/ \E i : D = {i})
    BY <2>4, <2>5
  <2>9. Cardinality(R) + Cardinality(D) = (IF busy[c] THEN 1 ELSE 0)
    <3>1. /\ R = {} => Cardinality(R) = 0
          /\ D = {} => Cardinality(D) = 0
      BY FS_EmptySet
    <3>2. R # {} => Cardinality(R) = 1
      BY <2>8, FS_Singleton
    <3>3. D # {} => Cardinality(D) = 1
      BY <2>8, FS_Singleton
    <3> QED  BY <2>7, <3>1, <3>2, <3>3
  <2> QED  BY <2>9 DEF R, D
<1> QED  BY <1>1, AlwaysTyped, AlwaysServed, PTL

----------------------------------------------------------------------------
(* A room keeps its session *)

\* A goroutine or a result of room c speaks for the persona on session s, on this
\* connection; the sessions that the room has or is about to learn.
Brings(x, s, c) == x.gen = gen /\ x.channel = c /\ x.voice = "persona" /\ x.session = s
Knows(s, c) ==
    \/ session[c] = s
    \/ \E t \in turns : Brings(t, s, c)
    \/ \E i \in DOMAIN results : Brings(results[i], s, c)

\* They are one session, and none at all while a first turn has no session yet.
OneSession(c) ==
    /\ \A s, r \in Session : Knows(s, c) /\ Knows(r, c) => s = r
    /\ \A t \in turns : Brings(t, None, c) => \A s \in Session : ~Knows(s, c)

Kept == conn => \A c \in Channel : OneSession(c)

LEMMA KeptStays ==
    ASSUME NEW c, OneSession(c), \A s \in Session : Knows(s, c)' => Knows(s, c),
           \A t \in turns' : Brings(t, None, c)' => \/ t \in turns /\ Brings(t, None, c)
                                                   \/ \A s \in Session : ~Knows(s, c)'
    PROVE  OneSession(c)'
BY DEF OneSession

\* A goroutine of room c starts on a session that the room knows, or on none
\* when it knows none.
Fits(t, c) ==
    t.voice = "persona" => IF t.session = None THEN \A s \in Session : ~Knows(s, c)
                                              ELSE Knows(t.session, c)

LEMMA StartKept ==
    ASSUME Kept, conn, UNCHANGED <<conn, gen, results>>,
           \A c \in Channel : session'[c] = session[c],
           NEW d \in Channel, NEW t, t.channel = d, Fits(t, d), turns' = turns \cup {t}
    PROVE  Kept'
<1> SUFFICES ASSUME NEW c \in Channel PROVE OneSession(c)'
  BY DEF Kept
<1>1. OneSession(c) /\ None \notin Session
  BY DEF Kept, Session, None
<1>2. \A x, s : Brings(x, s, c)' <=> Brings(x, s, c)
  BY DEF Brings
<1>3. \A s \in Session : Brings(t, s, c) => Knows(s, c)
  BY <1>1 DEF Brings, Fits
<1>4. \A i, s : Brings(results[i], s, c)' <=> Brings(results[i], s, c)
  BY DEF Brings
<1>5. \A s \in Session : Knows(s, c)' => Knows(s, c)
  BY <1>2, <1>3, <1>4 DEF Knows
<1>6. \A u \in turns' : Brings(u, None, c)' => \/ u \in turns /\ Brings(u, None, c)
                                               \/ \A s \in Session : ~Knows(s, c)'
  <2>1. Brings(t, None, c) => \A s \in Session : ~Knows(s, c)
    BY DEF Brings, Fits
  <2> QED  BY <1>2, <1>5, <2>1
<1> QED  BY <1>1, <1>5, <1>6, KeptStays

LEMMA QuietKept ==
    ASSUME Kept, UNCHANGED <<conn, gen, turns, results>>,
           \A c \in Channel : session'[c] \in {session[c], None}
    PROVE  Kept'
<1> SUFFICES ASSUME NEW c \in Channel, conn PROVE OneSession(c)'
  BY DEF Kept
<1>1. OneSession(c) /\ None \notin Session
  BY DEF Kept, Session, None
<1>2. \A x, s : Brings(x, s, c)' <=> Brings(x, s, c)
  BY DEF Brings
<1>3. \A i, s : Brings(results[i], s, c)' <=> Brings(results[i], s, c)
  BY DEF Brings
<1>4. \A s \in Session : Knows(s, c)' => Knows(s, c)
  BY <1>1, <1>2, <1>3 DEF Knows
<1> QED  BY <1>1, <1>2, <1>4, KeptStays

\* What an idle room knows is its own session.
LEMMA IdleKnows ==
    ASSUME Served, conn, NEW c \in Channel, ~busy[c], NEW s
    PROVE  Knows(s, c) <=> session[c] = s
<1>1. OneAtATime(c)
  BY DEF Served
<1>2. (\A t \in turns : ~Runs(t, c)) /\ \A i \in DOMAIN results : ~Waits(i, c)
  BY <1>1 DEF OneAtATime
<1> QED  BY <1>2 DEF Knows, Brings, Runs, Waits

LEMMA TalkKept == ASSUME Typed, Served, Kept, ~EarlyArchive, HumanSpeaks \/ PersonaSpeaks \/ Archive
    PROVE  Kept'
<1>1. conn /\ UNCHANGED <<conn, gen, results>>
  BY DEF HumanSpeaks, PersonaSpeaks, Archive, Frame
<1>2. \A c \in Channel : session'[c] \in {session[c], None}
  BY DEF HumanSpeaks, PersonaSpeaks, Archive, Rotate, Typed, TypeOK
<1>3. CASE UNCHANGED turns
  BY <1>1, <1>2, <1>3, QuietKept
<1>4. CASE ~UNCHANGED turns
  <2>1. /\ UNCHANGED session
        /\ \E c \in Channel : ~busy[c] /\ \E m : \E t \in Routes(c, m, session[c]) : Go(t)
    <3>1. CASE HumanSpeaks \/ PersonaSpeaks
      <4>0. PICK c \in Channel : \E m, spent, base : Hear(c, m, spent, base)
        BY <1>4, <3>1 DEF HumanSpeaks, PersonaSpeaks
      <4>1. PICK m, spent, base : Hear(c, m, spent, base)
        BY <4>0
      <4>2. UNCHANGED session
        BY <3>1 DEF HumanSpeaks, PersonaSpeaks
      <4> QED  BY <1>4, <4>1, <4>2 DEF Hear
    <3>2. CASE Archive
      <4>1. PICK c \in Channel : ~busy[c] /\ UNCHANGED session /\ Go(Turn(c, "persona", session[c]))
        BY <1>4, <3>2 DEF Archive, Rotate
      <4>2. \A m : Turn(c, "persona", session[c]) \in Routes(c, m, session[c])
        BY DEF Routes
      <4> QED  BY <4>1, <4>2
    <3> QED  BY <3>1, <3>2
  <2>0. PICK c \in Channel : ~busy[c] /\ \E m : \E t \in Routes(c, m, session[c]) : Go(t)
    BY <2>1
  <2>2. PICK m : ~busy[c] /\ \E t \in Routes(c, m, session[c]) : Go(t)
    BY <2>0
  <2>3. PICK t \in Routes(c, m, session[c]) : turns' = turns \cup {t}
    BY <2>2 DEF Go
  <2>4. t.channel = c /\ (t.voice = "persona" => t.session = session[c])
    <3>1. session[c] \in Session \cup {None}
      BY DEF Typed, TypeOK
    <3> QED  BY <2>3, <3>1, Routed
  <2>5. \A s : Knows(s, c) <=> session[c] = s
    BY <1>1, <2>2, IdleKnows
  <2>6. Fits(t, c)
    BY <2>4, <2>5 DEF Fits, Session, None
  <2> QED  BY <1>1, <2>1, <2>3, <2>4, <2>6, StartKept
<1> QED  BY <1>3, <1>4

\* The loop takes a result: a room learns the session it brings or forgets its
\* own, and a goroutine may start.
LEMMA TakeKept ==
    ASSUME Typed, Kept, NEW tr \in NextResult, Take(tr),
           \A c \in Channel : session'[c] \in {session[c], None} \/ Brings(tr, session'[c], c),
           \/ UNCHANGED turns
           \/ \E t : /\ turns' = turns \cup {t}
                     /\ t.voice = "persona" =>
                          IF t.session = None THEN \A s \in Session : ~Knows(s, t.channel)'
                                              ELSE Knows(t.session, t.channel)
    PROVE  Kept'
<1>1. /\ conn /\ tr = results[1] /\ 1 \in DOMAIN results /\ UNCHANGED <<conn, gen>>
      /\ \A i \in DOMAIN results' : i + 1 \in DOMAIN results /\ results'[i] = results[i + 1]
  BY Taken DEF Take
<1> SUFFICES ASSUME NEW c \in Channel PROVE OneSession(c)'
  BY DEF Kept
<1>2. OneSession(c) /\ None \notin Session
  BY <1>1 DEF Kept, Session, None
<1>3. \A x, s : Brings(x, s, c)' <=> Brings(x, s, c)
  BY <1>1 DEF Brings
<1>4. ASSUME NEW s \in Session, session'[c] = s PROVE Knows(s, c)
  BY <1>1, <1>2, <1>4 DEF Knows
<1>5. ASSUME NEW s, NEW i \in DOMAIN results', Brings(results[i], s, c)' PROVE Knows(s, c)
  <2>1. i + 1 \in DOMAIN results /\ Brings(results[i + 1], s, c)
    BY <1>1, <1>5 DEF Brings
  <2> QED  BY <2>1 DEF Knows
<1>6. CASE UNCHANGED turns
  <2>1. \A s \in Session : Knows(s, c)' => Knows(s, c)
    BY <1>3, <1>4, <1>5, <1>6 DEF Knows
  <2> QED  BY <1>2, <1>3, <1>6, <2>1, KeptStays
<1>7. CASE ~UNCHANGED turns
  <2>1. PICK t : /\ turns' = turns \cup {t}
                 /\ t.voice = "persona" =>
                      IF t.session = None THEN \A s \in Session : ~Knows(s, t.channel)'
                                          ELSE Knows(t.session, t.channel)
    BY <1>7
  <2>2. \A s \in Session : Brings(t, s, c) => Knows(s, c)
    BY <1>2, <2>1 DEF Brings
  <2>3. \A s \in Session : Knows(s, c)' => Knows(s, c)
    BY <1>3, <1>4, <1>5, <2>1, <2>2 DEF Knows
  <2>4. Brings(t, None, c) => \A s \in Session : ~Knows(s, c)'
    BY <2>1 DEF Brings
  <2>5. \A u \in turns' : Brings(u, None, c)' => \/ u \in turns /\ Brings(u, None, c)
                                                 \/ \A s \in Session : ~Knows(s, c)'
    BY <1>3, <2>1, <2>4
  <2> QED  BY <1>2, <2>3, <2>5, KeptStays
<1> QED  BY <1>6, <1>7

LEMMA SessionKnownKept == ASSUME Typed, Kept, Discard \/ SessionKnown PROVE Kept'
<1>1. PICK tr \in NextResult :
        /\ Take(tr)
        /\ \/ UNCHANGED session
           \/ /\ tr.gen = gen /\ tr.voice = "persona"
              /\ session' = [session EXCEPT ![tr.channel] = tr.session]
  BY DEF Discard, SessionKnown, Stale, roomVars
<1>2. \A c \in Channel : session'[c] \in {session[c], None} \/ Brings(tr, session'[c], c)
  BY <1>1 DEF Brings, Typed, TypeOK
<1>3. UNCHANGED turns
  BY DEF Discard, SessionKnown
<1> QED  BY <1>1, <1>2, <1>3, TakeKept

LEMMA TurnDoneKept == ASSUME Typed, Served, Kept, TurnDone PROVE Kept'
<1>1. PICK tr \in NextResult :
        /\ Take(tr) /\ tr.gen = gen /\ tr.kind = "done"
        /\ \/ Rotate(tr.channel)
           \/ /\ session' = [session EXCEPT ![tr.channel] = OwnSession(tr)]
              /\ FollowUp(tr.channel, session'[tr.channel])
  BY DEF TurnDone, Stale
<1>2. PICK c \in Channel : tr.channel = c /\ OwnSession(tr) \in Session \cup {None}
  BY <1>1, Taken, OwnTyped
<1>3. session \in [Channel -> Session \cup {None}] /\ None \notin Session
  BY DEF Typed, TypeOK, Session, None
<1>4. CASE Rotate(c)
  <2>1. UNCHANGED turns /\ \A d \in Channel : session'[d] \in {session[d], None}
    BY <1>3, <1>4 DEF Rotate
  <2> QED  BY <1>1, <2>1, TakeKept
<1>5. CASE ~Rotate(c)
  <2>1. session' = [session EXCEPT ![c] = OwnSession(tr)] /\ FollowUp(c, session'[c])
    BY <1>1, <1>2, <1>5
  <2>2. session'[c] = OwnSession(tr) /\ \A d \in Channel : d # c => session'[d] = session[d]
    BY <1>3, <2>1
  <2>3. OwnSession(tr) = session[c] \/ Brings(tr, OwnSession(tr), c)
    BY <1>1, <1>2 DEF OwnSession, Brings
  <2>4. \A d \in Channel : session'[d] \in {session[d], None} \/ Brings(tr, session'[d], d)
    BY <2>2, <2>3
  <2>5. UNCHANGED turns \/ \E t \in Routes(c, pending[c], session'[c]) : turns' = turns \cup {t}
    BY <2>1 DEF FollowUp, Go
  <2>6. CASE UNCHANGED turns
    BY <1>1, <2>4, <2>6, TakeKept
  <2>7. CASE ~UNCHANGED turns
    <3>1. PICK t \in Routes(c, pending[c], session'[c]) : turns' = turns \cup {t}
      BY <2>5, <2>7
    <3>2. t.gen = gen /\ t.channel = c /\ (t.voice = "persona" => t.session = session'[c])
      <4>1. session'[c] \in Session \cup {None}
        BY <1>2, <2>2
      <4> QED  BY <3>1, <4>1, Routed
    <3>3. session'[c] # None => Knows(session'[c], c)
      BY <1>1, <2>2, <2>3, Taken DEF Knows
    <3>4. ASSUME session'[c] = None, t.session = None, NEW s \in Session PROVE ~Knows(s, c)'
      <4>1. conn /\ 1 \in DOMAIN results /\ Done(1, c) /\ OneAtATime(c) /\ UNCHANGED gen
        BY <1>1, <1>2, Taken DEF Done, Waits, Served, Take
      <4>2. (\A u \in turns : ~Runs(u, c)) /\ \A j \in DOMAIN results : Waits(j, c) => j <= 1
        BY <4>1 DEF OneAtATime
      <4>3. \A u \in turns' : ~Brings(u, s, c)'
        BY <1>3, <3>1, <3>4, <4>1, <4>2 DEF Runs, Brings
      <4>4. \A i \in DOMAIN results' : ~Brings(results[i], s, c)'
        <5>1. ASSUME NEW i \in DOMAIN results', Brings(results[i], s, c)' PROVE FALSE
          <6>1. /\ i + 1 \in DOMAIN results /\ results'[i] = results[i + 1]
                /\ results' \in Seq(Result)
            BY <1>1, Taken
          <6>2. Waits(i + 1, c)
            BY <4>1, <5>1, <6>1 DEF Waits, Brings
          <6>3. i \in Nat /\ i >= 1
            BY <6>1
          <6> QED  BY <4>2, <6>1, <6>2, <6>3
        <5> QED  BY <5>1
      <4> QED  BY <1>3, <3>4, <4>3, <4>4 DEF Knows
    <3>5. t.voice = "persona" => IF t.session = None THEN \A s \in Session : ~Knows(s, t.channel)'
                                                     ELSE Knows(t.session, t.channel)
      BY <3>2, <3>3, <3>4
    <3> QED  BY <1>1, <2>4, <3>1, <3>5, TakeKept
  <2> QED  BY <2>6, <2>7
<1> QED  BY <1>4, <1>5

\* A goroutine reports the session that appeared, or ends.
LEMMA ReportsKept == ASSUME Typed, Served, Kept, SessionAppears \/ TurnEnds PROVE Kept'
<1> SUFFICES ASSUME NEW c \in Channel, conn PROVE OneSession(c)'
  BY DEF Kept, SessionAppears, TurnEnds
<1>1. OneSession(c) /\ OneAtATime(c) /\ None \notin Session /\ UNCHANGED <<gen, session>>
  <2>1. UNCHANGED <<gen, session>>
    BY DEF SessionAppears, TurnEnds, roomVars
  <2>2. None \notin Session
    BY DEF Session, None
  <2> QED  BY <2>1, <2>2 DEF Kept, Served
<1>2. \A x, s : Brings(x, s, c)' <=> Brings(x, s, c)
  BY <1>1 DEF Brings
<1>3. ASSUME NEW t \in turns, NEW kind \in {"session", "done"}, NEW q \in Session \cup {None},
             NEW text \in BOOLEAN, Report(kind, t, q, text),
             NEW s, NEW i \in DOMAIN results', Brings(results[i], s, c)'
      PROVE  \/ \E j \in DOMAIN results : Brings(results[j], s, c)
             \/ s = q /\ t.gen = gen /\ t.channel = c /\ t.voice = "persona"
  <2>1. TurnTyped(t)
    BY DEF Typed
  <2>2. /\ DOMAIN results = 1 .. Len(results) /\ DOMAIN results' = 1 .. Len(results) + 1
        /\ results'[Len(results) + 1].gen = t.gen
        /\ results'[Len(results) + 1].channel = t.channel
        /\ results'[Len(results) + 1].voice = t.voice /\ results'[Len(results) + 1].session = q
        /\ \A j \in 1 .. Len(results) : results'[j] = results[j]
        /\ Len(results) \in Nat
    BY <1>3, <2>1, Reported
  <2>3. i \in DOMAIN results \/ i = Len(results) + 1
    BY <2>2
  <2> QED  BY <1>1, <1>3, <2>2, <2>3 DEF Brings
<1>4. CASE SessionAppears
  <2>1. PICK t \in turns :
          /\ t.session = None
          /\ turns' = (turns \ {t}) \cup {[t EXCEPT !.session = last']}
          /\ Report("session", t, last', FALSE)
    BY <1>4 DEF SessionAppears
  <2>2. PICK q : q = last'
    OBVIOUS
  <2>3. q \in Session
    BY <1>4, <2>2, PersonaGatewayAssumption DEF SessionAppears, Typed, TypeOK, Session
  <2>4. PICK u : u = [t EXCEPT !.session = q]
    OBVIOUS
  <2>5. /\ u.gen = t.gen /\ u.channel = t.channel /\ u.voice = t.voice /\ u.session = q
        /\ turns' = (turns \ {t}) \cup {u} /\ Report("session", t, q, FALSE)
    <3>1. u.gen = t.gen /\ u.channel = t.channel /\ u.voice = t.voice /\ u.session = q
      BY <2>4 DEF Typed, TurnTyped, TurnRecord
    <3>2. turns' = (turns \ {t}) \cup {u} /\ Report("session", t, q, FALSE)
      BY <2>1, <2>2, <2>4
    <3> QED  BY <3>1, <3>2
  <2>6. \A s \in Session : Knows(s, c)' => Knows(s, c) \/ (s = q /\ Brings(t, None, c))
    <3>1. \A s \in Session : Brings(u, s, c) => s = q /\ Brings(t, None, c)
      BY <2>1, <2>5 DEF Brings
    <3>2. \A s \in Session, i \in DOMAIN results' :
            Brings(results[i], s, c)' => \/ \E j \in DOMAIN results : Brings(results[j], s, c)
                                         \/ s = q /\ Brings(t, None, c)
      <4>1. Report("session", t, q, FALSE) /\ q \in Session \cup {None}
        BY <2>3, <2>5
      <4>2. Brings(t, None, c) <=> t.gen = gen /\ t.channel = c /\ t.voice = "persona"
        BY <2>1 DEF Brings
      <4> QED  BY <1>3, <4>1, <4>2
    <3>3. \A v \in turns' : v \in turns \/ v = u
      BY <2>5
    <3> QED  BY <1>1, <1>2, <3>1, <3>2, <3>3 DEF Knows
  <2>7. \A v \in turns' : Brings(v, None, c)' => v \in turns /\ Brings(v, None, c) /\ v # t
    <3>1. \A v \in turns' : v = u \/ (v \in turns /\ v # t)
      BY <2>5
    <3>2. ~Brings(u, None, c)
      BY <1>1, <2>3, <2>5 DEF Brings
    <3> QED  BY <1>2, <3>1, <3>2
  <2>8. CASE Brings(t, None, c)
    <3>1. \A s \in Session : ~Knows(s, c)
      BY <1>1, <2>8 DEF OneSession
    <3>2. \A v \in turns : Brings(v, None, c) => v = t
      <4>1. \A v : Brings(v, None, c) => Runs(v, c)
        BY DEF Runs, Brings
      <4> QED  BY <1>1, <2>8, <4>1 DEF OneAtATime
    <3> QED  BY <2>6, <2>7, <3>1, <3>2 DEF OneSession
  <2>9. CASE ~Brings(t, None, c)
    BY <1>1, <2>6, <2>7, <2>9, KeptStays
  <2> QED  BY <2>8, <2>9
<1>5. CASE TurnEnds
  <2>1. PICK t \in turns :
          /\ turns' = turns \ {t}
          /\ \E s \in {t.session, None}, text \in BOOLEAN : Report("done", t, s, text)
    BY <1>5 DEF TurnEnds
  <2>2. PICK q \in {t.session, None}, text \in BOOLEAN : Report("done", t, q, text)
    BY <2>1
  <2>3. q \in Session \cup {None}
    BY DEF Typed, TurnTyped
  <2>4. \A s \in Session, i \in DOMAIN results' :
          Brings(results[i], s, c)' => Knows(s, c)
    BY <1>1, <1>3, <2>2, <2>3 DEF Brings, Knows
  <2>5. \A s \in Session : Knows(s, c)' => Knows(s, c)
    BY <1>1, <1>2, <2>1, <2>4 DEF Knows
  <2> QED  BY <1>1, <1>2, <2>1, <2>5, KeptStays
<1> QED  BY <1>4, <1>5

LEMMA ConnectionKept ==
    ASSUME Typed, Served, Kept, Connect \/ Disconnect \/ HostRestart PROVE Kept'
<1>1. CASE Connect
  <2>1. /\ Served' /\ conn' /\ UNCHANGED <<session, busy>>
        /\ \A c \in Channel : ~busy[c]
    BY <1>1, ConnectionServed DEF Connect, roomVars, Served
  <2>2. ASSUME NEW c \in Channel PROVE OneSession(c)'
    <3>1. \A t \in turns' : ~Runs(t, c)'
      BY <2>1 DEF Served, OneAtATime
    <3>2. \A i \in DOMAIN results' : ~Waits(i, c)'
      BY <2>1 DEF Served, OneAtATime
    <3>3. /\ \A t \in turns' : \A s : ~Brings(t, s, c)'
          /\ \A i \in DOMAIN results' : \A s : ~Brings(results[i], s, c)'
      BY <3>1, <3>2 DEF Runs, Waits, Brings
    <3>4. \A s : Knows(s, c)' => s = session'[c]
      BY <3>3 DEF Knows
    <3> QED  BY <3>3, <3>4 DEF OneSession
  <2> QED  BY <2>2 DEF Kept
<1>2. CASE Disconnect \/ HostRestart
  BY <1>2 DEF Disconnect, HostRestart, Kept
<1> QED  BY <1>1, <1>2

LEMMA NextKept == ASSUME Typed, Served, Kept, ~EarlyArchive, [Next]_vars PROVE Kept'
<1>1. CASE HumanSpeaks \/ PersonaSpeaks \/ Archive
  BY <1>1, TalkKept
<1>2. CASE SessionAppears \/ TurnEnds
  BY <1>2, ReportsKept
<1>3. CASE Discard \/ SessionKnown
  BY <1>3, SessionKnownKept
<1>4. CASE TurnDone
  BY <1>4, TurnDoneKept
<1>5. CASE Connect \/ Disconnect \/ HostRestart
  BY <1>5, ConnectionKept
<1>6. CASE CastChanges \/ RefreshRooms \/ ResumeProgram \/ RoomSay \/ Drain \/ UNCHANGED vars
  <2>1. UNCHANGED <<conn, gen, turns, results>>
    BY <1>6 DEF CastChanges, RefreshRooms, ResumeProgram, RoomSay, Drain, vars, roomVars
  <2>2. UNCHANGED session
    BY <1>6 DEF CastChanges, RefreshRooms, ResumeProgram, RoomSay, Drain, vars, roomVars
  <2> QED  BY <2>1, <2>2, QuietKept
<1> QED  BY <1>1, <1>2, <1>3, <1>4, <1>5, <1>6 DEF Next

\* A room with a session changes it only by a rotation.
LEMMA StepKeeps ==
    ASSUME Typed, Served, Kept, ~EarlyArchive, [Next]_vars, NEW c \in Channel,
           session[c] # None, session'[c] # session[c], conn'
    PROVE  session'[c] = None /\ archiving[c] /\ ~busy'[c]
<1>1. session \in [Channel -> Session \cup {None}] /\ session[c] \in Session
  BY DEF Typed, TypeOK
<1>2. ~Archive
  BY DEF Archive, Rotate, Typed, TypeOK
<1>3. ~SessionKnown
  <2>1. SessionKnown => session'[c] = session[c]
    BY <1>1 DEF SessionKnown
  <2> QED  BY <2>1
<1>4. TurnDone
  BY <1>2, <1>3 DEF Next, vars, roomVars, HumanSpeaks, PersonaSpeaks, CastChanges, RefreshRooms,
     ResumeProgram, SessionAppears, TurnEnds, RoomSay, Drain, Discard, Connect, Disconnect, HostRestart
<1>5. PICK tr \in NextResult :
        /\ Take(tr) /\ tr.gen = gen
        /\ \/ archiving[tr.channel] /\ Rotate(tr.channel)
           \/ session' = [session EXCEPT ![tr.channel] = OwnSession(tr)]
  BY <1>4 DEF TurnDone, Stale
<1>6. conn /\ tr \in Result /\ tr = results[1] /\ 1 \in DOMAIN results
  BY <1>5, Taken
<1>7. CASE archiving[tr.channel] /\ Rotate(tr.channel)
  <2>1. tr.channel = c
    BY <1>1, <1>7 DEF Rotate
  <2> QED  BY <1>1, <1>7, <2>1 DEF Rotate, Typed, TypeOK
<1>8. CASE session' = [session EXCEPT ![tr.channel] = OwnSession(tr)]
  <2>1. tr.channel = c /\ session'[c] = OwnSession(tr)
    BY <1>1, <1>8
  <2>2. tr.voice = "persona" /\ tr.session # None /\ OwnSession(tr) = tr.session
    BY <2>1 DEF OwnSession
  <2>3. tr.session \in Session
    BY <1>6, <2>2 DEF Result
  <2>4. Knows(tr.session, c) /\ Knows(session[c], c)
    BY <1>5, <1>6, <2>1, <2>2 DEF Knows, Brings
  <2> QED  BY <1>1, <1>6, <2>1, <2>2, <2>3, <2>4 DEF Kept, OneSession
<1> QED  BY <1>5, <1>7, <1>8

\* A room keeps its session for as long as the connection and the program last:
\* whatever results arrive, of whichever connection or voice, only the rotation
\* that ends an archive takes it, from a room that is idle then, and no other
\* session replaces it.
THEOREM SessionsStay == ASSUME ~EarlyArchive PROVE Spec => SessionKept
<1>1. Init => Kept
  BY DEF Init, Kept
<1>2. ASSUME Typed, Served, Kept, [Next]_vars
      PROVE  [\A c \in Channel :
                session[c] # None /\ session'[c] # session[c] /\ conn' =>
                  session'[c] = None /\ archiving[c] /\ ~busy'[c]]_vars
  BY <1>2, StepKeeps
<1>3. Typed /\ Served /\ Kept /\ [Next]_vars => Kept'
  BY NextKept
<1> QED  BY <1>1, <1>2, <1>3, AlwaysTyped, AlwaysServed, PTL DEF Spec, SessionKept
=============================================================================
