------------------------------ MODULE Consult ------------------------------
(***************************************************************************)
(* Questions put to one session that already exists. A persona's turn       *)
(* (persona-host/dispatch.go) notes the newest assistant message, dispatches *)
(* the question and polls for a newer one with text; a tool's               *)
(* (consult_subagent.go) polls the first chat row it dispatched and then    *)
(* takes the newest message. Each question starts a loop of model calls of   *)
(* its own, which goes on when its caller has left; nothing keeps two       *)
(* callers, two rooms that share a character say, from one session.         *)
(***************************************************************************)
EXTENDS Naturals, Sequences

CONSTANTS
    Ask,        \* questions
    ToolAsk,    \* those put by consult_subagent
    MaxCalls    \* bound on the model calls of one question

ASSUME ConsultAssumption == ToolAsk \subseteq Ask /\ MaxCalls \in Nat

VARIABLES
    said,       \* the session's assistant messages: whose, and what kind
    caller,     \* where each caller is
    base,       \* baseline
    chatRow,    \* the first chat row of each question
    loop,       \* its model calls, and the continuations after them
    got,        \* the message each caller took for its answer, 0 for none
    crowded     \* questions during whose wait another question's loop ran

consultVars == <<said, caller, base, chatRow, loop, got, crowded>>

Earlier == "earlier"    \* the turn that made the session
Texts == {"answer", "remark", "empty"}
WithText(i) == said[i].text # "empty"

ConsultInit ==
    /\ said = <<[of |-> Earlier, text |-> "answer"]>>
    /\ caller = [a \in Ask |-> "idle"] /\ base = [a \in Ask |-> 0]
    /\ chatRow = [a \in Ask |-> "none"] /\ loop = [a \in Ask |-> "none"]
    /\ got = [a \in Ask |-> 0] /\ crowded = {}

Waits(a) == caller[a] \in {"baselined", "waiting"}
Ends(a, i) == caller' = [caller EXCEPT ![a] = "over"] /\ got' = [got EXCEPT ![a] = i]

\* Seeded bug: the baseline is the start of the session.
NewestIdNone == 0
\* maxAssistantID: also a message without text counts.
NewestId == Len(said)

OthersRun(a) == \E b \in Ask \ {a} : loop[b] = "runs"

TakeBaseline(a) ==
    /\ caller[a] = "idle" /\ a \notin ToolAsk
    /\ caller' = [caller EXCEPT ![a] = "baselined"]
    /\ base' = [base EXCEPT ![a] = NewestId]
    /\ crowded' = IF OthersRun(a) THEN crowded \cup {a} ELSE crowded
    /\ UNCHANGED <<said, chatRow, loop, got>>

\* consult_subagent_dispatch: the question becomes a message and a chat row.
PutQuestion(a) ==
    /\ caller[a] = (IF a \in ToolAsk THEN "idle" ELSE "baselined")
    /\ caller' = [caller EXCEPT ![a] = "waiting"]
    /\ chatRow' = [chatRow EXCEPT ![a] = "pending"]
    /\ loop' = [loop EXCEPT ![a] = "runs"]
    /\ crowded' = crowded \cup {b \in Ask \ {a} : Waits(b)}
                  \cup (IF OthersRun(a) THEN {a} ELSE {})
    /\ UNCHANGED <<said, base, got>>

\* It raises: no such session, or no chat to take the agent from.
QuestionRefused(a) ==
    /\ caller[a] = (IF a \in ToolAsk THEN "idle" ELSE "baselined")
    /\ Ends(a, 0)
    /\ UNCHANGED <<said, base, chatRow, loop, crowded>>

Calls(a) == Len(SelectSeq(said, LAMBDA m : m.of = a))

\* A model call ends in a message. With tool calls, whatever text comes with
\* them, the loop goes on; without, it is over.
ModelSays(a, words, on) ==
    /\ loop[a] = "runs" /\ Calls(a) < MaxCalls
    /\ said' = Append(said, [of |-> a, text |-> words])
    /\ chatRow' = [chatRow EXCEPT ![a] = "done"]
    /\ loop' = [loop EXCEPT ![a] = on]
    /\ UNCHANGED <<caller, base, got, crowded>>

\* A model call fails, and no message tells; only the first row is watched.
ModelDies(a) ==
    /\ loop[a] = "runs"
    /\ loop' = [loop EXCEPT ![a] = "over"]
    /\ chatRow' = [chatRow EXCEPT ![a] = IF @ = "pending" THEN "error" ELSE @]
    /\ UNCHANGED <<said, caller, base, got, crowded>>

\* assistantSince: messages after the baseline that have text.
Since(a) == {i \in base[a] + 1 .. Len(said) : WithText(i)}

\* The poll of a persona's turn: the newest such message is the answer.
PollSession(a) ==
    /\ caller[a] = "waiting" /\ a \notin ToolAsk
    /\ \/ \E i \in Since(a) : (\A j \in Since(a) : j <= i) /\ Ends(a, i)
       \/ Since(a) = {} /\ chatRow[a] = "error" /\ Ends(a, 0)
    /\ UNCHANGED <<said, base, chatRow, loop, crowded>>

\* The poll of a tool: when the first row is done the newest message is the
\* answer, if it has text. An error is told as such.
PollRow(a) ==
    /\ caller[a] = "waiting" /\ a \in ToolAsk
    /\ \/ chatRow[a] = "done" /\ Ends(a, IF WithText(Len(said)) THEN Len(said) ELSE 0)
       \/ chatRow[a] = "error" /\ Ends(a, 0)
    /\ UNCHANGED <<said, base, chatRow, loop, crowded>>

\* consultMaxWait passes; the loop goes on.
GivesUp(a) ==
    /\ caller[a] = "waiting"
    /\ IF a \in ToolAsk THEN chatRow[a] = "pending" ELSE Since(a) = {} /\ chatRow[a] # "error"
    /\ Ends(a, 0)
    /\ UNCHANGED <<said, base, chatRow, loop, crowded>>

ConsultNext ==
    \E a \in Ask :
        \/ TakeBaseline(a) \/ PutQuestion(a) \/ QuestionRefused(a)
        \/ ModelSays(a, "answer", "over") \/ ModelSays(a, "remark", "runs")
        \/ (\E on \in {"runs", "over"} : ModelSays(a, "empty", on)) \/ ModelDies(a)
        \/ PollSession(a) \/ PollRow(a) \/ GivesUp(a)

ConsultSpec == ConsultInit /\ [][ConsultNext]_consultVars

----------------------------------------------------------------------------
(* Properties *)

\* Every variable has its type.
ConsultTypeOK ==
    /\ said \in Seq([of : Ask \cup {Earlier}, text : Texts])
    /\ caller \in [Ask -> {"idle", "baselined", "waiting", "over"}]
    /\ base \in [Ask -> Nat] /\ got \in [Ask -> Nat]
    /\ chatRow \in [Ask -> {"none", "pending", "done", "error"}]
    /\ loop \in [Ask -> {"none", "runs", "over"}]
    /\ crowded \subseteq Ask

\* What a caller takes for its answer was said for its question, although it
\* looks at the session and not at the loop, and although earlier questions
\* timed out: unless the loop of another question ran during its wait.
OwnAnswer == \A a \in Ask \ crowded : got[a] # 0 => said[got[a]].of = a
=============================================================================
