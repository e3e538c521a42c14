----------------------------- MODULE ModelCalls -----------------------------
(***************************************************************************)
(* The tool calls of one session, from the pieces in which a provider       *)
(* streams them to the requests that show them to the next model: a chat    *)
(* row is sent and its answer put together (bgworker.rs), the assistant     *)
(* message is stored and dispatched, the replies land or are synthesized,   *)
(* and compose_messages makes the whole history into the next request, in   *)
(* the form its provider wants.                                             *)
(*                                                                          *)
(* Left out: what a message says, all rendering but that of muted messages, *)
(* the system prompt and the notices after the history; who takes a chat    *)
(* row and whether a dispatch is ended twice (TurnLoop). A worker puts an   *)
(* answer together in memory of its own, so one answer at a time is         *)
(* streamed here, though several chats of the session may wait and several  *)
(* answers be dispatched at once. Providers give each call of a session an  *)
(* id of its own.                                                           *)
(***************************************************************************)
EXTENDS Naturals, Sequences, FiniteSets, SequencesExt

CONSTANTS
    CallsPerAnswer, \* tool calls one answer may make
    MaxQuestions,   \* bound on user messages
    MaxAnswers,     \* bound on the model's answers
    Fresh,          \* newest messages whose handles are not shown (8 in the code)
    MaxLevers       \* bound on the context levers pulled

ASSUME ModelCallsAssumption ==
    {CallsPerAnswer, MaxQuestions, MaxAnswers, Fresh, MaxLevers} \subseteq Nat

\* How the gateway of an answer streams it: the pieces of a call name its index,
\* its content block, its id on every piece, or its id on the first piece only.
\* texts: text blocks before the first call, which indices of blocks count.
Gateways == [names : {"index", "block", "every id", "first id"}, texts : {0}]
                \cup [names : {"index", "block"}, texts : {1}]
NoGateway == [names |-> "none", texts |-> 0]

VARIABLES
    history,    \* the session's messages, in the order of created_at, id
    muted,      \* the positions of those whose context_state is muted
    toAsk,      \* chat rows enqueued and not taken
    hand,       \* the chat a worker holds: its gateway once the answer begins, the calls
                \* the model makes, the pieces sent so far and their accumulators
    openCalls,  \* the answers whose calls are being dispatched
    continues,  \* the answer whose replies the request made by the last step brings (0: none)
    answers,    \* answers so far
    made,       \* for each of them, how many calls the model made, if its stream was whole
    levers

modelVars == <<history, muted, toAsk, hand, openCalls, continues, answers, made, levers>>

NoChat == [held |-> FALSE, via |-> NoGateway, calls |-> 0, sent |-> {}, slots |-> <<>>]

NoId == <<>>
Question == [role |-> "user", answer |-> 0, calls |-> <<>>, id |-> NoId]
Says(n, calls) == [role |-> "assistant", answer |-> n, calls |-> calls, id |-> NoId]
Result(n, id) == [role |-> "tool", answer |-> n, calls |-> <<>>, id |-> id]

\* A piece <<c, 1>> brings the name of call c and, but for some providers, its
\* id; <<c, 2>> brings the rest of its arguments.
Whole(c) == <<<<c, 1>>, <<c, 2>>>>
Named(pieces) == \E i \in DOMAIN pieces : pieces[i][2] = 1

\* A history from before phantom calls were dropped: a call without a name and
\* the reply that its dispatch wrote.
Legacy == <<Question, Says(0, <<[id |-> NoId, args |-> <<>>]>>), Result(0, NoId)>>

ModelInit ==
    /\ history \in {<<>>, Legacy}
    /\ muted = {} /\ toAsk = 0 /\ hand = NoChat
    /\ openCalls = {} /\ continues = 0
    /\ answers = 0 /\ made = [n \in 1 .. MaxAnswers |-> 0] /\ levers = 0

----------------------------------------------------------------------------
(* The stream of an answer                                                  *)

\* The accumulator a piece goes to, if it names an index.
Index(c) == c + hand.via.texts

\* The accumulator of a piece without an index: the one with its id, if it
\* names one (a new one for a new id), or else the latest.
\* Seeded bug: a missing index counts as the first.
SlotOfFirst(slots, piece) == 1
SlotOf(slots, piece) ==
    LET WithId == {i \in DOMAIN slots : slots[i] # <<>> /\ slots[i][1][1] = piece[1]}
    IN IF hand.via.names = "every id" \/ piece[2] = 1
       THEN IF WithId = {} THEN Len(slots) + 1 ELSE CHOOSE i \in WithId : TRUE
       ELSE IF slots = <<>> THEN 1 ELSE Len(slots)

\* Indices of content blocks leave accumulators empty, with no call of theirs.
Gather(slots, piece) ==
    LET i == IF hand.via.names \in {"index", "block"} THEN Index(piece[1]) ELSE SlotOf(slots, piece)
        At(j) == IF j \in DOMAIN slots THEN slots[j] ELSE <<>>
        n == IF i > Len(slots) THEN i ELSE Len(slots)
    IN [j \in 1 .. n |-> IF j = i THEN Append(At(j), piece) ELSE At(j)]

\* Anthropic's blocks are kept by index, and only a started one takes pieces.
GatherBlock(blocks, piece) ==
    LET i == Index(piece[1])
    IN IF piece[2] = 1 THEN [j \in DOMAIN blocks \cup {i} |-> IF j = i THEN <<piece>> ELSE blocks[j]]
       ELSE IF i \in DOMAIN blocks THEN [blocks EXCEPT ![i] = Append(@, piece)] ELSE blocks

\* The i-th number of S.
Nth(S, i) == CHOOSE j \in S : Cardinality({x \in S : x <= j}) = i

\* The calls of answer n: the accumulators that have a name, in their order.
Assembled(n) ==
    LET kept == {i \in DOMAIN hand.slots : Named(hand.slots[i])}
        CallIn(pieces) == [id |-> <<n, pieces[1][1]>>, args |-> pieces]
    IN [k \in 1 .. Cardinality(kept) |-> CallIn(hand.slots[Nth(kept, k)])]

\* Calls recovered from the model's markup are numbered within their answer.
Recovered(k) == [c \in 1 .. k |-> [id |-> <<0, c>>, args |-> Whole(c)]]

\* What changes is the chat in the worker's hand.
HandOnly == continues' = 0 /\ UNCHANGED <<history, muted, toAsk, openCalls, answers, made, levers>>

\* The worker takes a chat and sends its request.
TakeChat ==
    /\ hand = NoChat /\ toAsk > 0 /\ answers < MaxAnswers
    /\ toAsk' = toAsk - 1
    /\ hand' = [NoChat EXCEPT !.held = TRUE]
    /\ continues' = 0
    /\ UNCHANGED <<history, muted, openCalls, answers, made, levers>>

Streams == hand.via # NoGateway

\* The request is refused, has met a passing error for the last time it is
\* tried, or the stream breaks or reports an error: the row becomes an error,
\* and nothing of the answer is stored.
ChatErrs ==
    /\ hand # NoChat
    /\ hand' = NoChat
    /\ HandOnly

\* A gateway takes the request, at once or when it is sent again.
AnswerBegins ==
    /\ hand.held /\ ~Streams
    /\ \E g \in Gateways, k \in 0 .. CallsPerAnswer :
        hand' = [hand EXCEPT !.via = g, !.calls = k]
    /\ HandOnly

Sent(c, part) == <<c, part>> \in hand.sent

\* The provider's next piece. Calls begin in their order; only pieces that all
\* name their call may come in between those of others.
NextPiece(c, part) ==
    /\ ~Sent(c, part)
    /\ part = 2 => Sent(c, 1)
    /\ part = 1 /\ c > 1 => Sent(c - 1, IF hand.via.names = "first id" THEN 2 ELSE 1)

PieceComes ==
    /\ Streams
    /\ \E c \in 1 .. hand.calls, part \in 1 .. 2 :
        /\ NextPiece(c, part)
        /\ LET gather == IF hand.via.names = "block" THEN GatherBlock(hand.slots, <<c, part>>)
                         ELSE Gather(hand.slots, <<c, part>>)
           IN hand' = [hand EXCEPT !.sent = @ \cup {<<c, part>>}, !.slots = gather]
    /\ HandOnly

\* The answer is stored; its calls, if it has any, are dispatched unless the
\* provider cut them short or the step budget is spent.
Store(calls, k, dispatch) ==
    /\ answers' = answers + 1
    /\ history' = Append(history, Says(answers', calls))
    /\ made' = [made EXCEPT ![answers'] = k]
    /\ openCalls' = IF dispatch /\ calls # <<>> THEN openCalls \cup {answers'} ELSE openCalls
    /\ hand' = NoChat
    /\ continues' = 0
    /\ UNCHANGED <<muted, toAsk, levers>>

AllSent == hand.sent = (1 .. hand.calls) \X (1 .. 2)

\* [DONE], or the end of the last block.
AnswerDone ==
    /\ Streams /\ AllSent
    /\ \E inBudget \in BOOLEAN :
         Store(Assembled(answers + 1), hand.calls, inBudget)

\* finish_reason "length".
AnswerTruncated ==
    /\ Streams
    /\ Store(Assembled(answers + 1), 0, FALSE)

\* The connection ends in good order before the answer does: what came so far
\* is taken for the whole of it.
StreamEndsEarly ==
    /\ Streams /\ ~AllSent
    /\ \E inBudget \in BOOLEAN : Store(Assembled(answers + 1), 0, inBudget)

\* The gateway hands on the model's markup as the text of the answer.
AnswerInMarkup ==
    /\ Streams /\ hand.calls > 0 /\ hand.sent = {}
    /\ \E inBudget \in BOOLEAN : Store(Recovered(hand.calls), 0, inBudget)

----------------------------------------------------------------------------
(* The history: questions, replies, context levers                          *)

Answers(i, n) == history[i].role = "assistant" /\ history[i].answer = n
CallsOf(n) == history[CHOOSE i \in DOMAIN history : Answers(i, n)].calls

\* chat_enqueue, also while an earlier question is still being answered.
AskSession ==
    /\ Cardinality({i \in DOMAIN history : history[i] = Question}) < MaxQuestions
    /\ history' = Append(history, Question)
    /\ toAsk' = toAsk + 1
    /\ continues' = 0
    /\ UNCHANGED <<muted, hand, openCalls, answers, made, levers>>

\* The messages land and the continuation, composed with them, is enqueued.
ContinueWith(n, results) ==
    /\ n \in openCalls
    /\ openCalls' = openCalls \ {n}
    /\ history' = history \o results
    /\ toAsk' = toAsk + 1
    /\ continues' = n
    /\ UNCHANGED <<muted, hand, answers, made, levers>>

InOrder(n, ks) ==
    [i \in 1 .. Cardinality(ks) |-> Result(n, CallsOf(n)[Nth(ks, i)].id)]

\* One reply for each call: first those that resolved at once, then those that
\* were waited for.
RepliesLand ==
    \E n \in openCalls : \E atOnce \in SUBSET DOMAIN CallsOf(n) :
        ContinueWith(n, InOrder(n, atOnce) \o InOrder(n, DOMAIN CallsOf(n) \ atOnce))

\* synthesize_tool_failure of a dispatch that failed or was reaped: a reply for
\* each call whose id has none in the session.
Replied(id) == \E i \in DOMAIN history : history[i].role = "tool" /\ history[i].id = id
Missing(n) == {k \in DOMAIN CallsOf(n) : ~Replied(CallsOf(n)[k].id)}

DispatchDies == \E n \in openCalls : ContinueWith(n, InOrder(n, Missing(n)))

\* A cancellation, or a continuation that a spend cap refuses: the dispatch
\* ends without replies and nothing continues it.
DispatchDropped ==
    /\ \E n \in openCalls : openCalls' = openCalls \ {n}
    /\ continues' = 0
    /\ UNCHANGED <<history, muted, toAsk, hand, answers, made, levers>>

\* A tool call of the agent mutes or expands a message whose handle it knows.
PullLever ==
    /\ openCalls # {} /\ levers < MaxLevers
    /\ levers' = levers + 1
    /\ \E i \in DOMAIN history :
        /\ i <= Len(history) - Fresh
        /\ muted' = IF i \in muted THEN muted \ {i} ELSE muted \cup {i}
    /\ continues' = 0
    /\ UNCHANGED <<history, toAsk, hand, openCalls, answers, made>>

----------------------------------------------------------------------------
(* The request                                                              *)

\* compose_messages: every message in its place; a muted one is a few words
\* under its role and, if it is a reply, its id.
Composed ==
    [i \in DOMAIN history |->
        IF i \in muted THEN [history[i] EXCEPT !.calls = <<>>] ELSE history[i]]

\* The reply that gemini_normalize_tool_turns puts after a call: the first one
\* with its id, or a stub.
ReplyTo(msgs, id) ==
    LET found == {i \in DOMAIN msgs : msgs[i].role = "tool" /\ msgs[i].id = id}
    IN IF found = {} THEN Result(0, id) ELSE msgs[Nth(found, 1)]

\* Seeded bug: replies that belong to no call stay.
TurnOrphansKept(msgs, m) ==
    IF m.calls # <<>> THEN <<m>> \o [k \in DOMAIN m.calls |-> ReplyTo(msgs, m.calls[k].id)]
    ELSE <<m>>
\* A message as it stands in the request to Gemini: with the replies to its
\* calls, and no reply anywhere else.
GeminiTurn(msgs, m) ==
    IF m.calls # <<>> THEN <<m>> \o [k \in DOMAIN m.calls |-> ReplyTo(msgs, m.calls[k].id)]
    ELSE IF m.role = "tool" THEN <<>> ELSE <<m>>
Normalized(msgs) == FlattenSeq([i \in DOMAIN msgs |-> GeminiTurn(msgs, msgs[i])])

\* The elements of s at the positions S, in their order.
Keep(s, S) == [k \in 1 .. Cardinality(S) |-> s[Nth(S, k)]]

\* sanitize_phantom_tool_history: calls without a name go, and with them the
\* replies that have the id of one, or none.
Phantoms(m) == {k \in DOMAIN m.calls : ~Named(m.calls[k].args)}
Clean(m) == [m EXCEPT !.calls = Keep(@, DOMAIN @ \ Phantoms(m))]
Sanitized(msgs) ==
    LET dropped == UNION {{msgs[i].calls[k].id : k \in Phantoms(msgs[i])} : i \in DOMAIN msgs}
        stay == {i \in DOMAIN msgs : msgs[i].role # "tool" \/ msgs[i].id \notin dropped \cup {NoId}}
    IN IF dropped = {} THEN msgs ELSE Keep([i \in DOMAIN msgs |-> Clean(msgs[i])], stay)

\* anthropic_body_from_openai: replies wait until a message of another kind
\* comes, or the end, and go together in one user message.
Flush(acc) == IF acc.results = <<>> THEN acc.out
              ELSE Append(acc.out, [role |-> "results", of |-> acc.results])
Take(acc, m) ==
    IF m.role = "tool" /\ m.id = NoId THEN acc
    ELSE IF m.role = "tool" THEN [acc EXCEPT !.results = Append(@, m)]
    ELSE [out |-> Append(Flush(acc), m), results |-> <<>>]
Translated(msgs) ==
    LET taken[i \in 0 .. Len(msgs)] ==
            IF i = 0 THEN [out |-> <<>>, results |-> <<>>] ELSE Take(taken[i - 1], msgs[i])
    IN Flush(taken[Len(msgs)])

OpenAIRequest == Sanitized(Composed)
GeminiRequest == Sanitized(Normalized(Composed))
AnthropicRequest == Translated(OpenAIRequest)

----------------------------------------------------------------------------

Streaming ==
    \/ TakeChat \/ ChatErrs \/ AnswerBegins \/ PieceComes
    \/ AnswerDone \/ AnswerTruncated \/ StreamEndsEarly \/ AnswerInMarkup

ModelNext ==
    \/ AskSession \/ Streaming
    \/ RepliesLand \/ DispatchDies \/ DispatchDropped \/ PullLever

ModelSpec == ModelInit /\ [][ModelNext]_modelVars

----------------------------------------------------------------------------
(* Properties *)

\* Every variable has its type.
ModelTypeOK ==
    /\ \A i \in DOMAIN history :
        /\ history[i].role \in {"user", "assistant", "tool"}
        /\ history[i].answer \in 0 .. MaxAnswers
    /\ muted \subseteq DOMAIN history
    /\ toAsk \in Nat /\ hand.via \in Gateways \cup {NoGateway}
    /\ hand.held \in BOOLEAN /\ hand.calls \in 0 .. CallsPerAnswer
    /\ openCalls \subseteq 1 .. MaxAnswers /\ continues \in 0 .. MaxAnswers
    /\ answers \in 0 .. MaxAnswers /\ levers \in 0 .. MaxLevers
    /\ made \in [1 .. MaxAnswers -> 0 .. CallsPerAnswer]

\* Whatever way a provider has to tell the pieces of parallel calls apart, the
\* calls stored of a whole stream are the calls that the model made, each with
\* its own name and arguments and in their order, and no others.
CallsWhole ==
    \A n \in 1 .. answers : made[n] > 0 =>
        /\ Len(CallsOf(n)) = made[n]
        /\ \A c \in 1 .. made[n] : CallsOf(n)[c] = [id |-> <<n, c>>, args |-> Whole(c)]

\* The replies of answer n to its call id in a request.
RepliesIn(msgs, n, id) ==
    {i \in DOMAIN msgs : msgs[i].role = "tool" /\ msgs[i].answer = n /\ msgs[i].id = id}

\* What Gemini wants (v10-chat.sql:385-396): each message with calls is followed
\* at once by one reply to each, in their order, and no other reply is there.
Adjacent(msgs) ==
    /\ \A i \in DOMAIN msgs : \A k \in DOMAIN msgs[i].calls :
        /\ i + k <= Len(msgs)
        /\ msgs[i + k].role = "tool" /\ msgs[i + k].id = msgs[i].calls[k].id
    /\ \A j \in DOMAIN msgs : msgs[j].role = "tool" =>
        \E i \in 1 .. j - 1 : j - i \in DOMAIN msgs[i].calls

\* Calls recovered from markup have the same ids in every answer.
OwnIds(n) == \A k \in DOMAIN CallsOf(n) : CallsOf(n)[k].id = <<n, k>>

\* Any history, with questions among the replies, unanswered, muted and phantom
\* calls, becomes a request that Gemini takes; and the request that continues
\* answer n brings exactly one reply of that dispatch to each of its calls,
\* and to Anthropic all of them in one message.
RequestsPaired ==
    /\ Adjacent(GeminiRequest)
    /\ continues # 0 /\ OwnIds(continues) =>
        LET ids == {CallsOf(continues)[k].id : k \in DOMAIN CallsOf(continues)}
        IN /\ \A id \in ids : Cardinality(RepliesIn(OpenAIRequest, continues, id)) = 1
           /\ \E i \in DOMAIN AnthropicRequest :
                /\ AnthropicRequest[i].role = "results"
                /\ \A id \in ids : RepliesIn(AnthropicRequest[i].of, continues, id) # {}
=============================================================================
