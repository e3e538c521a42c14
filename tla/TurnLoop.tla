------------------------------ MODULE TurnLoop ------------------------------
(***************************************************************************)
(* The model/tool loop of one session, as stewards.work_queue rows drive    *)
(* it: a chat row asks the model; an answer with tool calls enqueues a      *)
(* tool_dispatch row; that row runs the calls, hands the proxied ones to    *)
(* the bridge as mcp_proxy child rows and waits for them; when every call   *)
(* has a reply, a continuation chat row is enqueued.                        *)
(*                                                                          *)
(* Actors: the background workers (worker Leader also reaps), the bridge,   *)
(* the user or operator (Post, Cancel), and the faults named in Faults.     *)
(* Each database transaction of the code is one step, at its commit; work   *)
(* done outside a transaction (the model call, the tool calls) lies between *)
(* two steps. The outcome transaction of a chat is three: it begins (its     *)
(* message is dated then), it counts the rounds (READ COMMITTED: the         *)
(* committed messages and its own), it commits. Two may overlap.             *)
(*                                                                          *)
(* Left out here: replies over 50 000 characters, which divert through a    *)
(* judge session; cost; NOTIFY; the kind circuit breaker, which only delays *)
(* Claim; and the order among pending rows (created_at, but locked rows and *)
(* paused kinds are skipped): any pending row may be claimed.               *)
(***************************************************************************)
EXTENDS Integers, FiniteSets

CONSTANTS
    Worker,     \* background workers of the extension
    Leader,     \* worker 0, the only one that reaps
    Call,       \* tool calls one assistant message may carry
    Proxied,    \* the calls whose tool_def target is an mcp_proxy
    Steps,      \* agents.steps, the step budget of a turn
    MaxRows,    \* bound on work_queue rows
    MaxPosts,   \* bound on user messages
    Faults,     \* which faults the environment may inject
    MaxFaults   \* bound on how often

FaultKinds ==
    { "crash",          \* a worker other than the leader dies
      "restart",        \* the whole server restarts, every worker with it
      "leader_alone",   \* only the leader restarts, while the others run
      "slow",           \* a dispatch outlives reaper_stale_minutes
      "cap",            \* chat_post_internal raises (a spend cap)
      "cancel",         \* work_item_cancel of the session's work item
      "bridge" }        \* the bridge loses a result or restarts

ASSUME TurnLoopAssumption ==
    /\ Leader \in Worker /\ IsFiniteSet(Worker)
    /\ Proxied \subseteq Call
    /\ Steps \in Nat /\ MaxRows \in Nat /\ MaxPosts \in Nat /\ MaxFaults \in Nat
    /\ Faults \subseteq FaultKinds

Row == 1 .. MaxRows
None == 0                           \* no row

Kinds == {"free", "chat", "tool_dispatch", "mcp_proxy"}   \* free: id not used
Statuses == {"free", "pending", "in_progress", "waiting_for_tools", "done", "error"}
Live == {"pending", "in_progress", "waiting_for_tools"}
Drivers == {"chat", "tool_dispatch"}    \* the rows the background workers claim

VARIABLES
    last,       \* the last id the work_queue sequence gave
    kind, status,
    parent,     \* tool_dispatch: the chat row; chat: the tool_dispatch row it continues
    turn,       \* the user message a row descends from
    asked,      \* tool_calls of the assistant message a chat row wrote, if dispatched
    replies,    \* role='tool' messages for each call of that message
    rounds,     \* iteration_count: assistant messages since the last user message
    ran,        \* tool_dispatch: calls that resolved at once
    child,      \* tool_dispatch: the mcp_proxy row of each call handed to the bridge
    job,        \* the row each background worker holds
    since,      \* user messages when its open outcome transaction of a chat began; 0: none
    verdict,    \* what that transaction's iteration_count said of the step budget
    reaping,    \* the leader has started but not finished its startup reap
    bridge,     \* the rows the running bridge process has claimed
    posts,      \* user messages so far
    cancelled,  \* work_item_cancel ran and no user message came since
    faults      \* faults injected so far

rowVars   == <<last, kind, status, parent, turn>>
msgVars   == <<asked, replies, rounds>>
fanVars   == <<ran, child>>
workVars  == <<job, since, verdict>>
envVars   == <<posts, cancelled, faults>>
vars == <<rowVars, msgVars, fanVars, workVars, reaping, bridge, envVars>>

Init ==
    /\ last = 0
    /\ kind = [r \in Row |-> "free"]
    /\ status = [r \in Row |-> "free"]
    /\ parent = [r \in Row |-> None]
    /\ turn = [r \in Row |-> 0]
    /\ asked = [r \in Row |-> {}]
    /\ replies = [r \in Row |-> [k \in Call |-> 0]]
    /\ rounds = 0
    /\ ran = [r \in Row |-> {}]
    /\ child = [r \in Row |-> [k \in Call |-> None]]
    /\ job = [w \in Worker |-> None]
    /\ since = [w \in Worker |-> 0]
    /\ verdict = [w \in Worker |-> "none"]
    /\ reaping = FALSE
    /\ bridge = {}
    /\ posts = 0
    /\ cancelled = FALSE
    /\ faults = 0

----------------------------------------------------------------------------
(* Helpers *)

Idle(w) == job[w] = None
Held(r) == \E w \in Worker : job[w] = r

\* INSERT INTO work_queue of one row of kind k in the transaction that also
\* moves row r to status s (r = None: it moves no row).
Insert(k, p, t, r, s) ==
    /\ last < MaxRows
    /\ last' = last + 1
    /\ kind' = [kind EXCEPT ![last'] = k]
    /\ parent' = [parent EXCEPT ![last'] = p]
    /\ turn' = [turn EXCEPT ![last'] = t]
    /\ status' = [q \in Row |-> IF q = last' THEN "pending"
                                ELSE IF q = r THEN s ELSE status[q]]

\* UPDATE work_queue SET status = s WHERE id = r. No writer of the code looks
\* at the status the row has by then.
SetStatus(r, s) ==
    /\ status' = [status EXCEPT ![r] = s]
    /\ UNCHANGED <<last, kind, parent, turn>>

\* chat_post_internal for the turn of tool_dispatch row d, in the transaction
\* that closes d with status s.
Continue(d, s) == Insert("chat", d, turn[d], d, s)

Handled(d) == ran[d] \cup {k \in Call : child[d][k] # None}

\* Plain tool replies, one for each call of chat row c in ks.
Reply(c, ks) ==
    replies' = [replies EXCEPT ![c] =
                   [k \in Call |-> IF k \in ks THEN @[k] + 1 ELSE @[k]]]

\* synthesize_tool_failure writes the replies that are still missing.
SynthesizeMissing(c) == Reply(c, {k \in asked[c] : replies[c][k] = 0})

Fault(f) ==
    /\ f \in Faults
    /\ faults < MaxFaults
    /\ faults' = faults + 1
    /\ UNCHANGED <<posts, cancelled>>

\* The worker-memory part of a dispatch is gone when its worker dies.
Forget(R) ==
    /\ ran' = [r \in Row |-> IF r \in R THEN {} ELSE ran[r]]
    /\ child' = [r \in Row |-> IF r \in R THEN [k \in Call |-> None] ELSE child[r]]

----------------------------------------------------------------------------
(* The user and the operator *)

\* chat_enqueue: the user message and its chat row.
Post ==
    /\ posts < MaxPosts
    /\ posts' = posts + 1
    /\ Insert("chat", None, posts', None, "free")
    /\ rounds' = 0
    /\ cancelled' = FALSE
    /\ UNCHANGED <<asked, replies, fanVars, workVars, reaping, bridge, faults>>

\* work_item_cancel: the cascade marks the session's live rows; mcp_proxy
\* payloads carry no session_id, so children are not among them.
Cancel ==
    /\ "cancel" \in Faults
    /\ faults < MaxFaults
    /\ faults' = faults + 1
    /\ ~cancelled /\ posts > 0
    /\ cancelled' = TRUE
    /\ status' = [r \in Row |->
                    IF kind[r] \in Drivers /\ status[r] \in Live THEN "error" ELSE status[r]]
    /\ UNCHANGED <<last, kind, parent, turn, msgVars, fanVars, workVars, reaping, bridge, posts>>

----------------------------------------------------------------------------
(* A background worker: process_one_pending claims a row, dispatches it     *)
(* outside any transaction, and writes the outcome in one transaction.      *)

\* Workers that started with the leader have not polled yet while it reaps,
\* unless the leader restarted on its own.
Running(w) == ~reaping \/ (w # Leader /\ "leader_alone" \in Faults)

\* Seeded bug: the claim query also takes rows already in progress.
ClaimableTwice(r) == kind[r] \in Drivers /\ status[r] \in {"pending", "in_progress"}
Claimable(r) == kind[r] \in Drivers /\ status[r] = "pending"

Claim(w) ==
    /\ Idle(w) /\ Running(w)
    /\ \E r \in Row :
         /\ Claimable(r)
         /\ SetStatus(r, "in_progress")
         /\ job' = [job EXCEPT ![w] = r]
    /\ UNCHANGED <<msgVars, fanVars, since, verdict, reaping, bridge, envVars>>

Holds(w, k) == job[w] # None /\ kind[job[w]] = k

\* The row leaves the worker's hands, and with it an open outcome transaction.
Release(w) ==
    /\ job' = [job EXCEPT ![w] = None]
    /\ since' = [since EXCEPT ![w] = 0]
    /\ verdict' = [verdict EXCEPT ![w] = "none"]

\* The model answered: the outcome transaction begins and inserts the message.
ChatAnswers(w) ==
    /\ Holds(w, "chat")
    /\ since[w] = 0
    /\ since' = [since EXCEPT ![w] = posts]
    /\ UNCHANGED <<rowVars, msgVars, fanVars, job, verdict, reaping, bridge, envVars>>

\* iteration_count inside that transaction: the committed messages since the
\* last user message and its own, unless a user message came after it began.
Counted(w) == rounds + (IF since[w] = posts THEN 1 ELSE 0)

\* Seeded bug: the budget lets one round too many through.
WithinBudgetPlusOne(w) == Counted(w) <= Steps
WithinBudget(w) == Counted(w) < Steps

\* The answer has tool calls, all of them: is agents.steps spent?
ChatCounts(w) ==
    /\ since[w] # 0 /\ verdict[w] = "none"
    /\ verdict' = [verdict EXCEPT ![w] = IF WithinBudget(w) THEN "within" ELSE "spent"]
    /\ UNCHANGED <<rowVars, msgVars, fanVars, job, since, reaping, bridge, envVars>>

\* The answer commits and its tool calls are dispatched.
ChatAsks(w) ==
    /\ Holds(w, "chat")
    /\ verdict[w] = "within"
    /\ rounds' = Counted(w)
    /\ \E ks \in (SUBSET Call) \ {{}} : asked' = [asked EXCEPT ![job[w]] = ks]
    /\ Insert("tool_dispatch", job[w], turn[job[w]], job[w], "done")
    /\ Release(w)
    /\ UNCHANGED <<replies, fanVars, reaping, bridge, envVars>>

\* The answer commits and ends the loop: no tool calls, a truncated list of
\* them (neither is counted), or the step budget spent.
ChatStops(w) ==
    /\ Holds(w, "chat")
    /\ since[w] # 0 /\ verdict[w] # "within"
    /\ rounds' = Counted(w)
    /\ SetStatus(job[w], "done")
    /\ Release(w)
    /\ UNCHANGED <<asked, replies, fanVars, reaping, bridge, envVars>>

\* Seeded bug: a status the queue does not have.
ChatFailsUnknownStatus(w) ==
    /\ Holds(w, "chat") /\ since[w] = 0
    /\ SetStatus(job[w], "failed")
    /\ Release(w)
    /\ UNCHANGED <<msgVars, fanVars, reaping, bridge, envVars>>
\* The model call failed.
ChatFails(w) ==
    /\ Holds(w, "chat") /\ since[w] = 0
    /\ SetStatus(job[w], "error")
    /\ Release(w)
    /\ UNCHANGED <<msgVars, fanVars, reaping, bridge, envVars>>

\* One tool call resolved at once: a local tool, a withheld, denied or missing
\* one, or a proxied one whose server is disabled.
RunCall(w) ==
    /\ Holds(w, "tool_dispatch")
    /\ \E k \in asked[parent[job[w]]] \ Handled(job[w]) :
         ran' = [ran EXCEPT ![job[w]] = @ \cup {k}]
    /\ UNCHANGED <<rowVars, msgVars, child, workVars, reaping, bridge, envVars>>

\* mcp_proxy_enqueue, in a transaction of its own; only the worker's memory
\* links the child to this dispatch until DispatchWaits.
EnqueueChild(w) ==
    /\ Holds(w, "tool_dispatch")
    /\ \E k \in (asked[parent[job[w]]] \cap Proxied) \ Handled(job[w]) :
         /\ Insert("mcp_proxy", None, turn[job[w]], None, "free")
         /\ child' = [child EXCEPT ![job[w]][k] = last']
    /\ UNCHANGED <<msgVars, ran, workVars, reaping, bridge, envVars>>

AllHandled(d) == asked[parent[d]] \subseteq Handled(d)
Children(d) == {child[d][k] : k \in Call} \ {None}

\* ToolsDispatched: every call resolved at once.
DispatchDone(w) ==
    /\ Holds(w, "tool_dispatch")
    /\ AllHandled(job[w]) /\ Children(job[w]) = {}
    /\ Reply(parent[job[w]], ran[job[w]])
    /\ Continue(job[w], "done")
    /\ Release(w)
    /\ UNCHANGED <<asked, rounds, fanVars, reaping, bridge, envVars>>

\* WaitingForTools: the row keeps what resolved and which children it awaits.
DispatchWaits(w) ==
    /\ Holds(w, "tool_dispatch")
    /\ AllHandled(job[w]) /\ Children(job[w]) # {}
    /\ SetStatus(job[w], "waiting_for_tools")
    /\ Release(w)
    /\ UNCHANGED <<msgVars, fanVars, reaping, bridge, envVars>>

\* tool_dispatch returned Err before it ran a call: synthetic replies, the
\* continuation, and the row is an error.
DispatchFails(w) ==
    /\ Holds(w, "tool_dispatch")
    /\ Handled(job[w]) = {}
    /\ SynthesizeMissing(parent[job[w]])
    /\ Continue(job[w], "error")
    /\ Release(w)
    /\ UNCHANGED <<asked, rounds, fanVars, reaping, bridge, envVars>>

----------------------------------------------------------------------------
(* tool_dispatch_complete_waiting, run by every worker between claims       *)

Waiting(d) == kind[d] = "tool_dispatch" /\ status[d] = "waiting_for_tools"
Resolved(d) == \A c \in Children(d) : status[c] \in {"done", "error"}

\* Seeded bug: no deadline on the wait.
DueNoDeadline(d, expired) == Waiting(d) /\ Resolved(d)
\* Every child resolved, or the row is older than tool_wait_timeout_seconds
\* (expired: which may be so at any time).
Due(d, expired) == Waiting(d) /\ (Resolved(d) \/ expired)

\* Seeded bug: final_msgs starts empty instead of from the resolved calls.
FinalMsgsOfChildren(d) == {k \in Call : child[d][k] # None}
\* final_msgs: what resolved at once, then each child's answer, its error, or
\* the error reply of a child that missed the deadline.
FinalMsgs(d) == Handled(d)

\* Seeded bug: the row closes but nothing continues the turn.
ResumeNothing(d) == SetStatus(d, "done")
Resume(d) == Continue(d, "done")

Promote ==
    /\ \E w \in Worker : Idle(w) /\ Running(w)
    /\ \E d \in Row, expired \in BOOLEAN :
         /\ Due(d, expired)
         /\ Reply(parent[d], FinalMsgs(d))
         /\ Resume(d)
    /\ UNCHANGED <<asked, rounds, fanVars, workVars, reaping, bridge, envVars>>

\* chat_post_internal raised: the inserted replies roll back and the row
\* marks itself error; nothing continues the turn.
PromoteRaises ==
    /\ \E w \in Worker : Idle(w) /\ Running(w)
    /\ Fault("cap")
    /\ \E d \in Row, expired \in BOOLEAN :
         /\ Due(d, expired)
         /\ SetStatus(d, "error")
    /\ UNCHANGED <<msgVars, fanVars, workVars, reaping, bridge>>

----------------------------------------------------------------------------
(* The leader's reapers. Both do, for each row they take: a tool_dispatch    *)
(* row gets synthetic replies and a continuation; the row becomes error.     *)
(* A transaction that takes several rows is several steps here.              *)

Reap(r) ==
    \/ /\ kind[r] = "tool_dispatch"
       /\ SynthesizeMissing(parent[r])
       /\ Continue(r, "error")
    \/ /\ kind[r] = "chat"
       /\ SetStatus(r, "error")
       /\ UNCHANGED replies

\* At startup: every row in progress, whoever holds it.
StartupReap ==
    /\ reaping
    /\ \E r \in Row : status[r] = "in_progress" /\ Reap(r)
    /\ UNCHANGED <<asked, rounds, fanVars, workVars, reaping, bridge, envVars>>

StartupReapEnds ==
    /\ reaping
    /\ \A r \in Row : kind[r] \in Drivers => status[r] # "in_progress"
    /\ reaping' = FALSE
    /\ UNCHANGED <<rowVars, msgVars, fanVars, workVars, bridge, envVars>>

\* chat_post_internal raised inside a synthesis: the reap rolls back, the
\* leader survives it and goes on to its poll loop.
StartupReapRaises ==
    /\ reaping
    /\ \E r \in Row : kind[r] = "tool_dispatch" /\ status[r] = "in_progress"
    /\ Fault("cap")
    /\ reaping' = FALSE
    /\ UNCHANGED <<rowVars, msgVars, fanVars, workVars, bridge>>

\* Every 60 s: rows claimed more than reaper_stale_minutes ago. The leader
\* reaps between two of its own dispatches. A row nobody holds gets that old;
\* one that a worker holds does when its dispatch is slow.
\* Seeded bug: no age threshold, so that running dispatches are taken too.
AbandonedOrRunning(r) == status[r] = "in_progress"
Abandoned(r) == status[r] = "in_progress" /\ ~Held(r)

PeriodicReap ==
    /\ ~reaping /\ Idle(Leader)
    /\ \E r \in Row : Abandoned(r) /\ Reap(r)
    /\ UNCHANGED <<asked, rounds, fanVars, workVars, reaping, bridge, envVars>>

LateReap ==
    /\ ~reaping /\ Idle(Leader)
    /\ Fault("slow")
    /\ \E r \in Row : status[r] = "in_progress" /\ Held(r) /\ Reap(r)
    /\ UNCHANGED <<asked, rounds, fanVars, workVars, reaping, bridge>>

----------------------------------------------------------------------------
(* The bridge (stewards-mcp bridge run) *)

BridgeClaim ==
    /\ \E r \in Row :
         /\ kind[r] = "mcp_proxy" /\ status[r] = "pending"
         /\ SetStatus(r, "in_progress")
         /\ bridge' = bridge \cup {r}
    /\ UNCHANGED <<msgVars, fanVars, workVars, reaping, envVars>>

\* dispatchOne: done with the tool's reply, or error for a call that failed.
BridgeAnswers ==
    /\ \E r \in bridge, s \in {"done", "error"} :
         /\ SetStatus(r, s)
         /\ bridge' = bridge \ {r}
    /\ UNCHANGED <<msgVars, fanVars, workVars, reaping, envVars>>

\* The UPDATE runs under the call's own context: past its deadline the result
\* is lost and the row stays in_progress.
BridgeLoses ==
    /\ Fault("bridge")
    /\ \E r \in bridge : bridge' = bridge \ {r}
    /\ UNCHANGED <<rowVars, msgVars, fanVars, workVars, reaping>>

\* Seeded bug: the status filter of the reap is missing.
StaleProxyAnyStatus(r) == kind[r] = "mcp_proxy"
StaleProxy(r) == kind[r] = "mcp_proxy" /\ status[r] = "in_progress"

\* A new bridge process errors every mcp_proxy row left in progress.
BridgeRestarts ==
    /\ Fault("bridge")
    /\ bridge' = {}
    /\ status' = [r \in Row |->
                    IF StaleProxy(r) THEN "error" ELSE status[r]]
    /\ UNCHANGED <<last, kind, parent, turn, msgVars, fanVars, workVars, reaping>>

----------------------------------------------------------------------------
(* Crashes. A write transaction that raises (a spend cap inside              *)
(* chat_post_internal) also ends the worker process: it rolls back and the   *)
(* row stays in_progress, which is what a crash leaves.                      *)

WorkerCrash(w) ==
    /\ w # Leader /\ ~Idle(w)
    /\ Fault("crash")
    /\ Forget({job[w]})
    /\ Release(w)
    /\ UNCHANGED <<rowVars, msgVars, reaping, bridge>>

LeaderCrash ==
    /\ Fault("leader_alone")
    /\ Forget({job[Leader]})
    /\ Release(Leader)
    /\ reaping' = TRUE
    /\ UNCHANGED <<rowVars, msgVars, bridge>>

ServerRestart ==
    /\ Fault("restart")
    /\ Forget({job[w] : w \in Worker})
    /\ job' = [w \in Worker |-> None]
    /\ since' = [w \in Worker |-> 0]
    /\ verdict' = [w \in Worker |-> "none"]
    /\ reaping' = TRUE
    /\ UNCHANGED <<rowVars, msgVars, bridge>>

----------------------------------------------------------------------------
WorkerStep(w) ==
    \/ Claim(w)
    \/ ChatAnswers(w) \/ ChatCounts(w)
    \/ ChatAsks(w) \/ ChatStops(w) \/ ChatFails(w)
    \/ RunCall(w) \/ EnqueueChild(w)
    \/ DispatchDone(w) \/ DispatchWaits(w) \/ DispatchFails(w)

Next ==
    \/ Post \/ Cancel
    \/ \E w \in Worker : WorkerStep(w) \/ WorkerCrash(w)
    \/ Promote \/ PromoteRaises
    \/ StartupReap \/ StartupReapRaises \/ StartupReapEnds
    \/ PeriodicReap \/ LateReap
    \/ BridgeClaim \/ BridgeAnswers \/ BridgeLoses \/ BridgeRestarts
    \/ LeaderCrash \/ ServerRestart

Spec == Init /\ [][Next]_vars

\* Each worker polls every 500 ms, the reapers run in the leader's loop, and
\* the wait deadline is a clock: all of them keep being tried. Nothing is
\* assumed of the bridge, of the user, or of the faults.
Fairness ==
    /\ \A w \in Worker : WF_vars(WorkerStep(w))
    /\ WF_vars(Promote)
    /\ WF_vars(StartupReap \/ StartupReapEnds)
    /\ WF_vars(PeriodicReap)

FairSpec == Spec /\ Fairness

----------------------------------------------------------------------------
(* Properties *)

\* An open outcome transaction: when it began, what it counted.
TxnTypeOK ==
    /\ since \in [Worker -> 0 .. MaxPosts]
    /\ verdict \in [Worker -> {"none", "within", "spent"}]

\* The shape of the state; ids above last are unused.
TypeOK ==
    /\ last \in 0 .. MaxRows
    /\ kind \in [Row -> Kinds]
    /\ status \in [Row -> Statuses]
    /\ parent \in [Row -> Row \cup {None}]
    /\ turn \in [Row -> 0 .. MaxPosts]
    /\ asked \in [Row -> SUBSET Call]
    /\ replies \in [Row -> [Call -> Nat]]
    /\ rounds \in Nat
    /\ ran \in [Row -> SUBSET Call]
    /\ child \in [Row -> [Call -> Row \cup {None}]]
    /\ job \in [Worker -> Row \cup {None}]
    /\ TxnTypeOK
    /\ reaping \in BOOLEAN
    /\ bridge \subseteq Row
    /\ posts \in 0 .. MaxPosts
    /\ cancelled \in BOOLEAN
    /\ faults \in 0 .. MaxFaults
    /\ \A r \in Row : r > last <=> kind[r] = "free"

\* A row that drives the loop: live, or still in some worker's hands.
Active(r) == kind[r] \in Drivers /\ (status[r] \in Live \/ Held(r))

\* One user message never has two loops running for it: crashes, the wait
\* deadline and both reapers hand the turn on, they never fork it.
OneDriver ==
    \A r, s \in Row : Active(r) /\ Active(s) /\ turn[r] = turn[s] => r = s

\* Providers reject a request whose tool calls are not each answered once:
\* when a continuation chat row exists, the calls it continues all are.
ContinuationComplete ==
    \A r \in Row : kind[r] = "chat" /\ parent[r] # None =>
        \A k \in asked[parent[parent[r]]] : replies[parent[parent[r]]][k] = 1

\* No tool call is ever answered twice, by the dispatch and by a reaper, or
\* by two promotions.
ReplyOnce == \A r \in Row, k \in Call : replies[r][k] <= 1

\* However the end of a dispatch, its children, the wait deadline and the
\* reapers meet, each call gets one reply: two never, and when the turn goes
\* on, not none.
AnsweredOnce == ContinuationComplete /\ ReplyOnce

Continuations(d) == {r \in Row : kind[r] = "chat" /\ parent[r] = d}

\* The reaper is leader-only because "otherwise N workers race to reap and
\* synthesize, producing duplicate continuation chats" (bgworker.rs).
OneContinuation == \A d \in Row : \A r, s \in Continuations(d) : r = s

\* A closed dispatch continued its turn exactly once, and without a spend cap
\* or a cancellation so did one that ended in error: no turn stalls half way.
DispatchContinues ==
    /\ OneContinuation
    /\ \A d \in Row :
         /\ kind[d] = "tool_dispatch"
         /\ \/ status[d] = "done"
            \/ (status[d] = "error" /\ Faults \cap {"cap", "cancel"} = {})
         => Continuations(d) # {}

\* A row that reached done or error is never written again.
TerminalStays ==
    [][\A r \in Row : status[r] \in {"done", "error"} => status'[r] = status[r]]_vars

\* The claim query gives a row to one worker only, whatever fails.
ClaimedOnce ==
    \A v, w \in Worker : job[v] = job[w] /\ job[v] # None => v = w

\* The step budget bounds what a user message can spend, even when a fault
\* forks its loop, but not at Steps - 1 dispatches: where workers' outcome
\* transactions overlap none counts the others' messages and each may pass, and
\* one that was open when the next user message came counts that one's rounds.
StepBudget ==
    LET workers == Cardinality(Worker) IN
    posts # 0 => Cardinality({d \in Row : kind[d] = "tool_dispatch"})
                   <= (posts - 1) * (Steps - 2 + 2 * workers) + (Steps - 2 + workers)

\* Whatever fails, every session comes to rest: no row waits for ever.
Settles == (\E r \in Row : Active(r)) ~> (\A r \in Row : ~Active(r))

\* What one user message's loop looks like from outside (one message only).
Phase ==
    IF \E r \in Row : Active(r) /\ kind[r] = "chat" THEN "model"
    ELSE IF \E r \in Row : Active(r) THEN "tools" ELSE "idle"

Contract == INSTANCE Turn WITH phase <- Phase, asks <- posts

\* The rows, the workers, the bridge and the reapers together implement the
\* plain model/tool loop of module Turn, whichever of them crash.
ImplementsTurn == Contract!Spec

\* COMMENT ON work_item_cancel: "so the chat -> tool_dispatch -> chat loop
\* cannot keep spending after cancellation".
CancelStopsLoop ==
    cancelled => \A r \in Row : kind[r] \in Drivers => status[r] \notin Live
=============================================================================
