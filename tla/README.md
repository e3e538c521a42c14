# TLA+ models of pg-ai-stewards

pg-ai-stewards runs language-model agents inside PostgreSQL: a Rust extension
whose background workers take rows of `stewards.work_queue`, call models and
tools, and write the outcome back; some two hundred SQL functions that decide
what the outcome means; Go programs around it that run the tools, speak for
personas in chat rooms and serve a console. This directory holds TLA+ models of
the parts where several of these act at once, the TLC configurations that check
them on small instances, and TLAPS proofs of every safety and action property they check.

Run a model with `tlc -config X.cfg M` and a proof with `tlapm M.tla`; the pairs
are listed under *Runs* and in `PROJECT.json`, which also maps every definition
to the lines it translates.

## Inventory

Each component below keeps state in the database unless said otherwise.

### Queue workers and the model/tool loop (modelled: TurnLoop, Turn, ModelCalls)

- *Code*: `extension/src/bgworker.rs` (poll loop, claim, outcome write, reapers),
  `tools.rs` (tool dispatch), `tool_dispatch_complete_waiting` (v04),
  `chat_post_internal` (v74), `synthesize_tool_failure`, `work_item_cancel` (v66); the
  stream parsers and request translations of `bgworker.rs`, `compose_messages` (v70),
  `gemini_normalize_tool_turns` (v10).
- *State*: `work_queue` rows (kind, status, payload), `messages` (assistant
  messages with tool calls, tool replies), `agents.steps`; the row each worker
  holds, in its memory only.
- *Operations*: claim a row (`FOR UPDATE SKIP LOCKED`), dispatch it outside any
  transaction, write the outcome and whatever follows from it in one transaction;
  promote dispatches whose children have answered; reap at start and every 60 s;
  cancel.
- *Hard*: N workers, each of which may die between two transactions; the leader's
  reapers that take rows away; a second process (the bridge) that answers children;
  deadlines; writes that do not look at the status they overwrite.
- *Correct when*: one user message drives one loop; each continuation carries one
  reply to each call; no turn stalls; the step budget bounds what is spent; closed
  rows stay closed; cancellation stops the spending; the calls dispatched are the calls the model
  made, and each request shows a provider calls and replies that belong together.

### Tool bridge (modelled: TurnLoop, BridgeSessions)

- *Code*: `cmd/stewards-mcp/bridge_run.go`. *State*: `mcp_proxy` rows; in memory,
  the rows claimed and sessions to tool servers.
- *Operations*: claim on NOTIFY or tick, call the tool under a deadline, write the
  answer or error; at start, error whatever an earlier process left in progress.
- *Hard*: results lost with their context, restarts; one session per server that all
  calls share and any failing call closes. *Correct when* every dispatch that waits for
  a child goes on with an answer or an error, and no session to a server is open that
  nobody will close.

### Persona gateway (modelled: PersonaGateway)

- *Code*: `cmd/persona-host/gateway.go`, with `dispatch.go`, `characters.go`,
  `outbox.go`. *State*: in memory, per connection: for each room its session, the
  turn in flight, the coalesced message, the hop count, the archive flag, the
  character sessions; in the database: a character's session, outbox rows.
- *Operations*: websocket frames (message, program, cast), turn goroutines that
  report through a channel, a drain tick, reconnects under supervision.
- *Hard*: results that come after an archive or a reconnect; one message slot;
  personas that answer each other; a mind shared by several rooms.
- *Correct when*: one turn at a time in a room; the ping-pong guard bounds a chain of
  personas; rooms keep their session and share none; the persona's beats reach the room
  they were said in; no room stays busy.

### Batch dispatch (modelled: BatchDispatch, BatchService)

- *Code*: `v66-batch-dispatch.sql`, `run_batch_cycle` in `bgworker.rs`. *State*:
  `work_queue` rows in `batch_pending`/`batched`, `provider_batches`; the provider
  keeps the batches it accepted.
- *Operations*: sweep, open, submit, poll, read results, requeue or fail rows.
- *Hard*: five transactions with an HTTP call between each; lost posts; results read
  twice; rows cancelled, requeued or given up meanwhile; money reserved twice or not
  at all.
- *Correct when*: every row ends, with the answer of the batch it was in; nothing
  cancelled is written; open and spent money stay within the cap.

### Judge gate (modelled: JudgeGate)

- *Code*: `intercept_oversized_tool_after` and the promotion (v04), `apply_judge_brief`
  (v47), the worker's continuation in `bgworker.rs`. *State*: reply messages that are
  placeholders, the judges' rows, `judge_continuation_enqueued` on the dispatch.
- *Hard*: several judges that end in concurrent transactions. *Correct when* the gated
  turn is resumed once, by the last judge, with every brief in place.

### Councils (modelled: Council)

- *Code*: `convene_council`, `synthesize_council`, `apply_synthesize_result`
  (v27), `resolve_council` (v02), the council arms of `write_outcome`. *State*:
  `councils`, `council_members`.
- *Hard*: the last member to answer is found by a count in each member's own
  transaction, which a member's tool loop repeats. *Correct when* a synthesis is fired
  once all have answered, and none without an answer of each.

### Work items, pipelines and steward (modelled: WorkItem)

- *Code*: `work_item_dispatch_stage` (v59, v32), `handle_work_item_chat_completion`,
  `work_item_fail` (v01), `work_item_advance` (v33), `work_item_cancel` (v66),
  `steward_tick` (v31), the escalation tools of `stewards-mcp/escalation.go`, the
  dispatch and retry handlers of `stewards-ui`. *State*: `work_items`, and the chats of
  each stage.
- *Hard*: late answers, retries by a steward and by people, cancellation, escalations
  settled long after, and a dispatch that reads without a lock. *Correct when* each
  stage's result is its own, closed items stay closed, and an item comes to rest.

### Consults (modelled: Consult)

- *Code*: `ConsultTurn` (`persona-host/dispatch.go`), `consultSubagent`
  (`stewards-mcp/consult_subagent.go`), `consult_subagent_dispatch` (v27). *State*: the
  session's messages; in memory, a baseline.
- *Hard*: the caller watches the session and not its own loop. *Correct when* the answer
  it takes was said for its question.

### Files (modelled: Workspace, Materializer, Drops)

- *Code*: `projector.go` and `workspacewatcher.go` with v30; `materializer.go` and
  `stewards-cli/main.go` (`materialize-writes`) with `pending_file_writes`;
  `dropwatcher.go` with v28. *State*: rows, files on a disk that people edit, and the
  tables that say what was last in step.
- *Hard*: no transaction holds a file and a row together; the loops poll, and people
  write when they like. *Correct when* no body is lost that was taken in, both sides
  come to agree, a write is made once, every dropped file lands.

### Telemetry exporter (modelled: Exporter)

- *Code*: `otel_export.go`. *State*: a checkpoint, in memory and in a table. *Hard*: a
  post whose checkpoint is not saved, transactions that commit late. *Correct when* no
  finished item is passed over.

### Politeness gate (modelled: Politeness)

- *Code*: `fetch-md-mcp/politeness.go`. *State*: the `robots.txt` cache and the next free
  slot of each host. *Hard*: locks that are not held while fetches sleep and ask.
  *Correct when* requests keep their distance and rules are not older than they may be.

### Not modelled

| Component | State and operations | Why not |
|---|---|---|
| Brainstorm, fan-out | items dispatch children and wait for them (v03) | the same join as a council's; next in the plan |
| Agent-to-agent, spawned subagents | rows and a poll of a session nobody else has | Consult is the hard case of the poll |
| Pipeline breakers | `breaker_check` and the recorders (v01) | nothing records an outcome, so a breaker never opens |
| Kind circuit breaker | crash counters that pause a kind (v04) | only delays a claim; `Claim` allows more |
| Routing, aliases, spend caps | a provider and model for each request (v08, v09, v63) | a function of tables; its raise is a fault of TurnLoop |
| Context engine, memory lanes | prompts from messages and memory (v04, v14, v45-v55) | read-mostly and about text, but for the order of a history, which ModelCalls has |
| Governance, gates, rigor | verdicts parsed from text (v02, v12, v17, v36, v39) | their effect on an item is in WorkItem's choices |
| Schedules, watchman | leader ticks that insert rows that are due | a single insert |
| Knowledge, wiki, graphs | v11, v15, v16, v20, v26, v43, v75 | one transaction at a time, nothing waits for it |
| Crawler, intake, lab, war game | v18, v21, v22, v24, v25, v33, v40 | applications of work items |
| Embeddings, reference resolution | one request, one write | no protocol |
| MCP server, tool servers, console, command lines | handlers over the functions above; documents, git, pages and videos converted | no protocol of their own; rendering and parsing of text |
| Single-room persona loop, administration | one message at a time; HTTP handlers | sequential |

Most of the repository's Go is of the last three kinds: handlers that print or edit one
row, renderers, parsers and tool servers without state. There is nothing in them for a
state machine to say, and the lines the models stand for are a small share of the whole
for that reason.

How they interact: everything meets in `work_queue`. A work item, a persona turn, a
council or a schedule inserts a `chat` row; the workers drive it, through
`tool_dispatch` and `mcp_proxy` rows, to its last answer; triggers on the row's
status tell whoever asked (a judge's dispatch, an item); personas and subagents poll
for it. That a chat ends is `Settles` of TurnLoop, and the models of those who wait take
it from there: a chat is one step of theirs, or a loop of answers. Rows of batch agents
leave the workers' loop for the batch cycle. A cancellation and a spend cap reach
into all of them.

The hazards, each at its line, with the properties that cover it or the plan to do
so, are listed in `PROJECT.json`.

## Modules

### TurnLoop

One session. Variables `kind`, `status`, `parent`, `turn` are columns (or payload
fields) of `work_queue`; `asked` and `replies` are what `messages` holds of an
assistant's tool calls and of their answers; `rounds` is what `iteration_count` finds
committed; `since` and `verdict` are a chat's outcome transaction while it is open; `ran`
and `child` are what a worker has in memory while it dispatches and what
`DispatchWaits` then writes to the row; `job` is the row a worker holds; `bridge` the
rows of the running bridge process.

| Actions | Code |
|---|---|
| `Post`, `Cancel` | `chat_enqueue`, `work_item_cancel` |
| `Claim`, `ChatAnswers`, `ChatCounts`, `ChatAsks`, `ChatStops`, `ChatFails` | `process_one_pending`, the chat arms of `write_outcome` |
| `RunCall`, `EnqueueChild`, `DispatchDone`, `DispatchWaits`, `DispatchFails` | `tool_dispatch`, and its arms of `write_outcome` |
| `Promote`, `PromoteRaises` | `tool_dispatch_complete_waiting` and its per-row handler |
| `StartupReap`, `StartupReapEnds`, `StartupReapRaises`, `PeriodicReap`, `LateReap` | the two reapers |
| `BridgeClaim`, `BridgeAnswers`, `BridgeLoses`, `BridgeRestarts` | `bridge_run.go` |
| `WorkerCrash`, `LeaderCrash`, `ServerRestart` | a worker, the leader or the server dies |

A transaction is one step, and so its steps cannot fail separately; what runs outside
transactions lies between steps. The outcome transaction of a chat is three, since what
it reads matters and it is long: it begins (its message will carry that time), it counts
the session's assistant messages since the last user message, and it commits. It runs at
READ COMMITTED, so the count sees the committed messages and its own, not those of
another branch of a forked loop whose transaction is open too; and it does not see its
own either when a user message came since it began. `Post` is one step: nothing that it
reads bears on a property. Abstractions: a promotion's deadline may have passed
at any time; a reap that takes several rows is several steps; a write that raises (a
cap) ends the worker and leaves the row in progress, which is a crash (and so, for
the leader's own writes, the fault `leader_alone`). Left out: the judge gate, cost,
NOTIFY, the kind breaker, and the order of pending rows. The workers that start with the
leader claim nothing while it reaps (`Running`): in the code nothing but their first wait
of 500 ms keeps them from it, and a reap that takes longer would be what `leader_alone`
allows.

`Turn` is what the user of a session sees: the model is asked, may call tools within
its budget, is asked again when they have answered, and ends. `TurnLoop!Contract`
instantiates it with a phase read off the rows.

### ModelCalls

The same session seen through its messages. `history` is `stewards.messages` in the
order of `created_at, id`; `hand` the chat a worker has sent and the pieces of the answer
it has read; `openCalls` the answers whose calls are being dispatched. `PieceComes` is a
line of the stream, put into its accumulator as it arrives; `SlotOf`, `Gather` and
`GatherBlock` find the accumulator of a piece by index, id or order, and `Assembled` (with `Recovered` for calls that leak as markup)
is what `AnswerDone`, `AnswerTruncated`, `StreamEndsEarly` and `AnswerInMarkup` store.
`RepliesLand` is a dispatch that ends in either way, `DispatchDies` is
`synthesize_tool_failure`, `DispatchDropped` a refused or cancelled continuation,
`PullLever` the muting lever. `Composed`, `Normalized`, `Sanitized`, `Translated` are
`compose_messages`, `gemini_normalize_tool_turns`, `sanitize_phantom_tool_history` and
`anthropic_body_from_openai` as operators over the history; a history may begin with a
phantom call stored before those were dropped. `continues` names the answer that the
request made by the last step continues. A chat that is sent again after a passing error
has stored nothing, so tries are not counted. The notice near the step limit, images,
pinned and compressed forms (which keep calls and ids) and replies behind a judge are left
out; transactions write their messages in the order in which they begin.

### PersonaGateway

One persona. `session`, `busy`, `pending`, `hops`, `archiving`, `minds` are fields of
`channelState` (`sessionID`, `busy`, `pending`, `hops`, `archiving`,
`charSessions`); `turns` are the goroutines of `runTurn`, `results` the channel they
report to, `gen` the generation that tells results of earlier connections apart;
`mind`, `outbox` are rows. `HumanSpeaks` and `PersonaSpeaks` are `handleMessage`
through `maybeStartTurn`, `Archive` and `ResumeProgram` are `handleProgram`,
`SessionAppears` and `TurnEnds` the two reports of `runTurn`, `SessionKnown`,
`TurnDone` and `Discard` the arms of `applyTurnResult`, `Drain` is `drainOutbox`,
`Connect`, `Disconnect`, `HostRestart` the supervision. Three variables record what the
properties speak of: `chain`, the turns that personas' messages caused since a human spoke or
resumed the program, which nothing else resets; `renewals`, how often since then an archive
(`Rotate`) or a new connection (`ForgetRooms`) zeroed a hop count that was not zero; `strays`,
beats that were posted in another room than the one they were said in. Each session remembers
in `at` the room and voice of its latest turn, so that a beat has both. One character stands for
all, and `CastRooms` are the rooms that may cast it, all of them if need be; typing, reactions and the
retry of an empty answer (inside one turn) are left out.

### BatchDispatch

One provider. `status`, `batchId`, `attempts` are columns of `work_queue`, `batch`,
`opened`, `submits` of `provider_batches`; `old` marks a submission 25 h ago;
`provider` and `sent` are the provider's side. The leader's position in its cycle is
`phase`, `todo`, `cur`, `lines`. `Sweep` is `batch_sweep_stuck`, `OpenBatch` is
`batch_open`, `StartSubmit`, `Post`, `RecordSubmitted`, `PostFails` are `submit_batch`
with `batch_submitted` and `batch_submit_failed`, `PollNothing`, `StartRead`,
`ReadLine`, `ReadBreaks`, `ReadEnds` are `poll_batch` with `apply_batch_result` and
`batch_ended`; `Crash` is a leader that dies or a transaction that fails, anywhere. A
chat costs one unit, which is also its estimate. The windows that only delay (fill,
backoff, poll interval) are taken to pass between two cycles.

`BatchService` is what whoever enqueues a chat sees of it: the chat waits, is away, comes
back unanswered a limited number of times, and is answered or fails for good, while no
more is away or answered than the cap pays for. `ImplementsService` says that the rows of
BatchDispatch behave so, with `status` and `attempts` for its variables and the larger of
the two limits for its `Retries`.

### WorkItem

One item of a pipeline of `LastStage` stages. `item` holds columns of `work_items`
(`status`, `current_stage`, `failure_count`, `escalation_state`, `quarantined_at`, the
loops taken); `running` counts the chats of each stage, `givenUp` those whose row was
reaped or cancelled while their worker goes on; `output` is `stage_results`; `resuming`
is what a person's dispatch has read. `ChatAnswers`, `ChatFails`, `ChatStalls`,
`LateAnswer` are the completion trigger, with `FinishStage` and `AfterStage` for
`work_item_advance`; `ChatReaped` and `CancelItem` kill rows; `StewardRetries` and
`StewardGivesUp` are `steward_tick`; `ReadStatus`, `WriteDispatch`, `DispatchRefused`
are a person's dispatch and its lock-free read; `RetryMarks`, `ClaimBoost`,
`ResolveBoost`, `FailBoost` the other handlers. Which of several outcomes a stage has (a
halt, a loop back, a park, the next stage) depends on text and pipeline, and is open.
`forked` marks an item that a late answer, a lost race or an escalation met when it had
moved on, which the code does not prevent: `OutputsOwn` and `ClosedStays` speak of the
others. Chats of governance (gates, sabbath, atonement; v27) carry the item's id and fire
the trigger too, and some of its operations set `awaiting_review` without a look at the
status: neither is modelled, and nothing is claimed of items that meet them.

### JudgeGate

One tool dispatch. `text` is what each reply's message holds, `judge` the transaction
that ends each judge's row, `rowLock` who holds the dispatch's row. `PromoteReplies` and
`PromoteFails` are the promotion, `DispatchReplies` the worker that continues without
looking; `WriteBrief`, `LockGate`, `CommitBrief`, `BriefUndone` are the parts of
`apply_judge_brief` between which other transactions run; a brief is visible to others
from its commit.

### Council

`member` says where each member's chats and their open transaction are, `firing` who
counted nobody missing, `fired` whose stored answers each synthesis was given.
`MemberAnswers` writes and counts, `MemberCommits` reads the answers and commits, and
`MemberFails` is a chat that errors. What is stored is the text of a member's first chat,
whether it is empty, interim or final, since `council_members.work_id` names that chat only. A
member with tools may chat on: its later chats inherit the council's marks
(`chat_post_internal`), store nothing and count again, and so may fire again. Texts
are not told apart; two members of one agent and role, who would share a session, are left
out, and so is the convening of a second council.

### Consult

`said` is the session's assistant messages, `loop` the loop of model calls behind each
question, `caller`, `base`, `got` what each caller has in memory. `TakeBaseline`,
`PutQuestion`, `PollSession` are `ConsultTurn`; `PutQuestion` and `PollRow`
`consultSubagent`. `crowded` are the questions that shared the session while they waited.

### Workspace, Materializer, Drops

*Workspace*: `row`, `mark`, `parked` are rows of `docs`, `knowledge_projections`,
`workspace_conflicts`; `file` is the disk; `toProject` and `writing` the projector's
pass, `unseen` and `shipping` the watcher's. `Catalog` is the view the pass reads,
`Decide` is `workspace_writeback`, taken as one step: it reads the row without a lock, and
an edit that commits between its look and its write is left out. A body stands for its
sha.

*Materializer*: `queue` is `pending_file_writes`, `disk` the targets, `drain` each
process that drains: look, write and mark are separate steps. The rows of a pass are a
set of numbers, in the order of `requested_at`, and the least is taken next. An append
that fails is taken to leave nothing, where it may leave part of its text.

*Drops*: `held` is the inbox, `entry` the ledger, `walk` the scan with its snapshot,
`extract` the `mcp_proxy` rows of the extractions.

### Exporter, Politeness, BridgeSessions

*Exporter*: `begun` and `ledger` are transactions on items and what they committed,
`checkpoint` and `savedPoint` the two copies. *Politeness*: one host; `clock` is real
time, and the model assumes that a sleeper wakes on time and that the steps between two
waits take none (`ClockTicks`), without which no pause of a process could be told from a
late request; `Spaced` is about what the code reserves. *BridgeSessions*: `request` is each
call, `mutex` who holds the cache of the bridge process; the MCP server's synchronous proxy
has one of its own, in another process, and is left out.

### MCServices

The smaller models have no variable in common, so one run explores them one at a time:
`scene` says which of them moves. Running two at once would only multiply the states.

## Runs

| Run | Shows | Bounds |
|---|---|---|
| `turnloop_calm` | with workers and the server crashing, caps raising and the bridge losing results: one loop per message, complete and single replies, every closed dispatch continued, closed rows unchanged, and the refinement of `Turn` | 2 workers, 2 calls of which 1 proxied, 3 steps, 7 rows, 2 faults |
| `turnloop_hostile` | with every fault, lone leader restarts, slow dispatches and cancellations too: a row has one owner, the budget bounds the dispatches however outcome transactions overlap, and the session settles | 1 call, 11 rows, 1 fault |
| `turnloop_cancel` | *violated*: after a cancellation the loop goes on | as above, 9 rows |
| `turnloop_leader` | *violated*: a leader that restarts alone makes two continuations of one dispatch | as above, 9 rows |
| `persona_calm` | one turn in a room, kept and separate sessions, and only a shared character's beats in another room | 2 rooms that both cast the character, 1 hop, 2 frames, 2 sessions, 2 connections, archive only of a room with a session or idle |
| `persona_live` | chains of persona turns within the budget and its renewals; no room stays busy, no message waits, no beat is forgotten | 1 room, mentioned policy, 3 frames |
| `persona_archive` | *violated*: an early archive makes a room run two turns | 2 rooms, 3 frames |
| `batch_calm` | no row stranded, answers of the right batch, the cap kept, and the refinement of `BatchService`, in which closed rows are unchanged | 3 chats, 1 of them unsendable, cap 2, 2 batches, 2 posts, 1 crash |
| `batch_stuck` | *violated*: a batch that had ended is marked stuck | as `batch_calm` |
| `services` | a scene for each of the twelve models: see the table below | below |
| `workspace_clobber` | *violated*: a projection is written over a save nobody read | as the scene |
| `council_join` | *violated*: a council whose members have all answered has no synthesis | as the scene |

The scenes of `services`:

| Scene | Shows | Bounds |
|---|---|---|
| workspace | `LandedKept`: what write-back took is in the database; `Converges`: row and file come to agree | 1 edit of a row, 2 events (saves, touches, failures, restarts), 1 resolution |
| politeness | `Spaced`, `PermitRecent` | 2 fetches, intervals 2 and 1, lifetimes 2 and 1, 5 units of time |
| gate | `ResumedWhole`: one resumption with all briefs; `GateLifts`: there is one | 3 replies, 1 raise |
| council | `WholeCouncilHeard` | panel of 3, 1 synthesizer, tool loops, 1 revision, 2 syntheses fired by members |
| item | `OutputsOwn`, `ClosedStays`, `ItemRests` | 2 stages, 1 parked, 1 loop back, 2 chats a stage, 3 interventions |
| consult | `OwnAnswer` | a persona's question and a tool's, 2 model calls each |
| materializer | `WrittenOnce` | 2 drains, 2 rows on 1 path, 1 mishap |
| exporter | `NothingSkipped` | 2 items, batches of 1, 2 instants |
| drops | `FilesLand` | 1 text, 1 binary file, 2 bodies, 3 saves, 2 troubles |
| sessions | `OpenIsCached` | 2 calls, 2 servers, 3 sessions |
| calls | `CallsWhole`: the calls of a whole stream are stored as made; `RequestsPaired`: calls and replies of every request | 2 questions, 2 answers of 2 calls, 1 lever, handles hidden for the 3 newest messages (8 in the code) |
| batch | `Settles`: every chat ends | 2 chats, cap 1, 4 batches, 1 crash |

Why these bounds are enough to be interesting: in TurnLoop two workers give every race
(one that holds the row, one that promotes or reaps), two calls a mixed dispatch with
a resolved and an awaited part, three steps two dispatches in a turn, so that a reaped
first one can disturb the second, and two faults a crash during the recovery from
another. One user message suffices for the properties of a turn, which do not relate
messages (`StepBudget` does, and its theorem is for any number). Seven to eleven rows hold a whole turn of that size; the bound only refuses
further inserts, and runs that check liveness have room for all of them. In
PersonaGateway two connections let a result outlive one and renew the hop budget, two
sessions a rotation, two frames a message in each of two rooms or a message and an
archive, three (in `persona_live` and `persona_archive`) a message, an archive and another
message. One hop reaches the guard. In
BatchDispatch two batches let a row move from one to the other while the first's
results are read again, with a retry limit of 2 posts, 2 overloads and 1 of the
others (5, 3 and 1 in the code): the limits matter only by being reached and not
reached. The batch scene of `services` has batches enough for every requeue the limits
allow, since a chat that found no free batch would wait for ever by the bound's fault
alone.

In the other scenes two of a kind (callers, drains, fetches, items) make every race the
code can have between such processes; three replies and three members make a first, a
middle and a last. Two interventions are needed to cancel an item and reach it again,
the third is the race with it. A workspace needs an edit of the row, one of the file and
a failure between them. Two items of the exporter and batches of one cut ties and commit
late; two bodies of a drop are a change and a change back. Two calls are enough to take
their pieces for one another, two questions and two answers put a question and another
answer between a call and its reply.

Deadlock is not checked in the `turnloop` runs, where a session that has settled with
its posts spent rightly does nothing more, nor in `services` and `council_join`, where a scene that has ended does nothing more.

### The disagreements

- **Cancellation** (`turnloop_cancel`): the comment on `work_item_cancel` promises that
  the loop "cannot keep spending after cancellation". A chat that is with the model when
  the cascade errors its row is written `done` all the same, with its `tool_dispatch`
  row, since the outcome write does not look at the status.
- **The leader alone** (`turnloop_leader`): the startup reaper is leader-only so as not
  to produce "duplicate continuation chats"; but it takes every row in progress, those
  that the other, living workers hold too. When only the leader restarts, the reaper and
  the worker each continue the dispatch.
- **Early archive** (`persona_archive`): `busy` stands for one turn in flight in a room.
  An archive of a room whose first turn has no session yet rotates it at once, without
  the wait that a room with a session gets.
- **Stuck** (`batch_stuck`): a stuck batch is documented to have no end 25 h after its
  submission; the sweep runs before the poll, so after a pause of the leader it gives up
  a batch that ended hours ago, and its rows are sent again or failed unread.

- **Silent clobber** (`workspace_clobber`): `docs/files-interface.md` promises "Never
  silent clobber"; the comparison that keeps the promise is made when a file is read.
  The projector writes without one, so a save between two polls of the watcher is lost
  when the row changed meanwhile.
- **Council** (`council_join`): "Fire synthesize when all proposer + critic members are
  done". Two that end in overlapping transactions each count the other, and nobody fires.

Others were met and have no run of their own; the first four are what the weaker forms of
three invariants leave room for:

- `agents.steps` is declared as "max agentic iterations" (`schema.rs:534`). The branches of a
  forked loop whose outcome transactions overlap do not count each other's messages, and
  pass the budget together; `StepBudget` bounds by how much.
- "any human message resets it. At personaHopBudget the chain stops and the table waits for a
  human" (`gateway.go:81-84`). An archive (`gateway.go:783`), a reconnect
  (`gateway.go:950`) and a restart of the host zero the count as well; `HopChain` adds a budget
  for each.
- A beat goes "to the right channel" (`outbox.go:5-7`). A character that plays in several
  rooms (`characters.go:5`) has one session, and the drain posts its beats to whichever room of
  that session the iteration over the map came to last (`gateway.go:811-821`); `RoomsApart`
  says that no other beats stray.
- "all proposer + critic members are done" (`bgworker.rs:1538`). A member counts as done
  with its first chat, tool calls or not, so a synthesis is fired with the interim (or
  empty) text of a member that is still in its tool loop. What it says in the end is stored
  nowhere, and fires another synthesis, as a synthesizer-role member that answers late does.
  `WholeCouncilHeard` says that no answer is missing, not that it is the last one.

And of less weight: `synthesize_tool_failure` promises a reply for
each call without one, but looks for the id in the whole session, and calls recovered from
markup have the ids `dsml_call_0`, `dsml_call_1` in every answer: a second such dispatch that
dies gets none. A comment in `bgworker.rs` says that only truncation yields a partial call
list; a stream that ends in good order before `[DONE]` does too, and is dispatched. A muted
assistant message loses its calls while their replies stay, which only the Gemini
normalisation repairs. The comment in `escalation.go` on a resolved
item says that `work_item_advance` or `steward_tick` moves the pending item forward; neither
takes one. The comment of v30 on a dismissed conflict expects the row to be projected
again, but its watermark is up to date. `dispatch.go` calls the message a consult takes
"unambiguously this turn's"; `crowded` names the cases where it need not be. In
`parseRobots` a group for this agent without rules falls back to the rules of `*`, which
the comment above it excludes. The breaker of a pipeline is checked before each retry, and no
code records an outcome to it.

## Fairness

`TurnLoop!FairSpec` is weakly fair to each worker, to promotion, to both reapers: each is
called on every 500 ms tick or 60 s pass of a loop that restarts with its process, and a
worker that holds a row finishes it, since every request has a timeout. Nothing is
assumed of the bridge, which may never answer: the wait deadline then resumes the turn,
and that is the point of `Settles`. Faults are bounded in number, as otherwise a worker may
crash for ever.

`PersonaGateway!FairSpec` is weakly fair to the end of turns (their contexts have a
deadline), to the loop taking results and to the drain tick. Messages, connections and
what the model says are not forced.

`BatchDispatch!FairSpec` is weakly fair to the leader's cycle as a whole and to the
passing of days. The provider need not answer, so a batch that never ends must be swept.

`MCServices!FairServicesSpec` takes the fairness of the component that runs. *Workspace*: the
projector's and the watcher's loops go on, each as a whole; people need do nothing.
*JudgeGate*: each judge's row ends, and a transaction that has begun ends. *WorkItem*: chats end
and the steward ticks, and a call of a person's to the database ends; nobody has to
resume, retry or resolve anything. *Drops*: the watcher scans, and the bridge runs what is
enqueued. *BatchDispatch* as above. Nothing strong is assumed anywhere.

## Proofs

Every theorem is about a module's own specification and holds for every value of its
constants that the named assumption of the module allows; further hypotheses are listed
with the theorem. A module's proof finds an inductive invariant, shows that `Init` implies
it and each action keeps it (a lemma per action or per kind of action), and reads the
property off it. The modules that MCServices runs are proved about one by one, over
`ItemSpec`, `CouncilSpec` and so on; `Services_proofs` then shows that a behaviour of the
run's own `ServicesSpec` is one of each of them, so that their theorems hold of it. Every
safety invariant and action property of a passing run is the statement of a theorem.

### TurnLoop

For any number of workers, calls, rows, steps, messages and faults, under
`TurnLoopAssumption`. `TurnLoopHostile_proofs` allows every fault:

- `TypeCorrect`: `TypeOK`;
- `SingleOwner`: `ClaimedOnce`, no row in two workers' hands;
- `BudgetHolds`: `StepBudget`, provided `Steps` is not zero. With `W` workers and `n` user
  messages there are at most `(n - 1)(Steps - 2 + 2W) + Steps - 2 + W` tool rounds. A single
  loop has `Steps - 1` for a message, and only the first term of each bracket would be
  left if transactions were serial. The other terms are what overlapping transactions
  can add: `W - 1` that passed the count beside the last one that should, and for each later
  message up to `W` that were open when it came and add a round to neither count.

The invariant is `HInv` with `Budget`. `HInv`: a row a worker holds is no longer pending, and
no fault makes it so again; a dispatch hangs under some row. `Budget` has two accounts of the
dispatches done or due, that is, with the open transactions that may still dispatch (`Old`, of
earlier messages, and `Passed`, which have counted). `WithinCost`: while the committed
rounds are below the budget, each dispatch followed a round of its own, in whichever branch.
`PassedCost`: from there on only those that had passed remain, a worker each.

`TurnLoop_proofs` also assumes `Calm`: the faults `leader_alone` and `slow` do not
happen. With either of them the reaper takes a row that a worker still holds, and
`turnloop_leader` shows what follows; crashes, server restarts, caps, cancellations and
bridge failures are all allowed. It proves

- `SingleLoop`: `OneDriver`, one loop per user message;
- `CompleteReplies`: `AnsweredOnce`, one reply to each call a continuation continues and
  never two to any;
- `SingleContinuation`: `OneContinuation`, no dispatch is continued twice;
- `TurnsGoOn`: `DispatchContinues`, and none is left without its continuation;
- `RowsStayOver`: `TerminalStays`, for `"cancel" \notin Faults` (a cancellation closes rows
  that workers hold, and they write over it: `turnloop_cancel` shows what follows);
- `LoopImplementsTurn`: `ImplementsTurn`, for `MaxPosts <= 1`, since `Turn` is the turn of one
  user message.

None of the first three is inductive. The invariant `IInv` adds to them and to `TypeOK`:

- `Fresh`: an id not yet given carries nothing, so an insert disturbs nothing;
- `Holding`: a held row is in progress, or was errored by a cancellation, and nobody holds
  anything while the leader reaps after a restart. Without it a reap could take a row
  whose worker will still write;
- `Links`: a dispatch hangs under a finished, unheld chat row, alone, and has run only
  what that chat asked. It makes the dispatch the one heir of its chat;
- `Unanswered`: until a dispatch closes, none of its calls has a reply. It turns "adds a
  reply to each" into "has exactly one";
- `Continued`: a chat row continues a dispatch that is over, so a dispatch that is still
  active has no continuation yet.

The steps fall into three kinds, a lemma each: `QuietStep` for those that insert
nothing, `ContinueStep` for all that close a dispatch and enqueue its continuation (the
worker, the promotion, the two reapers), and the three other inserts (`Post`,
`ChatAsks`, `EnqueueChild`) over the shared `InsertFacts`.

The last three theorems build on `IInv`. `TurnsGoOn` needs `Ended` (what a dispatch that is
over left behind) and `OfATurn` (a dispatch hangs under a chat, so that it has one to
continue). `RowsStayOver` needs `InHand`: without cancellations a held row is in progress,
so the worker that writes last writes first. The simulation maps each action to a step of
`Turn` or to a stutter; `OneActive` says that with one message at most one row of the loop
is active, so that what any row does is what the turn does.

### PersonaGateway

`PersonaGateway_proofs`, for any rooms, voices, messages, budgets and faults, under
`PersonaGatewayAssumption`:

- `GatewayTypes`: `TypeOK`, and `ChainsBounded`: `HopChain`, by `Chained`: the hops a room
  counts, with what the renewed budgets paid for (`Given`), bound the turns of the chain since
  a human spoke and the persona's message that waits, which was counted when it was taken;
- `RoomsStayApart`: `RoomsApart`, whichever rooms cast the character. `Homed` says of each
  session, turn, result and beat which voice it has and which room it belongs to, also
  when that room is left or another connection made it: the persona's sessions are at
  home in one room, and those of the character (`character_sessions` has no channel) in any
  that may cast it, so that only its beats can be posted elsewhere;
- `OneTurnAtATime`: `OneTurn`, and `SessionsStay`: `SessionKept`, for `~EarlyArchive`, the
  case in which an archive finds a first turn without its session, which
  `persona_archive` shows. `Served` counts, over the connections, the turns and results
  of a room against its `busy`; `Kept` says that what a turn in flight will report is the
  session its room has.

### BatchDispatch

`BatchDispatch_proofs`, for any chats, batches, limits, caps and crashes: `BatchTypes`
(`TypeOK`), `RowsNeverStranded` (`NoRowStranded`), `RowsAnsweredByTheirBatch`
(`AnsweredByItsBatch`), `BatchCapKept` (`CapKept`), `FinishedRowsStay`
(`TerminalStays`: no step changes a row that is over) and `BatchesServe`
(`ImplementsService`). They share `BInv`, whose core is `Pointers`: what the leader
remembers between its transactions (`phase`, `cur`, `lines`) is still true of the tables
when the next one begins, whatever was cancelled meanwhile. `RowsOpened` ties the rows of a
batch to its reservation, `AnsweredAfterSubmit` its answers to what the provider
accepted, and `AttemptsLeft` the sweep to the submit attempts.

`BatchesServe` is a step simulation. `ComesBack` maps every use of `batch_row_failed` (the
sweep, a result line, the end of a reading) to a `ComeBack` of the service, `GivenUp` every
use of `batch_fail_row`, and `LeavesPaidFor` reads the guard of `GoAway` off `CapKept` after
`OpenBatch`: that the estimates in `opened` cover all that is away is what makes the cap of
the detailed model that of the service. Every other step stutters.

### Work items, gate, councils, consults

`Substrate_proofs`:

- `ResultsOwn` (`OutputsOwn`) and `ClosedItemsStay` (`ClosedStays`) of WorkItem. Of an item
  that nothing forked, `ItemInv` says that a chat that runs is the only one, and that the
  item is in progress on its stage: `OutputsOwn` alone does not say whose chat ends next.
  So the stage under which a result is stored is the chat's own.
- `ResumedOnceWhole` (`ResumedWhole`) of JudgeGate. `GateInv` says what
  each state of the dispatch's row allows: on a gated one `nexts` counts `resumed`, one
  judge at a time is between its lock and its commit, and the judge that is to resume
  leaves no other reply pending and was not preceded.
- `SynthesisHeardAll` (`WholeCouncilHeard`) of Council. `CouncilInv`: a member that fires
  has seen the rest of the panel committed, and an answer is never withdrawn, neither by
  the tool loop behind it nor by a later chat that fails.
- `AnswersOwn` (`OwnAnswer`) of Consult. `ConsultInv` says that a message after a
  waiting caller's baseline is of its own question, or the caller is `crowded`, because a
  loop that runs while it waits is its own.
- `ItemTypes`, `GateTypes`, `CouncilTypes` and `ConsultTypes`, lemmas: the type invariants
  with their bounds. Those of WorkItem rest on `ItemCaps`: the steward retries below
  three failures, a loop back is taken below `MaxHops`, and a chat is started or given up
  below `MaxRuns`.

### Processes around the database

`Bridge_proofs`:

- `NoneLeftOpen` (`OpenIsCached`) of BridgeSessions. `SessionsInv` says that
  one call at a time is inside the cache, that one which connects met no session, and that
  the cache holds sessions of the right server.
- `RequestsSpaced` (`Spaced`) of Politeness. `LedgerInv` says that reserved slots lie
  apart by the earlier one's interval, each with its interval before the ledger's next free
  slot and the last request's interval after that request, and that no slot is over while
  its fetch sleeps.
- `PermitsAreRecent` (`PermitRecent`), of the same specification. `RobotsInv`: an entry of
  the cache and each answer still on its way that allow the path are not older than the
  moment at which the host last allowed it (`CacheRecent`, `AnswerRecent`), so an answer
  that is stored late makes no entry look fresher than it is.
- `ExportSkipsNothing` (`NothingSkipped`) of Exporter, under `ExporterAssumption`.
  `ExporterInv` says it of the checkpoint in memory, of the batch in hand and of the saved
  one at once: each finished item at or before either was taken, came late or was cut off.
- `WritesHappenOnce` (`WrittenOnce`) of Materializer, under `MaterializerAssumption`.
  `WritesInv` holds its strong part while no two drains overlapped: `OneAtATime`, a drain
  alone has a row in hand; `Unwritten`, that row is not in its file unless the drain has
  just written it; `NewFile` and `Counted` relate file and rows that share it.

- `LandedBodiesKept` (`LandedKept`) of Workspace, under `WorkspaceAssumption` (there are
  bodies for all the edits, saves and resolutions that are left to people). `WorkspaceInv`
  adds that what the projector and the watcher carry came from the row and the file
  (`FromRows`, `Shipped`), so that what replaces a landed body was stored before.
- `PolitenessTypes`, `SessionsTypes`, `ExporterTypes`, `MaterializerTypes`, `DropsTypes` and
  `WorkspaceTypes`, lemmas, as above.

### ModelCalls

`ModelCalls_proofs`, under `ModelCallsAssumption`:

- `CallsStayWhole` (`CallsWhole`). Of the answer that is being read, `HandInv` gives the
  accumulators as a function of the pieces sent (`Gathered`), in the order in which the
  calls began (`BegunTo`), for each of the ways in which a provider names its calls; of
  the history, `HistoryInv` says that each answer that ended is one message, `Stored` as it
  was assembled, so that no later step, lever or reply touches its calls.
- `RequestsStayPaired` (`RequestsPaired`). `MessageInv` says what a history holds: calls only
  in assistant messages, each named or the phantom of an old history, and replies only to
  answers whose dispatch is over, under ids that such an answer can have. `PairInv`
  adds that, while a request continues an answer with ids of its own, the history ends in
  replies among which each of its calls has one, and none elsewhere (`TailReplies`). The
  rest follows any such history through the translations: the phantoms dropped with their
  replies, calls without replies and replies without calls dropped by the normalisation,
  results gathered into one message. These are recursive functions over positions
  or selections by a test, and a claim about all positions is proved from its
  least counterexample, which exists because `<` is well-founded on the naturals.
- `ModelTypes`, a lemma: the type invariant, by `RestInv` and the bounds of a history.

### Services

`Services_proofs` is about `MCServices` itself. `SceneStays`: the scene is chosen once.
`StepsApart` and `EachOnItsOwn`: the variables of a module change by its own steps only and
only in its scene, so a behaviour of `ServicesSpec` is one of `ItemSpec`, `CouncilSpec`,
... and of `Spec` of BatchDispatch and ModelCalls, each of which may rest. It follows

- `ServicesTyped`: `TypesOK`, all their type invariants at once;
- `ServicesSafe`: every other invariant and action property of the run.

### Only model-checked

Liveness (`Settles`, `Quiesces`, `BeatsDelivered`, `Converges`, `GateLifts`, `ItemRests`,
`FilesLand`, and `Settles` of BatchDispatch), which is out of the prover's reach: it has no
rules for `ENABLED`, and fairness is about nothing else.

## Plan

What is left, in this order:

1. Fan-out and brainstorm: an item that waits for its children, as a module of its own.
2. Two user messages of one session in TurnLoop (ModelCalls has them, over the messages
   and not over the rows), and a reap of several rows in one transaction.
3. Two workspaces over one scope, and two characters that share rooms.
4. An abstract pipeline refined by WorkItem where nothing forks it, with its simulation.
