--------------------------- MODULE BatchDispatch ---------------------------
(***************************************************************************)
(* Chats sent through the provider's batch interface at half price          *)
(* (v66-batch-dispatch.sql and run_batch_cycle in bgworker.rs). The leader  *)
(* groups the waiting rows of work_queue into a batch, posts it, polls it   *)
(* and writes each result; rows that come back unanswered wait for another  *)
(* batch a limited number of times. Every call over HTTP lies between two   *)
(* transactions, so a chat may arrive or be cancelled, or the leader may     *)
(* die, at each of those points.                                            *)
(*                                                                          *)
(* One provider, and one unit of money per chat: the estimate that batch_open *)
(* reserves and the cost recorded for an answer. Time shows as a batch       *)
(* turning 25 h old; the fill window, the backoff and the poll interval are   *)
(* taken to pass between two cycles.                                        *)
(***************************************************************************)
EXTENDS Integers, FiniteSets, FiniteSetsExt

CONSTANTS
    MaxChats,       \* bound on the chats
    MaxBatches,     \* bound on the batches
    Unsendable,     \* chats for which no request can be built
    Cap,            \* the provider's enforced spend cap
    SubmitLimit,    \* attempts to post a batch (5 in the code)
    OverloadLimit,  \* times an overloaded row goes back (3)
    OtherLimit,     \* times an expired, canceled, missing or stuck row does (1)
    MaxCrashes      \* bound on the leader's deaths

Chat  == 1 .. MaxChats          \* in the order of creation
Batch == 1 .. MaxBatches
None  == 0

ASSUME BatchDispatchAssumption ==
    /\ MaxChats \in Nat /\ MaxBatches \in Nat /\ Unsendable \subseteq Chat
    /\ Cap \in Nat /\ SubmitLimit \in Nat \ {0}
    /\ OverloadLimit \in Nat /\ OtherLimit \in Nat /\ MaxCrashes \in Nat

VARIABLES
    \* work_queue
    status,     \* of each chat: free (not created), batch_pending, batched, done, error
    batchId,    \* batch_id
    attempts,   \* batch_attempts
    \* provider_batches
    batch,      \* status of each batch: free, opening, submitted, ended, failed, stuck
    opened,     \* the rows it was opened with: request_count and est_cost_micro
    submits,    \* submit_attempts
    old,        \* batches submitted 25 h ago
    \* the provider
    provider,   \* its side of each batch: none, running, ended, late (after 25 h)
    sent,       \* the rows it accepted
    \* the leader
    phase,      \* where it is in its cycle
    todo,       \* the batches left in this phase
    cur,        \* the batch it is submitting or reading
    lines,      \* the requests to post, or the result lines left to read
    crashes,
    \* what happened
    answeredBy  \* the batch whose result was written to each row

rowVars == <<status, batchId, attempts, answeredBy>>
batchVars == <<batch, opened, submits, old>>
providerVars == <<provider, sent>>
leaderVars == <<phase, todo, cur, lines, crashes>>
vars == <<rowVars, batchVars, providerVars, leaderVars>>

Init ==
    /\ status = [c \in Chat |-> "free"]
    /\ batchId = [c \in Chat |-> None]
    /\ attempts = [c \in Chat |-> 0]
    /\ batch = [b \in Batch |-> "free"]
    /\ opened = [b \in Batch |-> {}]
    /\ submits = [b \in Batch |-> 0]
    /\ old = {}
    /\ provider = [b \in Batch |-> "none"]
    /\ sent = [b \in Batch |-> {}]
    /\ phase = "sweep" /\ todo = {} /\ cur = None /\ lines = {} /\ crashes = 0
    /\ answeredBy = [c \in Chat |-> None]

----------------------------------------------------------------------------
(* Around the leader *)

Live(c) == status[c] \in {"batch_pending", "batched"}

\* route_batch_chat: a single-shot chat of a batch agent.
Enqueue ==
    /\ \E c \in Chat :
         /\ status[c] = "free" /\ \A d \in Chat : d < c => status[d] # "free"
         /\ status' = [status EXCEPT ![c] = "batch_pending"]
    /\ UNCHANGED <<batchId, attempts, answeredBy, batchVars, providerVars, leaderVars>>

\* work_item_cancel: the cascade marks live rows error.
Cancel ==
    /\ \E c \in Chat : Live(c) /\ status' = [status EXCEPT ![c] = "error"]
    /\ UNCHANGED <<batchId, attempts, answeredBy, batchVars, providerVars, leaderVars>>

\* The provider is done with a batch that the leader has not given up.
ProviderEnds ==
    /\ \E b \in Batch :
         /\ provider[b] = "running" /\ batch[b] \in {"opening", "submitted"}
         /\ provider' = [provider EXCEPT ![b] = IF b \in old THEN "late" ELSE "ended"]
    /\ UNCHANGED <<rowVars, batchVars, sent, leaderVars>>

DayPasses ==
    /\ \E b \in Batch : batch[b] = "submitted" /\ b \notin old /\ old' = old \cup {b}
    /\ UNCHANGED <<rowVars, batch, opened, submits, providerVars, leaderVars>>

----------------------------------------------------------------------------
(* Rows that come back without an answer *)

RowsOf(b) == {c \in Chat : status[c] = "batched" /\ batchId[c] = b}

\* How often batch_row_failed lets a row go back, by what the provider said.
Limit(k) == CASE k = "overloaded" -> OverloadLimit
              [] k \in {"expired", "missing", "stuck"} -> OtherLimit
              [] k = "invalid" -> 0

\* batch_row_failed for each row of R.
RowsFail(R, k) ==
    LET back == {c \in R : attempts[c] < Limit(k)} IN
    /\ status' = [c \in Chat |-> IF c \in back THEN "batch_pending"
                                 ELSE IF c \in R THEN "error" ELSE status[c]]
    /\ batchId' = [c \in Chat |-> IF c \in back THEN None ELSE batchId[c]]
    /\ attempts' = [c \in Chat |-> IF c \in back THEN attempts[c] + 1 ELSE attempts[c]]
    /\ UNCHANGED answeredBy

\* batch_fail_row for each row of R, whatever its status.
RowsEnd(R) ==
    /\ status' = [c \in Chat |-> IF c \in R THEN "error" ELSE status[c]]
    /\ UNCHANGED <<batchId, attempts, answeredBy>>

----------------------------------------------------------------------------
(* The leader's cycle: sweep, open, submit what is opening, poll what is     *)
(* submitted.                                                               *)

\* batch_sweep_stuck.
Sweep ==
    /\ phase = "sweep"
    /\ LET stuck == {b \in old : batch[b] = "submitted"} IN
         /\ batch' = [b \in Batch |-> IF b \in stuck THEN "stuck" ELSE batch[b]]
         /\ RowsFail(UNION {RowsOf(b) : b \in stuck}, "stuck")
    /\ phase' = "open"
    /\ UNCHANGED <<opened, submits, old, providerVars, todo, cur, lines, crashes>>

\* batch_open reserves an estimate until the batch is closed.
Open(b) == batch[b] \in {"opening", "submitted"}
Spent == Cardinality({c \in Chat : status[c] = "done"})
Reserved == Cardinality({r \in Batch \X Chat : Open(r[1]) /\ r[2] \in opened[r[1]]})

\* Seeded bug: what open batches will cost is not counted.
RoomSpentOnly == Cap - Spent
Room == Cap - Spent - Reserved

\* The oldest waiting rows that fit.
Fits ==
    LET waiting == {c \in Chat : status[c] = "batch_pending"} IN
    {c \in waiting : Cardinality({d \in waiting : d <= c}) <= Room}

OpenBatch ==
    /\ phase = "open"
    /\ \/ \* nothing fits, or the bound on batches is reached
          /\ Fits = {} \/ \A b \in Batch : batch[b] # "free"
          /\ UNCHANGED <<status, batchId, batch, opened>>
       \/ \E b \in Batch :
            /\ Fits # {}
            /\ batch[b] = "free" /\ \A a \in Batch : a < b => batch[a] # "free"
            /\ batch' = [batch EXCEPT ![b] = "opening"]
            /\ opened' = [opened EXCEPT ![b] = Fits]
            /\ status' = [c \in Chat |-> IF c \in Fits THEN "batched" ELSE status[c]]
            /\ batchId' = [c \in Chat |-> IF c \in Fits THEN b ELSE batchId[c]]
    /\ phase' = "submit"
    /\ todo' = {b \in Batch : batch'[b] = "opening"}
    /\ UNCHANGED <<attempts, answeredBy, submits, old, providerVars, cur, lines, crashes>>

\* submit_batch selects the rows and builds the requests. A row without one is
\* failed, and a batch without any ends.
StartSubmit ==
    /\ phase = "submit" /\ todo # {}
    /\ LET b == Min(todo)
           requests == RowsOf(b) \ Unsendable IN
         /\ RowsEnd(RowsOf(b) \cap Unsendable)
         /\ IF requests = {}
            THEN /\ batch' = [batch EXCEPT ![b] = "ended"]
                 /\ todo' = todo \ {b}
                 /\ UNCHANGED <<phase, cur, lines>>
            ELSE /\ phase' = "post" /\ cur' = b /\ lines' = requests
                 /\ UNCHANGED <<batch, todo>>
    /\ UNCHANGED <<opened, submits, old, providerVars, crashes>>

SubmitsEnd ==
    /\ phase = "submit" /\ todo = {}
    /\ phase' = "poll"
    /\ todo' = {b \in Batch : batch[b] = "submitted"}
    /\ UNCHANGED <<rowVars, batchVars, providerVars, cur, lines, crashes>>

Back(p) == phase' = p /\ todo' = todo \ {cur} /\ cur' = None /\ lines' = {}

\* The provider accepts the batch and the leader gets its id.
Post ==
    /\ phase = "post"
    /\ provider' = [provider EXCEPT ![cur] = "running"]
    /\ sent' = [sent EXCEPT ![cur] = lines]
    /\ phase' = "record"
    /\ UNCHANGED <<rowVars, batchVars, todo, cur, lines, crashes>>

\* batch_submitted.
RecordSubmitted ==
    /\ phase = "record"
    /\ batch' = [batch EXCEPT ![cur] = "submitted"]
    /\ submits' = [submits EXCEPT ![cur] = @ + 1]
    /\ Back("submit")
    /\ UNCHANGED <<rowVars, opened, old, providerVars, crashes>>

\* Seeded bug: the rows of a batch that cannot be submitted are forgotten.
RowsToFailNone(b) == {}
RowsToFail(b) == RowsOf(b)

\* Seeded bug: one attempt too many.
MayRetryOnceMore(b) == submits[b] + 1 <= SubmitLimit
MayRetry(b) == submits[b] + 1 < SubmitLimit

\* batch_submit_failed: the answer was an error, or never came (then the
\* provider may run a batch that nobody will poll).
PostFails ==
    /\ phase = "post"
    /\ submits' = [submits EXCEPT ![cur] = @ + 1]
    /\ \E retryable \in BOOLEAN :
         IF retryable /\ MayRetry(cur)
         THEN UNCHANGED <<rowVars, batch>>
         ELSE /\ batch' = [batch EXCEPT ![cur] = "failed"]
              /\ RowsEnd(RowsToFail(cur))
    /\ Back("submit")
    /\ UNCHANGED <<opened, old, providerVars, crashes>>

\* poll_batch: not ended, or no answer.
PollNothing ==
    /\ phase = "poll" /\ todo # {}
    /\ todo' = todo \ {Min(todo)}
    /\ UNCHANGED <<rowVars, batchVars, providerVars, phase, cur, lines, crashes>>

\* The batch has ended; its results may miss some of the rows.
StartRead ==
    /\ phase = "poll" /\ todo # {}
    /\ LET b == Min(todo) IN
         /\ provider[b] \in {"ended", "late"}
         /\ cur' = b
         /\ lines' \in SUBSET sent[b]
    /\ phase' = "read"
    /\ UNCHANGED <<rowVars, batchVars, providerVars, todo, crashes>>

\* apply_batch_result takes a row only while it is batched, and in this batch.
\* Seeded bugs: any batch's row, and a row that was cancelled.
TakesAnyBatch(c) == status[c] = "batched"
TakesCancelled(c) == batchId[c] = cur /\ status[c] # "done"
Takes(c) == status[c] = "batched" /\ batchId[c] = cur

ReadLine ==
    /\ phase = "read"
    /\ \E c \in lines :
         /\ lines' = lines \ {c}
         /\ \/ ~Takes(c) /\ UNCHANGED rowVars
            \/ \* succeeded, and written
               /\ Takes(c)
               /\ status' = [status EXCEPT ![c] = "done"]
               /\ answeredBy' = [answeredBy EXCEPT ![c] = cur]
               /\ UNCHANGED <<batchId, attempts>>
            \/ Takes(c) /\ \E k \in {"overloaded", "expired", "invalid"} : RowsFail({c}, k)
    /\ UNCHANGED <<batchVars, providerVars, phase, todo, cur, crashes>>

\* The stream breaks; the next poll reads it again from its start.
ReadBreaks ==
    /\ phase = "read"
    /\ Back("poll")
    /\ UNCHANGED <<rowVars, batchVars, providerVars, crashes>>

\* batch_ended.
ReadEnds ==
    /\ phase = "read" /\ lines = {}
    /\ batch' = [batch EXCEPT ![cur] = IF @ = "submitted" THEN "ended" ELSE @]
    /\ RowsFail(RowsOf(cur), "missing")
    /\ Back("poll")
    /\ UNCHANGED <<opened, submits, old, providerVars, crashes>>

PollsEnd ==
    /\ phase = "poll" /\ todo = {}
    /\ phase' = "sweep"
    /\ UNCHANGED <<rowVars, batchVars, providerVars, todo, cur, lines, crashes>>

\* The leader dies and starts a new cycle, or one of its transactions fails.
Crash ==
    /\ crashes < MaxCrashes
    /\ crashes' = crashes + 1
    /\ phase' = "sweep" /\ todo' = {} /\ cur' = None /\ lines' = {}
    /\ UNCHANGED <<rowVars, batchVars, providerVars>>

----------------------------------------------------------------------------

Cycle ==
    \/ Sweep \/ OpenBatch
    \/ StartSubmit \/ SubmitsEnd \/ Post \/ PostFails \/ RecordSubmitted
    \/ PollNothing \/ StartRead \/ ReadLine \/ ReadBreaks \/ ReadEnds \/ PollsEnd

Next == Enqueue \/ Cancel \/ ProviderEnds \/ DayPasses \/ Cycle \/ Crash

Spec == Init /\ [][Next]_vars

\* The leader keeps cycling, and time passes. Nothing obliges the provider to
\* answer.
FairSpec == Spec /\ WF_vars(Cycle) /\ WF_vars(DayPasses)

----------------------------------------------------------------------------
(* Properties *)

\* Every column has its type.
TypeOK ==
    /\ status \in [Chat -> {"free", "batch_pending", "batched", "done", "error"}]
    /\ batchId \in [Chat -> Batch \cup {None}]
    /\ attempts \in [Chat -> Nat]
    /\ answeredBy \in [Chat -> Batch \cup {None}]
    /\ batch \in [Batch -> {"free", "opening", "submitted", "ended", "failed", "stuck"}]
    /\ opened \in [Batch -> SUBSET Chat]
    /\ submits \in [Batch -> 0 .. SubmitLimit]
    /\ old \subseteq Batch
    /\ provider \in [Batch -> {"none", "running", "ended", "late"}]
    /\ sent \in [Batch -> SUBSET Chat]
    /\ phase \in {"sweep", "open", "submit", "post", "record", "poll", "read"}
    /\ todo \subseteq Batch /\ cur \in Batch \cup {None} /\ lines \subseteq Chat
    /\ crashes \in 0 .. MaxCrashes

\* No row is stranded: the batch of a batched row is still open, so some later
\* cycle posts, polls or sweeps it, whatever failed and whenever the leader died.
NoRowStranded ==
    \A c \in Chat : status[c] = "batched" => batchId[c] \in Batch /\ Open(batchId[c])

\* A row's answer is the one of the batch it was in: a result of an earlier
\* batch, read again after the row went back, is not taken for it.
AnsweredByItsBatch ==
    \A c \in Chat : status[c] = "done" => answeredBy[c] = batchId[c] /\ c \in sent[batchId[c]]

\* batch_open keeps what was spent and what is on its way within the cap.
CapKept == Spent + Cardinality({c \in Chat : status[c] = "batched"}) <= Cap

\* A row that was answered, failed or cancelled stays so: "a cancelled row is
\* never written", however late its result arrives.
TerminalStays == [][\A c \in Chat : status[c] \in {"done", "error"} => status'[c] = status[c]]_vars

Retries == IF OverloadLimit < OtherLimit THEN OtherLimit ELSE OverloadLimit

Service == INSTANCE BatchService

\* Seen from the rows alone, batches, leader and provider are a plain service:
\* whoever dies or answers late, each row that is away was waiting and paid for,
\* comes back a limited number of times, and once over is not written again.
ImplementsService == Service!Spec

\* Every chat is answered or fails in the end, through lost posts, endless
\* polls, overload and leader deaths, unless the cap has no room left for it.
Settles == \A c \in Chat : Live(c) ~> (~Live(c) \/ Spent >= Cap)

\* "stuck (no end 25 h after submit)": a batch marked stuck had not ended.
StuckHasNoEnd == \A b \in Batch : batch[b] = "stuck" => provider[b] # "ended"
=============================================================================
