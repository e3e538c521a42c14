------------------------------ MODULE WorkItem ------------------------------
(***************************************************************************)
(* One work item and the stages of its pipeline: the dispatch of a stage,   *)
(* the trigger that advances the item when a stage's chat ends, the        *)
(* steward's retries, the escalation that people resolve, and the calls of  *)
(* people (resume, retry, cancel). The trigger locks the item before it     *)
(* reads it and the steward selects FOR UPDATE; a person's dispatch reads   *)
(* the status without a lock and writes later.                              *)
(* Chats of governance that carry the item's id fire the trigger too and are *)
(* left out, as are the governance operations that set awaiting_review.     *)
(* The chats of a stage are counted; the rows behind one chat are TurnLoop's *)
(* business.                                                                *)
(***************************************************************************)
EXTENDS Naturals

CONSTANTS
    LastStage,   \* stages are 1 .. LastStage
    Parked,      \* stages without auto_advance
    Loops,       \* stages that route_on may send back to stage 1
    MaxHops,     \* route_on_max_hops
    MaxRuns,    \* bound on the chats of one stage that run, or were given up, at once
    Interventions \* bound on what people do and what is given up, together

ASSUME WorkItemAssumption ==
    /\ LastStage \in Nat \ {0} /\ Parked \subseteq 1 .. LastStage /\ Loops \subseteq 1 .. LastStage
    /\ {MaxHops, MaxRuns, Interventions} \subseteq Nat

Stage == 1 .. LastStage

VARIABLES
    item,       \* status, current_stage, failure_count, escalation_state, quarantined, hops
    running,    \* chats of each stage that run
    givenUp,    \* chats whose row was reaped or cancelled and whose worker still runs
    output,     \* stage_results: the stage whose chat gave each result, or Boost
    resuming,   \* the status and stage a person's dispatch has read, not yet written
    acts,       \* interventions so far
    retries,    \* retries a person asked for
    stalled,    \* a chat ended and nothing follows it
    forked      \* a late answer, a lost race or an escalation met a live item

itemVars == <<item, running, givenUp, output, resuming, acts, retries, stalled, forked>>

NotResuming == [status |-> "none", stage |-> 1]
Boost == LastStage + 1
NoOutput == 0
Closed == {"completed", "cancelled"}

ItemInit ==
    /\ item = [status |-> "pending", stage |-> 1, failures |-> 0, rescue |-> "normal",
               quarantined |-> FALSE, hops |-> 0]
    /\ running = [s \in Stage |-> 0] /\ givenUp = [s \in Stage |-> 0]
    /\ output = [s \in Stage |-> NoOutput]
    /\ resuming = NotResuming /\ acts = 0 /\ retries = 0
    /\ stalled = FALSE /\ forked = FALSE

Intervene == acts < Interventions /\ acts' = acts + 1

\* A chat of stage s is enqueued and the item runs; or the dispatch raises, and
\* the item waits for a person: _safe parks what is unconfigured, and the
\* trigger and the steward park whatever else it raises.
DispatchStage(it, s, left) ==
    \/ /\ left[s] < MaxRuns
       /\ running' = [left EXCEPT ![s] = @ + 1]
       /\ item' = [it EXCEPT !.status = "in_progress"]
    \/ /\ running' = left
       /\ item' = [it EXCEPT !.status = "awaiting_review"]

----------------------------------------------------------------------------
(* The end of a chat *)

\* Seeded bug: any item is failed.
FailItemAlways == [item EXCEPT !.status = "failed"]
\* work_item_fail
FailItem == IF item.status \in Closed THEN item ELSE [item EXCEPT !.status = "failed"]

\* Seeded bug: the loops back are not limited.
AfterStageUnbounded ==
    {[item EXCEPT !.stage = 1, !.status = "pending", !.hops = @ + 1]}

\* work_item_advance: the result is stored under the item's stage, whichever
\* stage the chat was for. Then a halt, a loop back, the end or the next stage.
AfterStage ==
    {[item EXCEPT !.status = "cancelled"]}
    \cup (IF item.stage \notin Loops THEN {}
          ELSE IF item.hops < MaxHops
          THEN {[item EXCEPT !.stage = 1, !.status = "pending", !.hops = @ + 1]}
          ELSE {[item EXCEPT !.status = "awaiting_review"]})
    \cup (IF item.stage = LastStage THEN {[item EXCEPT !.status = "completed"]}
          ELSE {[item EXCEPT !.stage = @ + 1,
                    !.status = IF item.stage \in Parked THEN "awaiting_review" ELSE "pending"]})

\* handle_work_item_chat_completion of a final answer of stage s. An item that
\* does not run is failed instead, where it may be; a pending one is dispatched
\* unless its token budget is spent, which parks it.
FinishStage(s, left) ==
    IF item.status \in {"in_progress", "awaiting_review", "pending"}
    THEN /\ output' = [output EXCEPT ![item.stage] = s]
         /\ \E it \in AfterStage :
                IF it.status = "pending" THEN DispatchStage(it, it.stage, left)
                ELSE item' = it /\ running' = left
    ELSE item' = FailItem /\ running' = left /\ UNCHANGED output

ChatAnswers(s) ==
    /\ running[s] > 0
    /\ FinishStage(s, [running EXCEPT ![s] = @ - 1])
    /\ UNCHANGED <<givenUp, resuming, acts, retries, stalled, forked>>

ChatFails(s) ==
    /\ running[s] > 0
    /\ running' = [running EXCEPT ![s] = @ - 1]
    /\ item' = FailItem
    /\ UNCHANGED <<givenUp, output, resuming, acts, retries, stalled, forked>>

\* The continuation of a tool call raises, or the model ends its answer for a
\* reason that is not known as final.
ChatStalls(s) ==
    /\ running[s] > 0 /\ Intervene
    /\ running' = [running EXCEPT ![s] = @ - 1] /\ stalled' = TRUE
    /\ UNCHANGED <<item, givenUp, output, resuming, retries, forked>>

\* The reaper gives the row up while its worker still runs.
ChatReaped(s) ==
    /\ running[s] > 0 /\ givenUp[s] < MaxRuns /\ Intervene
    /\ running' = [running EXCEPT ![s] = @ - 1]
    /\ givenUp' = [givenUp EXCEPT ![s] = @ + 1]
    /\ item' = FailItem
    /\ UNCHANGED <<output, resuming, retries, stalled, forked>>

\* The worker of such a row writes its answer after all: the row goes from
\* error to done, and the trigger runs as for any other.
LateAnswer(s) ==
    /\ givenUp[s] > 0
    /\ givenUp' = [givenUp EXCEPT ![s] = @ - 1]
    /\ forked' = (forked \/ item.status \in {"in_progress", "awaiting_review", "pending"})
    /\ FinishStage(s, running)
    /\ UNCHANGED <<resuming, acts, retries, stalled>>

----------------------------------------------------------------------------
(* The steward *)

\* Failures the steward may answer; breaker_check always permits, since
\* nothing records an outcome to a breaker.
Retryable ==
    /\ item.status = "failed" /\ item.failures < 3
    /\ ~item.quarantined /\ item.rescue = "normal"

\* Seeded bug: the count rolls back with the dispatch.
CountFailureNot == item
\* A retry is counted whatever becomes of it.
CountFailure == [item EXCEPT !.failures = @ + 1]

StewardRetries ==
    /\ Retryable
    /\ DispatchStage(CountFailure, item.stage, running)
    /\ UNCHANGED <<givenUp, output, resuming, acts, retries, stalled, forked>>

\* The cost cap quarantines, an exhausted ladder queues the item for people,
\* and an error in the tick parks it.
StewardGivesUp ==
    /\ Retryable
    /\ item' \in {[item EXCEPT !.quarantined = TRUE], [item EXCEPT !.rescue = "queued"],
                  [item EXCEPT !.status = "awaiting_review"]}
    /\ UNCHANGED <<running, givenUp, output, resuming, acts, retries, stalled, forked>>

----------------------------------------------------------------------------
(* People *)

\* Seeded bug: an item is dispatched whatever its status.
DispatchableAny(marked) == item.status \notin Closed
\* The statuses work_item_dispatch_stage takes; a retry may dispatch a failed item.
Dispatchable(marked) ==
    \/ item.status \in {"pending", "awaiting_review"}
    \/ marked /\ item.status = "failed"

\* A dispatch reads the item, without a lock.
ReadStatus ==
    /\ resuming = NotResuming /\ Intervene
    /\ Dispatchable(retries > 0)
    /\ resuming' = [status |-> item.status, stage |-> item.stage]
    /\ UNCHANGED <<item, running, givenUp, output, retries, stalled, forked>>

\* And writes a chat of the stage it read, whatever the item is by now.
WriteDispatch ==
    /\ resuming # NotResuming /\ resuming' = NotResuming
    /\ forked' = (forked \/ item.status # resuming.status \/ item.stage # resuming.stage)
    /\ DispatchStage(item, resuming.stage, running)
    /\ UNCHANGED <<givenUp, output, acts, retries, stalled>>

\* The dispatch raises before it wrote anything.
DispatchRefused ==
    /\ resuming # NotResuming /\ resuming' = NotResuming
    /\ UNCHANGED <<item, running, givenUp, output, acts, retries, stalled, forked>>

\* chatWorkItemRetryHandler: a failed or cancelled item is marked failed, to be
\* dispatched by the handler's next statement; or by the steward before that.
RetryMarks ==
    /\ item.status \in {"failed", "cancelled"} /\ Intervene
    /\ item' = [item EXCEPT !.status = "failed"]
    /\ retries' = retries + 1
    /\ UNCHANGED <<running, givenUp, output, resuming, stalled, forked>>

\* work_item_cancel: the rows of the item's sessions are killed, which runs the
\* completion trigger for each; their workers go on.
CancelItem ==
    /\ item.status \notin Closed /\ Intervene
    /\ \A s \in Stage : running[s] + givenUp[s] <= MaxRuns
    /\ item' = [item EXCEPT !.status = "cancelled"]
    /\ running' = [s \in Stage |-> 0]
    /\ givenUp' = [s \in Stage |-> running[s] + givenUp[s]]
    /\ UNCHANGED <<output, resuming, retries, stalled, forked>>

\* work_item_escalation_claim looks at the escalation alone, not at the status.
ClaimBoost ==
    /\ item.rescue = "queued"
    /\ item' = [item EXCEPT !.rescue = "in_progress"]
    /\ UNCHANGED <<running, givenUp, output, resuming, acts, retries, stalled, forked>>

\* Nor does work_item_escalation_resolve: it stores the output and the item is
\* pending on the same stage, also one that was retried, cancelled or completed.
ResolveBoost ==
    /\ item.rescue = "in_progress"
    /\ item' = [item EXCEPT !.rescue = "resolved", !.status = "pending", !.failures = 0]
    /\ output' = [output EXCEPT ![item.stage] = Boost]
    /\ forked' = (forked \/ item.status # "failed")
    /\ UNCHANGED <<running, givenUp, resuming, acts, retries, stalled>>

FailBoost ==
    /\ item.rescue = "in_progress"
    /\ item' = [item EXCEPT !.rescue = "failed", !.quarantined = TRUE]
    /\ UNCHANGED <<running, givenUp, output, resuming, acts, retries, stalled, forked>>

----------------------------------------------------------------------------

ChatEnds == \E s \in Stage : ChatAnswers(s) \/ ChatFails(s)
Steward == StewardRetries \/ StewardGivesUp

ItemNext ==
    \/ ChatEnds \/ Steward
    \/ \E s \in Stage : ChatStalls(s) \/ ChatReaped(s) \/ LateAnswer(s)
    \/ ReadStatus \/ WriteDispatch \/ DispatchRefused \/ RetryMarks \/ CancelItem
    \/ ClaimBoost \/ ResolveBoost \/ FailBoost

ItemSpec == ItemInit /\ [][ItemNext]_itemVars

\* Chats end (TurnLoop's Settles) and the steward ticks; a call to the database
\* ends. Nobody has to resume, retry or resolve.
FairItemSpec ==
    ItemSpec /\ WF_itemVars(ChatEnds) /\ WF_itemVars(Steward)
             /\ WF_itemVars(WriteDispatch \/ DispatchRefused)

----------------------------------------------------------------------------
(* Properties *)

\* Every variable has its type.
ItemTypeOK ==
    /\ item \in [status : Closed \cup {"pending", "in_progress", "awaiting_review", "failed"},
                 stage : Stage, failures : 0 .. 3, quarantined : BOOLEAN, hops : 0 .. MaxHops,
                 rescue : {"normal", "queued", "in_progress", "resolved", "failed"}]
    /\ running \in [Stage -> 0 .. MaxRuns] /\ givenUp \in [Stage -> 0 .. MaxRuns]
    /\ output \in [Stage -> {NoOutput, Boost} \cup Stage]
    /\ resuming \in [status : {"none", "pending", "awaiting_review", "failed"}, stage : Stage]
    /\ stalled \in BOOLEAN /\ forked \in BOOLEAN

\* A stage's result comes from a chat of that stage, whatever was retried,
\* resumed, cancelled or looped back, while no late answer, lost race or
\* escalation met an item that had moved on.
OutputsOwn == ~forked => \A s \in Stage : output[s] \in {NoOutput, Boost, s}

\* A completed or cancelled item is only reopened by a person's retry: killing
\* the chats of a cancelled item does not make it one the steward retries.
ClosedStays ==
    [][item.status \in Closed /\ item'.status \notin Closed
           => retries' # retries \/ forked']_itemVars

\* Left alone, the item comes to rest where only a person can move it: no
\* loop of retries or of stages goes on for ever.
ItemRests ==
    <>[](\/ stalled \/ item.status \in Closed \cup {"pending", "awaiting_review"}
         \/ (item.status = "failed" /\ ~Retryable))
=============================================================================
