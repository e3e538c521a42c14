------------------------------ MODULE JudgeGate ------------------------------
(***************************************************************************)
(* The judge gate of one tool dispatch (v04-context-engine.sql §9, v47).    *)
(* A reply over the threshold is set aside when it is inserted: a judge     *)
(* reads it in a chat row of its own, and the promotion that inserted it    *)
(* leaves the dispatch without a continuation. The trigger on each judge's  *)
(* row writes the brief over the reply and, when no other reply is pending,  *)
(* enqueues the continuation. Several judges end in concurrent transactions *)
(* that see of each other only what is committed; they meet on the lock of  *)
(* the dispatch's row.                                                      *)
(***************************************************************************)
EXTENDS Naturals

CONSTANTS
    Reply,      \* the replies of the dispatch
    GateRaises  \* bound on the times chat_post_internal raises

VARIABLES
    gate,       \* the dispatch's row: open, gated, done or error
    text,       \* what each reply's message holds
    judge,      \* the transaction that ends each judge's row
    rowLock,    \* the judges that hold the lock of the dispatch's row
    resumed,    \* judge_continuation_enqueued
    nexts,      \* continuations of the dispatch
    direct,     \* some continuation was enqueued without looking at the replies
    workItem,   \* whether the session's work item still runs
    raises

gateVars == <<gate, text, judge, rowLock, resumed, nexts, direct, workItem, raises>>

Judged == {r \in Reply : judge[r] # "none"}
PendingReplies == {r \in Reply : text[r] = "pending"}

GateInit ==
    /\ gate = "open"
    /\ text = [r \in Reply |-> "none"] /\ judge = [r \in Reply |-> "none"]
    /\ rowLock = {} /\ resumed = FALSE /\ nexts = 0 /\ direct = FALSE
    /\ workItem = "running" /\ raises = 0

\* Replies land, some of them set aside for a judge.
Land(big) ==
    /\ text' = [r \in Reply |-> IF r \in big THEN "pending" ELSE "small"]
    /\ judge' = [r \in Reply |-> IF r \in big THEN "reading" ELSE "none"]

\* tool_dispatch_complete_waiting: the continuation, unless a judge is reading.
PromoteReplies ==
    /\ gate = "open"
    /\ \E big \in SUBSET Reply :
        /\ Land(big)
        /\ gate' = IF big = {} THEN "done" ELSE "gated"
        /\ nexts' = IF big = {} THEN nexts + 1 ELSE nexts
    /\ UNCHANGED <<rowLock, resumed, direct, workItem, raises>>

\* The continuation raises, and the dispatch is closed without its replies.
PromoteFails ==
    /\ gate = "open" /\ raises < GateRaises
    /\ raises' = raises + 1
    /\ gate' = "error"
    /\ UNCHANGED <<text, judge, rowLock, resumed, nexts, direct, workItem>>

\* A dispatch none of whose calls had to be waited for is continued by its
\* worker, which does not look whether a reply was set aside.
DispatchReplies ==
    /\ gate = "open"
    /\ \E big \in SUBSET Reply : Land(big)
    /\ gate' = "done" /\ nexts' = nexts + 1 /\ direct' = TRUE
    /\ UNCHANGED <<rowLock, resumed, workItem, raises>>

\* A judge's row ends, with a brief or without: apply_judge_brief writes over
\* the reply, visible to others when the transaction commits.
WriteBrief(r) ==
    /\ judge[r] = "reading"
    /\ judge' = [judge EXCEPT ![r] = "wrote"]
    /\ UNCHANGED <<gate, text, rowLock, resumed, nexts, direct, workItem, raises>>

\* Seeded bug: the row is read without a lock.
MayLockAnyhow == TRUE
MayLock == rowLock = {}

\* Seeded bug: the judges still reading are not counted.
StillPendingNone(r) == FALSE
\* Replies this transaction sees pending: its own is a brief.
StillPending(r) == PendingReplies \ {r} # {}

\* SELECT ... FOR UPDATE of the dispatch's row, and the reads that follow.
LockGate(r) ==
    /\ judge[r] = "wrote" /\ MayLock
    /\ judge' = [judge EXCEPT ![r] = IF resumed \/ StillPending(r) \/ workItem # "running"
                                     THEN "leaves" ELSE "resumes"]
    /\ rowLock' = rowLock \cup {r}
    /\ UNCHANGED <<gate, text, resumed, nexts, direct, workItem, raises>>

\* The transaction ends.
TransactionEnds(r) ==
    /\ judge[r] \in {"leaves", "resumes"}
    /\ judge' = [judge EXCEPT ![r] = "over"]
    /\ rowLock' = rowLock \ {r}
    /\ UNCHANGED <<gate, direct, workItem>>

\* The continuation, if it falls to this judge, and the brief are committed.
CommitBrief(r) ==
    /\ TransactionEnds(r)
    /\ text' = [text EXCEPT ![r] = "brief"]
    /\ resumed' = (resumed \/ judge[r] = "resumes")
    /\ nexts' = IF judge[r] = "resumes" THEN nexts + 1 ELSE nexts
    /\ UNCHANGED raises

\* The continuation raises. The handler undoes all the trigger did, the brief
\* too; the judge's row ends all the same.
BriefUndone(r) ==
    /\ TransactionEnds(r)
    /\ judge[r] = "resumes" /\ raises < GateRaises
    /\ raises' = raises + 1
    /\ UNCHANGED <<text, resumed, nexts>>

\* The work item is cancelled, fails or completes.
ItemStops ==
    /\ workItem = "running" /\ workItem' = "stopped"
    /\ UNCHANGED <<gate, text, judge, rowLock, resumed, nexts, direct, raises>>

JudgeEnds(r) == WriteBrief(r) \/ LockGate(r) \/ CommitBrief(r) \/ BriefUndone(r)

GateNext ==
    \/ PromoteReplies \/ PromoteFails \/ DispatchReplies \/ ItemStops
    \/ \E r \in Reply : JudgeEnds(r)

GateSpec == GateInit /\ [][GateNext]_gateVars

\* Every judge's row ends (TurnLoop's Settles), and a transaction ends.
FairGateSpec == GateSpec /\ \A r \in Reply : WF_gateVars(JudgeEnds(r))

----------------------------------------------------------------------------
(* Properties *)

\* Every variable has its type.
GateTypeOK ==
    /\ gate \in {"open", "gated", "done", "error"}
    /\ text \in [Reply -> {"none", "small", "pending", "brief"}]
    /\ judge \in [Reply -> {"none", "reading", "wrote", "leaves", "resumes", "over"}]
    /\ rowLock \subseteq Reply
    /\ resumed \in BOOLEAN /\ direct \in BOOLEAN
    /\ nexts \in Nat /\ workItem \in {"running", "stopped"} /\ raises \in Nat

\* A gated turn is resumed once at most, and not while a judge still reads:
\* the model never sees a placeholder for a reply, and never two turns.
ResumedWhole == ~direct => nexts <= 1 /\ (nexts = 1 => PendingReplies = {})

\* A gated turn is resumed in the end, by the last of its judges, unless its
\* work item stopped or a continuation raised.
GateLifts == gate = "gated" ~> nexts = 1 \/ workItem = "stopped" \/ raises > 0
=============================================================================
