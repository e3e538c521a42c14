------------------------------ MODULE Exporter ------------------------------
(***************************************************************************)
(* The export of finished work items as spans (otel_export.go). A tick      *)
(* fetches the oldest finished items updated after the checkpoint, posts    *)
(* their spans and then saves the newest updated_at of the batch as the new *)
(* checkpoint. The updated_at of a row is the time its transaction began,   *)
(* and it becomes visible when the transaction commits.                     *)
(***************************************************************************)
EXTENDS Naturals, FiniteSets

CONSTANTS
    Finish,     \* work items
    BatchLimit,      \* otelBatchLimit
    Horizon     \* bound on the clock, in units of the resolution of updated_at

ASSUME ExporterAssumption == Horizon \in Nat \ {0}

VARIABLES
    now,
    begun,      \* the start of the transaction that writes each item, 0 for none
    ledger,     \* each item as committed: whether it is finished, and updated_at
    checkpoint, \* the exporter's copy
    savedPoint, \* otel.checkpoint
    sending,    \* the items of the batch, with their updated_at
    tick,       \* where the tick is
    exported,   \* the updated_at of each item the collector took last
    overtaken   \* items committed with an updated_at the exporter had passed, or
                \* cut off from items of the same updated_at

exporterVars == <<now, begun, ledger, checkpoint, savedPoint, sending, tick, exported, overtaken>>

Newest(rows) == CHOOSE t \in {r.at : r \in rows} : \A r \in rows : r.at <= t

ExporterInit ==
    /\ now = 1
    /\ begun = [i \in Finish |-> 0]
    /\ ledger = [i \in Finish |-> [finished |-> FALSE, at |-> 0]]
    /\ checkpoint = 0 /\ savedPoint = 0 /\ exported = [i \in Finish |-> 0]
    /\ sending = {} /\ tick = "rest" /\ overtaken = {}

TimePasses ==
    /\ now < Horizon /\ now' = now + 1
    /\ UNCHANGED <<begun, ledger, checkpoint, savedPoint, sending, tick, exported, overtaken>>

\* A transaction that finishes, reopens or touches an item begins.
BeginUpdate(i) ==
    /\ begun[i] = 0
    /\ begun' = [begun EXCEPT ![i] = now]
    /\ UNCHANGED <<now, ledger, checkpoint, savedPoint, sending, tick, exported, overtaken>>

\* How far the exporter has looked, or may believe after a restart.
Passed(t) == t <= checkpoint \/ t <= savedPoint \/ \E r \in sending : t <= r.at

CommitUpdate(i) ==
    /\ begun[i] # 0
    /\ \E finished \in BOOLEAN :
           ledger' = [ledger EXCEPT ![i] = [finished |-> finished, at |-> begun[i]]]
    /\ begun' = [begun EXCEPT ![i] = 0]
    /\ overtaken' = IF Passed(begun[i]) THEN overtaken \cup {i} ELSE overtaken \ {i}
    /\ UNCHANGED <<now, checkpoint, savedPoint, sending, tick, exported>>

\* Finished items updated after the checkpoint.
Due == {[item |-> i, at |-> ledger[i].at] :
            i \in {x \in Finish : ledger[x].finished /\ ledger[x].at > checkpoint}}

\* Seeded bug: the query has no order.
OldestFirstNot(rows) == Cardinality(rows) = BatchLimit \/ rows = Due
\* ORDER BY updated_at LIMIT: ties are cut anywhere.
OldestFirst(rows) ==
    /\ Cardinality(rows) = BatchLimit \/ rows = Due
    /\ \A r \in rows, s \in Due \ rows : r.at <= s.at

FetchItems ==
    /\ tick = "rest" /\ Due # {}
    /\ \E rows \in SUBSET Due :
        /\ Cardinality(rows) \in 1 .. BatchLimit /\ OldestFirst(rows)
        /\ sending' = rows
        /\ overtaken' = overtaken \cup {s.item : s \in {x \in Due \ rows : x.at = Newest(rows)}}
    /\ tick' = "fetched"
    /\ UNCHANGED <<now, begun, ledger, checkpoint, savedPoint, exported>>

\* otlpPost; the answer may be lost.
PostSpans ==
    /\ tick = "fetched"
    /\ exported' = [i \in Finish |-> IF \E r \in sending : r.item = i
                                     THEN Newest({r \in sending : r.item = i}) ELSE exported[i]]
    /\ tick' \in {"posted", "failed"}
    /\ UNCHANGED <<now, begun, ledger, checkpoint, savedPoint, sending, overtaken>>

SavePoint ==
    /\ tick = "posted"
    /\ savedPoint' = Newest(sending) /\ checkpoint' = Newest(sending)
    /\ sending' = {} /\ tick' = "rest"
    /\ UNCHANGED <<now, begun, ledger, exported, overtaken>>

\* A read, the post or the save fails: the next tick starts from the same
\* checkpoint. A save may have reached the table all the same.
TickFails ==
    /\ tick # "rest"
    /\ savedPoint' \in {savedPoint} \cup (IF tick = "posted" THEN {Newest(sending)} ELSE {})
    /\ sending' = {} /\ tick' = "rest"
    /\ UNCHANGED <<now, begun, ledger, checkpoint, exported, overtaken>>

\* The bridge restarts and loads the checkpoint.
RestartExport ==
    /\ checkpoint # savedPoint \/ tick # "rest"
    /\ checkpoint' = savedPoint /\ sending' = {} /\ tick' = "rest"
    /\ UNCHANGED <<now, begun, ledger, savedPoint, exported, overtaken>>

ExporterNext ==
    \/ TimePasses \/ FetchItems \/ PostSpans \/ SavePoint \/ TickFails \/ RestartExport
    \/ \E i \in Finish : BeginUpdate(i) \/ CommitUpdate(i)

ExporterSpec == ExporterInit /\ [][ExporterNext]_exporterVars

----------------------------------------------------------------------------
(* Properties *)

\* Every variable has its type.
ExporterTypeOK ==
    LET Sent == [item : Finish, at : 0 .. Horizon]
    IN  /\ now \in 1 .. Horizon /\ begun \in [Finish -> 0 .. Horizon]
        /\ ledger \in [Finish -> [finished : BOOLEAN, at : 0 .. Horizon]]
        /\ {checkpoint, savedPoint} \subseteq 0 .. Horizon
        /\ sending \subseteq Sent /\ exported \in [Finish -> 0 .. Horizon]
        /\ tick \in {"rest", "fetched", "posted", "failed"}
        /\ overtaken \subseteq Finish

\* A finished item that the saved checkpoint has passed was taken by the
\* collector as it is, whatever failed between its post and the save; unless
\* it was committed behind the checkpoint or cut off from its equals.
NothingSkipped ==
    \A i \in Finish \ overtaken :
        ledger[i].finished /\ ledger[i].at <= savedPoint
            => exported[i] = ledger[i].at
=============================================================================
