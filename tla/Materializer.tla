---------------------------- MODULE Materializer ----------------------------
(***************************************************************************)
(* The queue of file writes (pending_file_writes in v02-governance.sql) and *)
(* the drain that empties it (stewards-cli/main.go runMaterializeWrites).   *)
(* The bridge (materializer.go) runs a drain at start-up, on a notification *)
(* and every minute, and kills one that takes longer; a git hook or a person *)
(* may run another at the same time. A drain selects its rows once, then     *)
(* for each row looks at the file, writes it and marks the row, in separate *)
(* steps that no transaction holds together.                                *)
(***************************************************************************)
EXTENDS Naturals, Sequences, FiniteSetsExt

CONSTANTS
    Drain,      \* drains that may run at once
    Writes,     \* bound on the rows requested, numbered in the order of requested_at
    Target,     \* target paths
    PassLimit,      \* --limit
    Mishaps     \* bound on failed writes, lost marks and killed drains

ASSUME MaterializerAssumption == Writes \in Nat /\ Mishaps \in Nat

VARIABLES
    queue,      \* pending_file_writes: path, mode and materialized_at of each row
    flagged,    \* rows whose source the quote gate holds
    disk,       \* each target: whether it exists, and the rows written to it
    drain,      \* each drain: the rows it still has, and its step at the first
    overlapped, \* two drains ran at once
    unmarked,   \* rows written and then not marked
    mishaps

materializerVars == <<queue, flagged, disk, drain, overlapped, unmarked, mishaps>>

Idle == [rows |-> {}, step |-> "look"]
PendingWrites == {w \in DOMAIN queue : ~queue[w].marked}

MaterializerInit ==
    /\ queue = <<>> /\ flagged = {}
    /\ disk = [p \in Target |-> [there |-> FALSE, text |-> <<>>]]
    /\ drain = [d \in Drain |-> Idle]
    /\ overlapped = FALSE /\ unmarked = {} /\ mishaps = 0

\* The enqueue_*_file functions; the notification may be missed, the tick not.
RequestWrite ==
    /\ Len(queue) < Writes
    /\ \E p \in Target, mode \in {"create", "append"} :
           queue' = Append(queue, [path |-> p, mode |-> mode, marked |-> FALSE])
    /\ UNCHANGED <<flagged, disk, drain, overlapped, unmarked, mishaps>>

\* The quote oracle flags a digest or clears it.
MarkQuotes(w) ==
    /\ flagged' = IF w \in flagged THEN flagged \ {w} ELSE flagged \cup {w}
    /\ UNCHANGED <<queue, disk, drain, overlapped, unmarked, mishaps>>

\* The oldest pending rows that the gate lets through.
Selected ==
    LET open == PendingWrites \ flagged
    IN  {w \in open : Cardinality({v \in open : v < w}) < PassLimit}

StartDrain(d) ==
    /\ drain[d] = Idle /\ Selected # {}
    /\ drain' = [drain EXCEPT ![d].rows = Selected]
    /\ overlapped' = (overlapped \/ \E e \in Drain \ {d} : drain[e] # Idle)
    /\ UNCHANGED <<queue, flagged, disk, unmarked, mishaps>>

At(d, step) == drain[d].rows # {} /\ drain[d].step = step
Row1(d) == Min(drain[d].rows)   \* the rows are taken oldest first
Dest(d) == queue[Row1(d)].path
Creates(d) == queue[Row1(d)].mode = "create"
NextRow(d) == drain' = [drain EXCEPT ![d] = [rows |-> @.rows \ {Row1(d)}, step |-> "look"]]

\* Seeded bug: a file that exists is written over.
RefusedNever(d) == FALSE
\* Create mode refuses a file that exists.
Refused(d) == Creates(d) /\ disk[Dest(d)].there

\* The row is refused, with a note that leaves it pending: the file exists,
\* the path escapes the root, the SQL does not parse, or mkdir fails.
Refuse(d) ==
    /\ At(d, "look")
    /\ \/ Refused(d) /\ UNCHANGED mishaps
       \/ mishaps < Mishaps /\ mishaps' = mishaps + 1
    /\ NextRow(d)
    /\ UNCHANGED <<queue, flagged, disk, overlapped, unmarked>>

Look(d) ==
    /\ At(d, "look") /\ ~Refused(d)
    /\ drain' = [drain EXCEPT ![d].step = "write"]
    /\ UNCHANGED <<queue, flagged, disk, overlapped, unmarked, mishaps>>

\* os.WriteFile truncates, whatever the look said; an append opens at the end.
WriteText(d) ==
    /\ At(d, "write")
    /\ disk' = [disk EXCEPT ![Dest(d)] =
           [there |-> TRUE,
            text |-> IF Creates(d) THEN <<Row1(d)>> ELSE Append(@.text, Row1(d))]]
    /\ drain' = [drain EXCEPT ![d].step = "mark"]
    /\ UNCHANGED <<queue, flagged, overlapped, unmarked, mishaps>>

\* The write fails, and leaves the file it made empty. An append that leaves
\* part of its text is taken for one that leaves none.
WriteTextFails(d) ==
    /\ At(d, "write") /\ mishaps < Mishaps /\ mishaps' = mishaps + 1
    /\ disk' = [disk EXCEPT ![Dest(d)] =
           [there |-> TRUE, text |-> IF Creates(d) THEN <<>> ELSE @.text]]
    /\ NextRow(d)
    /\ UNCHANGED <<queue, flagged, overlapped, unmarked>>

MarkWritten(d) ==
    /\ At(d, "mark")
    /\ queue' = [queue EXCEPT ![Row1(d)].marked = TRUE]
    /\ NextRow(d)
    /\ UNCHANGED <<flagged, disk, overlapped, unmarked, mishaps>>

\* The UPDATE fails: the file is written and the row stays pending.
MarkLost(d) ==
    /\ At(d, "mark") /\ mishaps < Mishaps /\ mishaps' = mishaps + 1
    /\ unmarked' = unmarked \cup {Row1(d)}
    /\ NextRow(d)
    /\ UNCHANGED <<queue, flagged, disk, overlapped>>

\* The bridge stops, or the drain outlives its minute.
KillDrain(d) ==
    /\ drain[d] # Idle /\ mishaps < Mishaps /\ mishaps' = mishaps + 1
    /\ unmarked' = IF At(d, "mark") THEN unmarked \cup {Row1(d)} ELSE unmarked
    /\ drain' = [drain EXCEPT ![d] = Idle]
    /\ UNCHANGED <<queue, flagged, disk, overlapped>>

MaterializerNext ==
    \/ RequestWrite
    \/ \E w \in DOMAIN queue : MarkQuotes(w)
    \/ \E d \in Drain :
        \/ StartDrain(d) \/ Refuse(d) \/ Look(d) \/ WriteText(d) \/ WriteTextFails(d)
        \/ MarkWritten(d) \/ MarkLost(d) \/ KillDrain(d)

MaterializerSpec == MaterializerInit /\ [][MaterializerNext]_materializerVars

----------------------------------------------------------------------------
(* Properties *)

\* Every variable has its type.
MaterializerTypeOK ==
    /\ queue \in Seq([path : Target, mode : {"create", "append"}, marked : BOOLEAN])
    /\ flagged \subseteq DOMAIN queue /\ unmarked \subseteq DOMAIN queue
    /\ disk \in [Target -> [there : BOOLEAN, text : Seq(1 .. Writes)]]
    /\ drain \in [Drain -> [rows : SUBSET (1 .. Writes), step : {"look", "write", "mark"}]]
    /\ overlapped \in BOOLEAN /\ mishaps \in 0 .. Mishaps

Times(w) == Cardinality({i \in DOMAIN disk[queue[w].path].text : disk[queue[w].path].text[i] = w})

\* A row marked as written is in its file exactly once, whatever failed in
\* between and whichever rows share the file: unless two drains ran at once,
\* or the row was once written and not marked.
WrittenOnce ==
    ~overlapped => \A w \in DOMAIN queue \ unmarked : queue[w].marked => Times(w) = 1
=============================================================================
