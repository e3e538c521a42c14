-------------------------------- MODULE Drops --------------------------------
(***************************************************************************)
(* Ingest by drop (dropwatcher.go, v28-files-interface.sql §4 to §6). A      *)
(* scan takes a snapshot of the ledger, walks the files, and ships each one  *)
(* whose path and sha the ledger does not have; text becomes a doc at once,  *)
(* other files an extraction that the bridge runs on its own clock. The end  *)
(* of a scan reads the outcomes of extractions back.                        *)
(* A body stands for its sha. Each path makes a doc of its own.             *)
(***************************************************************************)
EXTENDS Naturals

CONSTANTS
    Text,       \* text files
    Binary,     \* other files
    Bodies,     \* what a file may hold is 1 .. Bodies
    Saves,      \* bound on what people do to the files
    Troubles    \* bound on failed calls, failed ingests and extractions, and restarts

VARIABLES
    held,       \* the body of each file, 0 for no file
    entry,      \* file_drops: the status of each path and body
    pooled,     \* the body the doc of each text file has
    extract,    \* the extraction of each path and body: its mcp_proxy row
    walk,       \* the scan: the ledger it started from and the files to go
    shipped,    \* the file the scan has read and is ingesting
    attempted,  \* errors retried by this process
    saves, troubles,
    before,     \* bodies each file has held
    returned    \* files that were given a body they had held before

dropsVars == <<held, entry, pooled, extract, walk, shipped, attempted, saves, troubles, before, returned>>

Dropped == Text \cup Binary
Content == 1 .. Bodies
Gone == 0
Keys == Dropped \X Content
AtRest == [files |-> {}, known |-> {}, errors |-> {}]
NotShipped == <<>>

DropsInit ==
    /\ held = [p \in Dropped |-> Gone] /\ before = [p \in Dropped |-> {}]
    /\ entry = [k \in Keys |-> "none"] /\ extract = [k \in Keys |-> "none"]
    /\ pooled = [p \in Text |-> Gone]
    /\ walk = AtRest /\ shipped = NotShipped /\ attempted = {}
    /\ saves = 0 /\ troubles = 0 /\ returned = {}

Trouble == troubles < Troubles /\ troubles' = troubles + 1

\* A file is put, changed or half copied, or taken away.
PutFile(p, b) ==
    /\ saves < Saves /\ saves' = saves + 1
    /\ b # held[p] /\ held' = [held EXCEPT ![p] = b]
    /\ before' = [before EXCEPT ![p] = @ \cup {b}]
    /\ returned' = IF b \in before[p] THEN returned \cup {p} ELSE returned
    /\ UNCHANGED <<entry, pooled, extract, walk, shipped, attempted, troubles>>

TakeFile(p) ==
    /\ saves < Saves /\ saves' = saves + 1
    /\ held[p] # Gone /\ held' = [held EXCEPT ![p] = Gone]
    /\ UNCHANGED <<entry, pooled, extract, walk, shipped, attempted, troubles, before, returned>>

----------------------------------------------------------------------------
(* The scan *)

\* Seeded bug: a path is known whatever it holds.
RecordedPath(outcome) ==
    {k \in Keys : \E b \in Content : entry[<<k[1], b>>] = outcome}
\* loadLedger: the paths and bodies recorded with a status.
Recorded(outcome) == {k \in Keys : entry[k] = outcome}

\* The walk begins with the ledger as it is.
LoadLedger ==
    /\ walk = AtRest
    /\ walk' = [files |-> Dropped, known |-> Recorded("ingested"), errors |-> Recorded("error")]
    /\ UNCHANGED <<held, entry, pooled, extract, shipped, attempted, saves, troubles, before, returned>>

Key(p) == <<p, held[p]>>

\* What the ledger has is passed over, an error once it was tried again.
PassOver(p) ==
    held[p] = Gone \/ Key(p) \in walk.known \/ Key(p) \in walk.errors \cap attempted

ReadDrop(p) ==
    /\ shipped = NotShipped /\ p \in walk.files
    /\ IF PassOver(p)
       THEN walk' = [walk EXCEPT !.files = @ \ {p}] /\ UNCHANGED <<shipped, attempted>>
       ELSE /\ shipped' = Key(p) /\ UNCHANGED walk
            /\ attempted' = IF Key(p) \in walk.errors THEN attempted \cup {Key(p)} ELSE attempted
    /\ UNCHANGED <<held, entry, pooled, extract, saves, troubles, before, returned>>

Ships(k) ==
    /\ shipped = k /\ shipped' = NotShipped
    /\ walk' = [walk EXCEPT !.files = @ \ {k[1]}]
    /\ UNCHANGED <<held, attempted, saves, before, returned>>

\* file_drop_ingest and file_drop_ingest_binary, in one transaction: a body
\* that the ledger has as ingested is left alone.
Ingest(k) ==
    /\ Ships(k)
    /\ entry' = [entry EXCEPT ![k] = "ingested"]
    /\ IF entry[k] = "ingested" THEN UNCHANGED <<pooled, extract>>
       ELSE IF k[1] \in Text
       THEN pooled' = [pooled EXCEPT ![k[1]] = k[2]] /\ UNCHANGED extract
       ELSE extract' = [extract EXCEPT ![k] = "runs"] /\ UNCHANGED pooled
    /\ UNCHANGED troubles

\* Routing raises, or no extractor is registered: the ledger says so.
IngestErrs(k) ==
    /\ Ships(k) /\ Trouble
    /\ entry' = [entry EXCEPT ![k] = IF @ = "ingested" THEN @ ELSE "error"]
    /\ UNCHANGED <<pooled, extract>>

\* The call fails and leaves no trace.
CallLost(k) ==
    /\ Ships(k) /\ Trouble
    /\ UNCHANGED <<entry, pooled, extract>>

\* The walk is over: file_drop_reconcile flags extractions that failed.
Reconcile ==
    /\ walk # AtRest /\ walk.files = {} /\ walk' = AtRest
    /\ entry' = [k \in Keys |-> IF entry[k] = "ingested" /\ extract[k] = "failed" THEN "error"
                                ELSE entry[k]]
    /\ UNCHANGED <<held, pooled, extract, shipped, attempted, saves, troubles, before, returned>>

Scan ==
    \/ LoadLedger \/ Reconcile
    \/ \E p \in Dropped : ReadDrop(p)
    \/ \E k \in Keys : Ingest(k)

\* The bridge runs the extractions, of one file too, in any order.
ExtractEnds(k) ==
    /\ extract[k] = "runs"
    /\ \/ extract' = [extract EXCEPT ![k] = "done"] /\ UNCHANGED troubles
       \/ extract' = [extract EXCEPT ![k] = "failed"] /\ Trouble
    /\ UNCHANGED <<held, entry, pooled, walk, shipped, attempted, saves, before, returned>>

\* The bridge restarts.
RestartWatcher ==
    /\ Trouble
    /\ walk' = AtRest /\ shipped' = NotShipped /\ attempted' = {}
    /\ UNCHANGED <<held, entry, pooled, extract, saves, before, returned>>

DropsNext ==
    \/ \E p \in Dropped : TakeFile(p) \/ \E b \in Content : PutFile(p, b)
    \/ Scan \/ RestartWatcher
    \/ \E k \in Keys : IngestErrs(k) \/ CallLost(k) \/ ExtractEnds(k)

DropsSpec == DropsInit /\ [][DropsNext]_dropsVars

\* The watcher scans every 30 s and the bridge runs what is enqueued.
FairDropsSpec ==
    DropsSpec /\ WF_dropsVars(Scan) /\ WF_dropsVars(\E k \in Keys : ExtractEnds(k))

----------------------------------------------------------------------------
(* Properties *)

\* Every variable has its type.
DropsTypeOK ==
    /\ held \in [Dropped -> Content \cup {Gone}] /\ pooled \in [Text -> Content \cup {Gone}]
    /\ entry \in [Keys -> {"none", "ingested", "error"}]
    /\ extract \in [Keys -> {"none", "runs", "done", "failed"}]
    /\ walk \in [files : SUBSET Dropped, known : SUBSET Keys, errors : SUBSET Keys]
    /\ shipped \in Keys \cup {NotShipped} /\ attempted \subseteq Keys
    /\ before \in [Dropped -> SUBSET Content] /\ returned \subseteq Dropped

\* What a file holds is in the pool, was extracted, or has an error in the ledger.
Landed(p) ==
    \/ held[p] = Gone
    \/ entry[Key(p)] = "error"
    \/ IF p \in Text THEN pooled[p] = held[p] ELSE extract[Key(p)] = "done"

\* When people stop, every file lands, whatever calls, ingests, extractions and
\* restarts came between: except one that was given a body it had held before,
\* which the ledger takes for unchanged.
FilesLand == <>[](\A p \in Dropped \ returned : Landed(p))
=============================================================================
