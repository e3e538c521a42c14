----------------------------- MODULE Workspace -----------------------------
(***************************************************************************)
(* A writable projection of rows as files (v30-workspaces.sql, projector.go *)
(* and workspacewatcher.go). The projector writes rows out as files and     *)
(* records a watermark of what it wrote; the watcher polls the files and    *)
(* ships changed ones to workspace_writeback, which compares the file, the  *)
(* row and the watermark in one transaction. The two loops and the people   *)
(* who edit rows and files meet only in the tables and on the disk. A       *)
(* write-back is one step: that it reads the row without a lock, and an edit *)
(* may commit between its look and its write, is left out.                  *)
(*                                                                          *)
(* A body stands for its sha. Row "doc" projects to the path "doc"; a file   *)
(* without identity appears at the path "new", and the row made from it,    *)
(* whose slug gains the workspace's name, projects to the path "made".      *)
(* The one projection pass drains all rows of all workspaces; one workspace *)
(* is modelled.                                                             *)
(***************************************************************************)
EXTENDS Naturals

CONSTANTS
    RowEdits,   \* bound on the edits of rows
    Events,     \* bound on what people do to files, row updates that leave the
                \* body alone, failed calls and bridge restarts, together
    Settlements \* bound on resolutions of conflicts

ASSUME WorkspaceAssumption == {RowEdits, Events, Settlements} \subseteq Nat

Row  == {"doc", "made"}
Path == {"doc", "made", "new"}
Nobody == "nobody"              \* no row, no identity
Body == 0 .. 1 + RowEdits + Events
Absent == 0                     \* no body: no such row, file or parked copy
NullSha == 0

VARIABLES
    row,        \* docs: body and updated_at of each row, and whether the scope has it
    mark,       \* knowledge_projections: path, content_sha and source_updated_at
    parked,     \* the pending row of workspace_conflicts of each path
    file,       \* body and frontmatter id of each file
    toProject,       \* the projector's pass: catalog rows not yet processed
    writing,    \* the catalog row whose file is written and not yet recorded
    unseen,     \* files whose bytes differ from the watcher's `seen`
    shipping,   \* the file the watcher has read and not yet shipped
    fresh,      \* the next new body
    rowEdits, events, settled,
    \* what happened
    archive,    \* bodies in doc_versions and in resolved conflicts
    mine,       \* the last body a person saved in each file
    landed,     \* the last body of each path that workspace_writeback took
    missed,     \* paths whose last write-back call failed
    waived      \* paths where a conflict was dismissed, or settled while the path was being written

dbVars == <<row, mark, parked, archive, landed>>
countVars == <<fresh, rowEdits, events, settled>>
workspaceVars == <<dbVars, file, toProject, writing, unseen, shipping, countVars, mine, missed, waived>>

NoRow  == [body |-> Absent, at |-> 0, here |-> FALSE]
NoMark == [path |-> Nobody, sha |-> NullSha, at |-> 0]
NoPark == [body |-> Absent, row |-> Nobody]
NoFile == [body |-> Absent, id |-> Nobody]
Nothing == [do |-> "nothing", row |-> Nobody, path |-> Nobody, body |-> Absent, at |-> 0]
NoShip == [path |-> Nobody, body |-> Absent, id |-> Nobody]

\* The one row has been projected; nothing else exists.
WorkspaceInit ==
    /\ row = [r \in Row |-> IF r = "doc" THEN [body |-> 1, at |-> 0, here |-> TRUE] ELSE NoRow]
    /\ mark = [r \in Row |-> IF r = "doc" THEN [path |-> "doc", sha |-> 1, at |-> 0] ELSE NoMark]
    /\ file = [p \in Path |-> IF p = "doc" THEN [body |-> 1, id |-> "doc"] ELSE NoFile]
    /\ parked = [p \in Path |-> NoPark]
    /\ toProject = {} /\ writing = Nothing
    /\ unseen = {"doc"} /\ shipping = NoShip
    /\ fresh = 2 /\ rowEdits = 0 /\ events = 0 /\ settled = 0
    /\ archive = {} /\ missed = {} /\ waived = {}
    /\ mine = [p \in Path |-> Absent] /\ landed = [p \in Path |-> Absent]

Exists(p) == file[p].body # Absent
Pending(p) == parked[p].body # Absent

----------------------------------------------------------------------------
(* The projector *)

\* Seeded bug: the catalog compares only the times.
CatalogByTime ==
    {[do |-> "project", row |-> r, path |-> r, body |-> row[r].body, at |-> row[r].at] :
        r \in {x \in Row : /\ row[x].here /\ ~Pending(x)
                           /\ mark[x].path = Nobody \/ row[x].at > mark[x].at}}

\* workspace_projection_pending: rows newer than their watermark, and
\* watermarks whose row left the scope. A path with a pending conflict is withheld.
Catalog ==
    {[do |-> "project", row |-> r, path |-> r, body |-> row[r].body, at |-> row[r].at] :
        r \in {x \in Row : /\ row[x].here /\ ~Pending(x)
                           /\ \/ mark[x].path = Nobody
                              \/ row[x].at > mark[x].at
                              \/ row[x].body # mark[x].sha}}
    \cup
    {[do |-> "delete", row |-> r, path |-> mark[r].path, body |-> Absent, at |-> 0] :
        r \in {x \in Row : /\ ~row[x].here /\ mark[x].path # Nobody
                           /\ ~Pending(mark[x].path)}}

\* A pass begins: at startup, on a NOTIFY or on the hourly tick.
StartPass ==
    /\ writing = Nothing /\ toProject = {} /\ Catalog # {}
    /\ toProject' = Catalog
    /\ UNCHANGED <<dbVars, file, writing, unseen, shipping, countVars, mine, missed, waived>>

\* The file is written, or removed, whatever it holds by now. Its frontmatter
\* carries the time, so its bytes are new to the watcher.
WriteFile(j) ==
    /\ writing = Nothing /\ j \in toProject
    /\ toProject' = toProject \ {j} /\ writing' = j
    /\ \/ /\ j.do = "project"
          /\ file' = [file EXCEPT ![j.path] = [body |-> j.body, id |-> j.row]]
          /\ unseen' = unseen \cup {j.path}
       \/ /\ j.do = "delete"
          /\ file' = [file EXCEPT ![j.path] = NoFile]
          /\ unseen' = unseen \ {j.path}
    /\ UNCHANGED <<dbVars, shipping, countVars, mine, missed, waived>>

\* knowledge_projection_record: the watermark of what was written. A
\* projection that moved leaves its prior file to remove.
RecordWrite ==
    /\ writing.do = "project"
    /\ LET r == writing.row
           prior == mark[r].path
       IN  /\ mark' = [mark EXCEPT ![r] = [path |-> writing.path, sha |-> writing.body,
                                           at |-> writing.at]]
           /\ writing' = IF prior \in {Nobody, writing.path} THEN Nothing
                         ELSE [writing EXCEPT !.do = "orphan", !.path = prior]
    /\ UNCHANGED <<row, parked, archive, landed, file, toProject, unseen, shipping, countVars, mine, missed, waived>>

RemoveOrphan ==
    /\ writing.do = "orphan"
    /\ file' = [file EXCEPT ![writing.path] = NoFile]
    /\ unseen' = unseen \ {writing.path}
    /\ writing' = Nothing
    /\ UNCHANGED <<dbVars, toProject, shipping, countVars, mine, missed, waived>>

\* knowledge_projection_forget
ForgetRow ==
    /\ writing.do = "delete"
    /\ mark' = [mark EXCEPT ![writing.row] = NoMark]
    /\ writing' = Nothing
    /\ UNCHANGED <<row, parked, archive, landed, file, toProject, unseen, shipping, countVars, mine, missed, waived>>

\* A write, a record or a forget fails: the row is skipped until a later pass.
ProjectorFails ==
    /\ events < Events /\ events' = events + 1
    /\ \/ writing = Nothing /\ (\E j \in toProject : toProject' = toProject \ {j}) /\ UNCHANGED writing
       \/ writing.do \in {"project", "delete"} /\ writing' = Nothing /\ UNCHANGED toProject
    /\ UNCHANGED <<dbVars, file, unseen, shipping, fresh, rowEdits, settled, mine, missed, waived>>

----------------------------------------------------------------------------
(* workspace_writeback and workspace_conflict_resolve *)

\* _workspace_apply: the body becomes the row's, the prior one a revision, and
\* the watermark follows. A body the row has already only heals the watermark.
Apply(r, p, b) ==
    /\ row' = IF row[r].body = b THEN row
              ELSE [row EXCEPT ![r].body = b, ![r].at = @ + 1]
    /\ mark' = [mark EXCEPT ![r] = [path |-> p, sha |-> b, at |-> row'[r].at]]

\* The watermark is set to what the file and the row agree on.
Heal(r, p) ==
    /\ mark' = [mark EXCEPT ![r] = [path |-> p, sha |-> row[r].body, at |-> row[r].at]]
    /\ UNCHANGED <<row, parked>>

\* Seeded bug: a second conflict on a path leaves the first copy parked.
ParkFirst(p, b, r) ==
    /\ parked' = IF Pending(p) THEN parked ELSE [parked EXCEPT ![p] = [body |-> b, row |-> r]]
    /\ UNCHANGED <<row, mark>>

\* _workspace_conflict: both versions are kept and the path freezes.
Park(p, b, r) ==
    /\ parked' = [parked EXCEPT ![p] = [body |-> b, row |-> r]]
    /\ UNCHANGED <<row, mark>>

\* A file without identity becomes a row of the scope; no watermark yet.
CreateRow(b) ==
    /\ row' = [row EXCEPT !["made"] = [body |-> b, at |-> 1, here |-> TRUE]]
    /\ UNCHANGED <<mark, parked>>

\* The decision, by the row whose projection this path is, else by the id the
\* file claims: the body against the watermark and the row.
Decide(p, b, claim) ==
    LET here == {r \in Row : mark[r].path = p}
        r == IF here # {} THEN CHOOSE x \in here : TRUE ELSE claim
    IN  IF Pending(p)
        THEN Park(p, b, parked[p].row)
        ELSE IF here = {} /\ claim = Nobody
        THEN IF row["made"].body = Absent THEN CreateRow(b) ELSE Park(p, b, Nobody)
        ELSE IF claim \notin {Nobody, r} \/ ~row[r].here
        THEN Park(p, b, IF claim # Nobody THEN claim ELSE r)
        ELSE IF here = {}
        THEN IF b = row[r].body THEN Heal(r, p) ELSE Park(p, b, r)
        ELSE IF b = mark[r].sha
        THEN UNCHANGED <<row, mark, parked>>
        ELSE IF row[r].body = mark[r].sha
        THEN Apply(r, p, b) /\ UNCHANGED parked
        ELSE IF b = row[r].body THEN Heal(r, p) ELSE Park(p, b, r)

\* The bodies the rows had and no longer have are in doc_versions.
Archived(bodies) ==
    archive' = archive \cup bodies \cup {row[r].body : r \in {x \in Row : row'[x].body # row[x].body}}

\* The transaction of one write-back call.
Writeback ==
    /\ shipping # NoShip
    /\ Decide(shipping.path, shipping.body, shipping.id)
    /\ Archived({})
    /\ landed' = [landed EXCEPT ![shipping.path] = shipping.body]
    /\ shipping' = NoShip
    /\ UNCHANGED <<file, toProject, writing, unseen, countVars, mine, missed, waived>>

\* A person settles a conflict. The resolved conflict keeps its copy.
Resolve(p, choice) ==
    /\ Pending(p) /\ settled < Settlements /\ settled' = settled + 1
    /\ LET r == parked[p].row
           b == parked[p].body
       IN  /\ \/ /\ choice = "file-wins"
                 /\ r # Nobody /\ row[r].body # Absent
                 /\ Apply(r, p, b)
              \/ /\ choice = "row-wins"
                 /\ mark' = IF r = Nobody \/ mark[r].path = Nobody THEN mark
                            ELSE [mark EXCEPT ![r].sha = NullSha]
                 /\ UNCHANGED row
              \/ choice = "dismiss" /\ UNCHANGED <<row, mark>>
           /\ Archived({b})
    /\ parked' = [parked EXCEPT ![p] = NoPark]
    /\ waived' = IF choice = "dismiss" \/ writing.path = p THEN waived \cup {p} ELSE waived
    /\ UNCHANGED <<landed, file, toProject, writing, unseen, shipping, fresh, rowEdits, events, mine, missed>>

----------------------------------------------------------------------------
(* The watcher *)

\* scan reads a file whose bytes are not those of the last shipment. It marks
\* them seen whatever becomes of the call, so they count as seen from here on.
ReadFile(p) ==
    /\ shipping = NoShip /\ p \in unseen /\ Exists(p)
    /\ shipping' = [path |-> p, body |-> file[p].body, id |-> file[p].id]
    /\ unseen' = unseen \ {p} /\ missed' = missed \ {p}
    /\ UNCHANGED <<dbVars, file, toProject, writing, countVars, mine, waived>>

\* The call fails, and nothing ships these bytes again.
LoseCall ==
    /\ shipping # NoShip /\ events < Events
    /\ events' = events + 1
    /\ missed' = missed \cup {shipping.path}
    /\ shipping' = NoShip
    /\ UNCHANGED <<dbVars, file, toProject, writing, unseen, fresh, rowEdits, settled, mine, waived>>

\* The bridge restarts: both loops start over and every file is new again.
Restart ==
    /\ events < Events /\ events' = events + 1
    /\ toProject' = {} /\ writing' = Nothing /\ shipping' = NoShip
    /\ unseen' = {p \in Path : Exists(p)} /\ missed' = {}
    /\ UNCHANGED <<dbVars, file, fresh, rowEdits, settled, mine, waived>>

----------------------------------------------------------------------------
(* People and the rest of the system *)

\* A row gets a new body, or moves out of the workspace's scope.
EditRow(r) ==
    /\ row[r].body # Absent /\ rowEdits < RowEdits /\ rowEdits' = rowEdits + 1
    /\ \/ /\ row' = [row EXCEPT ![r].body = fresh, ![r].at = @ + 1]
          /\ fresh' = fresh + 1
       \/ row[r].here /\ row' = [row EXCEPT ![r].here = FALSE] /\ UNCHANGED fresh
    /\ Archived({})
    /\ UNCHANGED <<mark, parked, landed, file, toProject, writing, unseen, shipping, events, settled,
                   mine, missed, waived>>

\* A row's title or frontmatter changes.
TouchRow(r) ==
    /\ row[r].body # Absent /\ events < Events /\ events' = events + 1
    /\ row' = [row EXCEPT ![r].at = @ + 1]
    /\ UNCHANGED <<mark, parked, archive, landed, file, toProject, writing, unseen, shipping, fresh, rowEdits,
                   settled, mine, missed, waived>>

\* A file is saved, made without identity, or copied to a new name.
SaveFile(p) ==
    /\ events < Events /\ events' = events + 1
    /\ \/ /\ Exists(p) \/ p = "new"
          /\ file' = [file EXCEPT ![p].body = fresh]
          /\ fresh' = fresh + 1 /\ mine' = [mine EXCEPT ![p] = fresh]
       \/ /\ p = "new" /\ ~Exists(p) /\ Exists("doc")
          /\ file' = [file EXCEPT ![p] = file["doc"]]
          /\ UNCHANGED <<fresh, mine>>
    /\ unseen' = unseen \cup {p}
    /\ UNCHANGED <<dbVars, toProject, writing, shipping, rowEdits, settled, missed, waived>>

\* Deleting a file is not a signal: the row stays.
RemoveFile(p) ==
    /\ Exists(p) /\ events < Events /\ events' = events + 1
    /\ file' = [file EXCEPT ![p] = NoFile]
    /\ unseen' = unseen \ {p} /\ mine' = [mine EXCEPT ![p] = Absent]
    /\ UNCHANGED <<dbVars, toProject, writing, shipping, fresh, rowEdits, settled, missed, waived>>

----------------------------------------------------------------------------

Projector == StartPass \/ (\E j \in toProject : WriteFile(j)) \/ RecordWrite \/ RemoveOrphan \/ ForgetRow
Watcher == (\E p \in Path : ReadFile(p)) \/ Writeback
People ==
    \/ \E r \in Row : EditRow(r) \/ TouchRow(r)
    \/ \E p \in Path : SaveFile(p) \/ RemoveFile(p)
    \/ \E p \in Path, c \in {"file-wins", "row-wins", "dismiss"} : Resolve(p, c)

WorkspaceNext == Projector \/ Watcher \/ People \/ ProjectorFails \/ LoseCall \/ Restart

WorkspaceSpec == WorkspaceInit /\ [][WorkspaceNext]_workspaceVars

\* The bridge's two loops keep running; nobody has to edit or to resolve.
FairWorkspaceSpec == WorkspaceSpec /\ WF_workspaceVars(Projector) /\ WF_workspaceVars(Watcher)

----------------------------------------------------------------------------
(* Properties *)

\* Every variable has its type.
WorkspaceTypeOK ==
    /\ row \in [Row -> [body : Body, at : Nat, here : BOOLEAN]]
    /\ mark \in [Row -> [path : Path \cup {Nobody}, sha : Body, at : Nat]]
    /\ parked \in [Path -> [body : Body, row : Row \cup {Nobody}]]
    /\ file \in [Path -> [body : Body, id : Row \cup {Nobody}]]
    /\ unseen \subseteq Path /\ missed \subseteq Path /\ waived \subseteq Path
    /\ archive \subseteq Body /\ fresh \in Nat
    /\ mine \in [Path -> Body] /\ landed \in [Path -> Body]

InDatabase(b) ==
    \/ b \in archive
    \/ \E r \in Row : row[r].body = b
    \/ \E p \in Path : parked[p].body = b

\* What a file held when write-back took it is a row's body, a revision or a
\* parked copy from then on, until a later version of the same file replaces
\* it, however the edits, passes and resolutions interleave.
LandedKept == \A p \in Path : landed[p] # Absent => InDatabase(landed[p])

\* "Never silent clobber": what a person last saved in a file is in the file,
\* or on its way, or in the database.
NeverSilentClobber ==
    \A p \in Path : mine[p] # Absent =>
        \/ file[p].body = mine[p] \/ shipping.body = mine[p] \/ InDatabase(mine[p])

\* A row and the file it is recorded to be in agree, unless a conflict is
\* pending, the file was deleted, its last write-back call failed, or a person
\* waived the projection.
Agree(r) ==
    LET p == mark[r].path
    IN  \/ ~row[r].here \/ Pending(r)
        \/ /\ p # Nobody
           /\ \/ Pending(p) \/ ~Exists(p) \/ p \in missed \cup waived
              \/ file[p].body = row[r].body

\* When the edits end the two sides come to agree and stay so.
Converges == <>[](\A r \in Row : Agree(r))

=============================================================================
