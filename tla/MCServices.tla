----------------------------- MODULE MCServices -----------------------------
(***************************************************************************)
(* The smaller components, explored one at a time: each scene runs one of   *)
(* them from its initial states while the others stand still. They share    *)
(* the database and the bridge's process and none of the variables below,   *)
(* so running two at once would reach no state that one scene does not.     *)
(***************************************************************************)
EXTENDS Workspace, Politeness, JudgeGate, Council, WorkItem, Consult, Materializer, Exporter,
        Drops, BridgeSessions, ModelCalls, BatchDispatch

CONSTANTS f1, f2    \* fetches

VARIABLE scene      \* the component that runs

\* The caller of f1 asks for a longer interval than the host.
MixedGap == [f \in Fetch |-> IF f = f1 THEN 2 ELSE 1]

Scenes == {"workspace", "politeness", "gate", "council", "item", "consult", "materializer",
           "exporter", "drops", "sessions", "calls", "batch"}

ServicesInit ==
    /\ scene \in Scenes
    /\ WorkspaceInit /\ PolitenessInit /\ GateInit /\ CouncilInit /\ ItemInit /\ ConsultInit
    /\ MaterializerInit /\ ExporterInit /\ DropsInit /\ SessionsInit /\ ModelInit /\ Init
    /\ scene = "politeness" \/ site = "allow"
    /\ scene = "calls" \/ history = <<>>

\* The components other than x stand still.
Alone(x) ==
    /\ IF x = "workspace" THEN TRUE ELSE UNCHANGED workspaceVars
    /\ IF x = "politeness" THEN TRUE ELSE UNCHANGED politenessVars
    /\ IF x = "gate" THEN TRUE ELSE UNCHANGED gateVars
    /\ IF x = "council" THEN TRUE ELSE UNCHANGED councilVars
    /\ IF x = "item" THEN TRUE ELSE UNCHANGED itemVars
    /\ IF x = "consult" THEN TRUE ELSE UNCHANGED consultVars
    /\ IF x = "materializer" THEN TRUE ELSE UNCHANGED materializerVars
    /\ IF x = "exporter" THEN TRUE ELSE UNCHANGED exporterVars
    /\ IF x = "drops" THEN TRUE ELSE UNCHANGED dropsVars
    /\ IF x = "sessions" THEN TRUE ELSE UNCHANGED sessionVars
    /\ IF x = "calls" THEN TRUE ELSE UNCHANGED modelVars
    /\ IF x = "batch" THEN TRUE ELSE UNCHANGED vars
    /\ UNCHANGED scene

ServicesNext ==
    \/ scene = "workspace" /\ WorkspaceNext /\ Alone("workspace")
    \/ scene = "politeness" /\ PolitenessNext /\ Alone("politeness")
    \/ scene = "gate" /\ GateNext /\ Alone("gate")
    \/ scene = "council" /\ CouncilNext /\ Alone("council")
    \/ scene = "item" /\ ItemNext /\ Alone("item")
    \/ scene = "consult" /\ ConsultNext /\ Alone("consult")
    \/ scene = "materializer" /\ MaterializerNext /\ Alone("materializer")
    \/ scene = "exporter" /\ ExporterNext /\ Alone("exporter")
    \/ scene = "drops" /\ DropsNext /\ Alone("drops")
    \/ scene = "sessions" /\ SessionsNext /\ Alone("sessions")
    \/ scene = "calls" /\ ModelNext /\ Alone("calls")
    \/ scene = "batch" /\ Next /\ Alone("batch")

servicesVars == <<scene, workspaceVars, politenessVars, gateVars, councilVars, itemVars,
                  consultVars, materializerVars, exporterVars, dropsVars, sessionVars, modelVars, vars>>

ServicesSpec == ServicesInit /\ [][ServicesNext]_servicesVars

\* The fairness of the component that runs.
FairServicesSpec ==
    /\ ServicesSpec
    /\ WF_workspaceVars(scene = "workspace" /\ Projector)
    /\ WF_workspaceVars(scene = "workspace" /\ Watcher)
    /\ \A r \in Reply : WF_gateVars(scene = "gate" /\ JudgeEnds(r))
    /\ WF_itemVars(scene = "item" /\ ChatEnds)
    /\ WF_itemVars(scene = "item" /\ Steward)
    /\ WF_itemVars(scene = "item" /\ (WriteDispatch \/ DispatchRefused))
    /\ WF_dropsVars(scene = "drops" /\ Scan)
    /\ WF_dropsVars(scene = "drops" /\ \E k \in Keys : ExtractEnds(k))
    /\ WF_vars(scene = "batch" /\ Cycle)
    /\ WF_vars(scene = "batch" /\ DayPasses)

\* Every variable of every component has its type.
TypesOK ==
    /\ scene \in Scenes
    /\ WorkspaceTypeOK /\ PolitenessTypeOK /\ GateTypeOK /\ CouncilTypeOK /\ ItemTypeOK
    /\ ConsultTypeOK /\ MaterializerTypeOK /\ ExporterTypeOK /\ DropsTypeOK /\ SessionsTypeOK
    /\ ModelTypeOK /\ TypeOK
=============================================================================
