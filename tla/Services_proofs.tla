--------------------------- MODULE Services_proofs ---------------------------
(***************************************************************************)
(* The smaller components together, as MCServices runs them: each behaviour *)
(* of the composition is one of every component, so that what is proved of  *)
(* each component alone holds of all of them, for every value of the        *)
(* constants.                                                              *)
(***************************************************************************)
EXTENDS MCServices, Substrate_proofs, Bridge_proofs, ModelCalls_proofs, BatchDispatch_proofs

\* The scene is chosen once.
LEMMA SceneStays ==
    /\ ServicesInit => scene \in Scenes
    /\ scene \in Scenes /\ [ServicesNext]_servicesVars => (scene \in Scenes)'
<1>1. ServicesInit => scene \in Scenes
  BY DEF ServicesInit
<1>2. [ServicesNext]_servicesVars => scene' = scene
  BY DEF ServicesNext, Alone, servicesVars
<1> QED  BY <1>1, <1>2 DEF Scenes

\* A step is one of the component that the scene runs, and leaves the others
\* as they are.
LEMMA StepsApart ==
    ASSUME [ServicesNext]_servicesVars
    PROVE  /\ [WorkspaceNext]_workspaceVars
           /\ [PolitenessNext]_politenessVars
           /\ [GateNext]_gateVars
           /\ [CouncilNext]_councilVars
           /\ [ItemNext]_itemVars
           /\ [ConsultNext]_consultVars
           /\ [MaterializerNext]_materializerVars
           /\ [ExporterNext]_exporterVars
           /\ [DropsNext]_dropsVars
           /\ [SessionsNext]_sessionVars
           /\ [ModelNext]_modelVars
           /\ [Next]_vars
<1>1. [WorkspaceNext]_workspaceVars
  BY DEF ServicesNext, Alone, servicesVars
<1>2. [PolitenessNext]_politenessVars
  BY DEF ServicesNext, Alone, servicesVars
<1>3. [GateNext]_gateVars
  BY DEF ServicesNext, Alone, servicesVars
<1>4. [CouncilNext]_councilVars
  BY DEF ServicesNext, Alone, servicesVars
<1>5. [ItemNext]_itemVars
  BY DEF ServicesNext, Alone, servicesVars
<1>6. [ConsultNext]_consultVars
  BY DEF ServicesNext, Alone, servicesVars
<1>7. [MaterializerNext]_materializerVars
  BY DEF ServicesNext, Alone, servicesVars
<1>8. [ExporterNext]_exporterVars
  BY DEF ServicesNext, Alone, servicesVars
<1>9. [DropsNext]_dropsVars
  BY DEF ServicesNext, Alone, servicesVars
<1>10. [SessionsNext]_sessionVars
  BY DEF ServicesNext, Alone, servicesVars
<1>11. [ModelNext]_modelVars
  BY DEF ServicesNext, Alone, servicesVars
<1>12. [Next]_vars
  BY DEF ServicesNext, Alone, servicesVars
<1> QED  BY <1>1, <1>2, <1>3, <1>4, <1>5, <1>6, <1>7, <1>8, <1>9, <1>10, <1>11, <1>12

\* A behaviour of the composition is one of each component.
LEMMA EachOnItsOwn ==
    ServicesSpec =>
        /\ WorkspaceSpec
        /\ PolitenessSpec
        /\ GateSpec
        /\ CouncilSpec
        /\ ItemSpec
        /\ ConsultSpec
        /\ MaterializerSpec
        /\ ExporterSpec
        /\ DropsSpec
        /\ SessionsSpec
        /\ ModelSpec
        /\ Spec
<1>1. ServicesInit =>
        /\ WorkspaceInit
        /\ PolitenessInit
        /\ GateInit
        /\ CouncilInit
        /\ ItemInit
        /\ ConsultInit
        /\ MaterializerInit
        /\ ExporterInit
        /\ DropsInit
        /\ SessionsInit
        /\ ModelInit
        /\ Init
  BY DEF ServicesInit
<1>2. ServicesSpec => WorkspaceSpec
  BY <1>1, StepsApart, PTL DEF ServicesSpec, WorkspaceSpec
<1>3. ServicesSpec => PolitenessSpec
  BY <1>1, StepsApart, PTL DEF ServicesSpec, PolitenessSpec
<1>4. ServicesSpec => GateSpec
  BY <1>1, StepsApart, PTL DEF ServicesSpec, GateSpec
<1>5. ServicesSpec => CouncilSpec
  BY <1>1, StepsApart, PTL DEF ServicesSpec, CouncilSpec
<1>6. ServicesSpec => ItemSpec
  BY <1>1, StepsApart, PTL DEF ServicesSpec, ItemSpec
<1>7. ServicesSpec => ConsultSpec
  BY <1>1, StepsApart, PTL DEF ServicesSpec, ConsultSpec
<1>8. ServicesSpec => MaterializerSpec
  BY <1>1, StepsApart, PTL DEF ServicesSpec, MaterializerSpec
<1>9. ServicesSpec => ExporterSpec
  BY <1>1, StepsApart, PTL DEF ServicesSpec, ExporterSpec
<1>10. ServicesSpec => DropsSpec
  BY <1>1, StepsApart, PTL DEF ServicesSpec, DropsSpec
<1>11. ServicesSpec => SessionsSpec
  BY <1>1, StepsApart, PTL DEF ServicesSpec, SessionsSpec
<1>12. ServicesSpec => ModelSpec
  BY <1>1, StepsApart, PTL DEF ServicesSpec, ModelSpec
<1>13. ServicesSpec => Spec
  BY <1>1, StepsApart, PTL DEF ServicesSpec, Spec
<1> QED  BY <1>2, <1>3, <1>4, <1>5, <1>6, <1>7, <1>8, <1>9, <1>10, <1>11, <1>12, <1>13

\* Every variable of every component has its type, however many rows, files,
\* sessions, answers, members, drains and batches there are.
THEOREM ServicesTyped == ServicesSpec => []TypesOK
<1>1. scene \in Scenes /\ WorkspaceTypeOK /\ PolitenessTypeOK /\ GateTypeOK /\ CouncilTypeOK
        /\ ItemTypeOK /\ ConsultTypeOK /\ MaterializerTypeOK /\ ExporterTypeOK /\ DropsTypeOK
        /\ SessionsTypeOK /\ ModelTypeOK /\ TypeOK
      => TypesOK
  BY DEF TypesOK
<1>2. ServicesSpec => [](scene \in Scenes)
  BY SceneStays, PTL DEF ServicesSpec
<1> QED
  BY <1>1, <1>2, EachOnItsOwn, WorkspaceTypes, PolitenessTypes, GateTypes, CouncilTypes, ItemTypes,
     ConsultTypes, MaterializerTypes, ExporterTypes, DropsTypes, SessionsTypes, ModelTypes, BatchTypes,
     PTL

\* What the components promise holds of them together: no body lost, each
\* dispatch resumed whole, whole panels heard, results and answers not mixed up,
\* each write done once, no finished item skipped, no session left open, calls
\* whole and paired with their replies; requests spaced, permits recent and
\* closed items closed.
THEOREM ServicesSafe ==
    ServicesSpec =>
        /\ [](LandedKept /\ ResumedWhole /\ WholeCouncilHeard /\ OutputsOwn /\ OwnAnswer)
        /\ [](WrittenOnce /\ NothingSkipped /\ OpenIsCached /\ CallsWhole /\ RequestsPaired)
        /\ Spaced /\ PermitRecent /\ ClosedStays
<1>1. ServicesSpec => [](LandedKept /\ ResumedWhole /\ WholeCouncilHeard /\ OutputsOwn /\ OwnAnswer)
  BY EachOnItsOwn, LandedBodiesKept, ResumedOnceWhole, SynthesisHeardAll, ResultsOwn, AnswersOwn, PTL
<1>2. ServicesSpec => [](WrittenOnce /\ NothingSkipped /\ OpenIsCached /\ CallsWhole /\ RequestsPaired)
  BY EachOnItsOwn, WritesHappenOnce, ExportSkipsNothing, NoneLeftOpen, CallsStayWhole, RequestsStayPaired,
     PTL
<1>3. ServicesSpec => Spaced /\ PermitRecent /\ ClosedStays
  BY EachOnItsOwn, RequestsSpaced, PermitsAreRecent, ClosedItemsStay, PTL
<1> QED  BY <1>1, <1>2, <1>3
=============================================================================
