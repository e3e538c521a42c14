-------------------------- MODULE Substrate_proofs --------------------------
(***************************************************************************)
(* The smaller components that live in the database: councils, work items, *)
(* the judge gate and consults. Each is proved on its own, for every value of*)
(* its constants; they share no variable.                                  *)
(***************************************************************************)
EXTENDS Council, WorkItem, JudgeGate, Consult, TLAPS

----------------------------------------------------------------------------
(* Council: a synthesis fired by members has an answer of the whole panel, for
   any panel, tool loops and any number of synthesizers and revisions. *)

MemberStates == {"answering", "writing", "looping", "recounting", "answered", "failed"}

\* A member whose transaction is open, and one whose answer is committed.
Answering(m) == member[m] \in {"writing", "recounting"}
AnswerKept(m) == member[m] \in {"looping", "recounting", "answered"}

\* A member whose open transaction fires the synthesis saw every other answer
\* committed; answers are never withdrawn.
CouncilInv ==
    /\ member \in [Member -> MemberStates]
    /\ firing \subseteq {m \in Member : Answering(m)}
    /\ \A m \in firing : Complete(m)
    /\ fired \in Seq(SUBSET Panel)
    /\ WholeCouncilHeard

\* A step after which every answer is still there, and no member fires.
LEMMA AnswersStay ==
    ASSUME CouncilInv,
           member' \in [Member -> MemberStates],
           \A m \in Panel : AnswerKept(m) => AnswerKept(m)',
           firing' \subseteq firing, \A m \in firing' : Answering(m)',
           UNCHANGED fired
    PROVE  CouncilInv'
<1>1. \A m \in firing' : Complete(m)'
  BY DEF CouncilInv, Complete, Answered, AnswerKept
<1>2. firing' \subseteq {m \in Member : Answering(m)'}
  BY DEF CouncilInv
<1>3. WholeCouncilHeard' /\ fired' \in Seq(SUBSET Panel)
  BY DEF CouncilInv, WholeCouncilHeard
<1> QED  BY <1>1, <1>2, <1>3 DEF CouncilInv

LEMMA AnswerStep ==
    ASSUME CouncilInv, NEW m \in Member, MemberAnswers(m)
    PROVE  CouncilInv'
<1>1. /\ member' \in [Member -> MemberStates]
      /\ \A n \in Member : n # m => member'[n] = member[n]
      /\ Answering(m)' /\ (AnswerKept(m)' <=> AnswerKept(m))
  BY DEF MemberAnswers, CouncilInv, MemberStates, Answering, AnswerKept
<1>2. Answered' = Answered
  BY <1>1 DEF Answered, AnswerKept, Member
<1>3. \A n \in firing' : Answering(n)' /\ n \in Member
  BY <1>1 DEF MemberAnswers, CouncilInv, Answering
<1>4. \A n \in firing' : Complete(n)'
  BY <1>2 DEF MemberAnswers, CouncilInv, Complete
<1>5. WholeCouncilHeard' /\ fired' \in Seq(SUBSET Panel)
  BY DEF MemberAnswers, CouncilInv, WholeCouncilHeard
<1> QED  BY <1>1, <1>3, <1>4, <1>5 DEF CouncilInv

LEMMA CommitStep ==
    ASSUME CouncilInv, NEW m \in Member, MemberCommits(m)
    PROVE  CouncilInv'
<1>1. /\ member' \in [Member -> MemberStates]
      /\ \A n \in Member : n # m => member'[n] = member[n]
      /\ AnswerKept(m)'
  BY DEF MemberCommits, CouncilInv, MemberStates, AnswerKept
<1>2. /\ firing' \subseteq firing
      /\ \A n \in firing' : Answering(n)'
  BY <1>1 DEF MemberCommits, CouncilInv, Answering
<1>3. \A n \in Panel : AnswerKept(n) => AnswerKept(n)'
  BY <1>1 DEF Member, AnswerKept
<1>4. CASE m \notin firing
  <2>1. UNCHANGED fired
    BY <1>4 DEF MemberCommits
  <2> QED  BY <1>1, <1>2, <1>3, <2>1, AnswersStay
<1>5. CASE m \in firing
  <2>1. Answered \cup ({m} \cap Panel) = Panel
    BY <1>5 DEF CouncilInv, Complete, Answered
  <2>2. fired' = Append(fired, Panel)
    BY <1>5, <2>1 DEF MemberCommits
  <2>3. fired' \in Seq(SUBSET Panel) /\ WholeCouncilHeard'
    BY <2>2 DEF CouncilInv, WholeCouncilHeard
  <2>4. \A n \in firing' : Complete(n)'
    BY <1>2, <1>3 DEF CouncilInv, Complete, Answered, AnswerKept
  <2>5. firing' \subseteq {n \in Member : Answering(n)'}
    BY <1>2 DEF CouncilInv
  <2> QED  BY <1>1, <2>3, <2>4, <2>5 DEF CouncilInv
<1> QED  BY <1>4, <1>5

LEMMA FailStep ==
    ASSUME CouncilInv, NEW m \in Member, MemberFails(m)
    PROVE  CouncilInv'
<1>1. /\ member' \in [Member -> MemberStates]
      /\ \A n \in Member : n # m => member'[n] = member[n]
      /\ (AnswerKept(m) => AnswerKept(m)') /\ ~Answering(m)
      /\ UNCHANGED <<firing, fired>>
  BY DEF MemberFails, CouncilInv, MemberStates, Answering, AnswerKept
<1>2. \A n \in Panel : AnswerKept(n) => AnswerKept(n)'
  BY <1>1 DEF Member, AnswerKept
<1>3. \A n \in firing' : Answering(n)'
  BY <1>1 DEF CouncilInv, Answering
<1> QED  BY <1>1, <1>2, <1>3, AnswersStay

LEMMA CouncilQuietStep ==
    ASSUME CouncilInv, UNCHANGED <<member, firing, fired>>
    PROVE  CouncilInv'
BY DEF CouncilInv, Complete, Answered, WholeCouncilHeard, Answering

LEMMA CouncilStep == CouncilInv /\ [CouncilNext]_councilVars => CouncilInv'
<1> SUFFICES ASSUME CouncilInv, [CouncilNext]_councilVars PROVE CouncilInv'
  OBVIOUS
<1>1. ASSUME NEW m \in Member, MemberAnswers(m) \/ MemberCommits(m) \/ MemberFails(m)
      PROVE  CouncilInv'
  BY <1>1, AnswerStep, CommitStep, FailStep
<1>2. ASSUME NEW heard \in synthesis, SynthesisEnds(heard) PROVE CouncilInv'
  BY <1>2, CouncilQuietStep DEF SynthesisEnds
<1>3. CASE BishopCloses \/ BishopRevises
  BY <1>3, CouncilQuietStep DEF BishopCloses, BishopRevises
<1>4. CASE UNCHANGED councilVars
  BY <1>4, CouncilQuietStep DEF councilVars
<1> QED  BY <1>1, <1>2, <1>3, <1>4 DEF CouncilNext

\* A synthesis that members fire is given the stored answer of every proposer
\* and critic, however their transactions, tool loops and failures interleave
\* and whatever the bishop does meanwhile. In a tool loop that answer may be an
\* interim text (write_outcome's council arm stores the first chat's only).
THEOREM SynthesisHeardAll == CouncilSpec => []WholeCouncilHeard
<1>1. CouncilInit => CouncilInv
  BY DEF CouncilInit, CouncilInv, WholeCouncilHeard, MemberStates
<1>2. CouncilInv /\ [CouncilNext]_councilVars => CouncilInv'
  BY CouncilStep
<1>3. CouncilInv => WholeCouncilHeard
  BY DEF CouncilInv
<1> QED  BY <1>1, <1>2, <1>3, PTL DEF CouncilSpec

\* The council's status and the synthesizer chats that run.
CouncilRest ==
    /\ council \in {"deliberating", "synthesizing", "awaiting_bishop", "resolved", "dissolved"}
    /\ synthesis \subseteq SUBSET Panel /\ revisions \in Nat

LEMMA CouncilTypes == CouncilSpec => []CouncilTypeOK
<1>1. CouncilInit => CouncilInv /\ CouncilRest
  BY DEF CouncilInit, CouncilInv, WholeCouncilHeard, CouncilRest, MemberStates
<1>2. CouncilInv /\ CouncilRest /\ [CouncilNext]_councilVars => CouncilRest'
  <2> SUFFICES ASSUME CouncilInv, CouncilRest, [CouncilNext]_councilVars PROVE CouncilRest'
    OBVIOUS
  <2>1. Answered \subseteq Panel
    BY DEF Answered
  <2>2. ASSUME NEW m \in Member, MemberAnswers(m) \/ MemberCommits(m) \/ MemberFails(m)
        PROVE  CouncilRest'
    BY <2>1, <2>2 DEF MemberAnswers, MemberCommits, MemberFails, CouncilRest
  <2>3. CASE (\E heard \in synthesis : SynthesisEnds(heard)) \/ BishopCloses \/ BishopRevises
             \/ UNCHANGED councilVars
    BY <2>1, <2>3 DEF SynthesisEnds, BishopCloses, BishopRevises, councilVars, CouncilRest
  <2> QED  BY <2>2, <2>3 DEF CouncilNext
<1>3. CouncilInv /\ CouncilRest => CouncilTypeOK
  BY DEF CouncilInv, CouncilRest, CouncilTypeOK, MemberStates, Answering
<1> QED  BY <1>1, <1>2, <1>3, CouncilStep, PTL DEF CouncilSpec

----------------------------------------------------------------------------
(* WorkItem: the results of stages and the closed statuses, for any pipeline,
   any loops in it and any number of interventions. *)

Status == Closed \cup {"pending", "in_progress", "awaiting_review", "failed"}

ItemRecord == [status : Status, stage : Stage, failures : Nat, quarantined : BOOLEAN, hops : Nat,
               rescue : {"normal", "queued", "in_progress", "resolved", "failed"}]

ItemTyped ==
    /\ item \in ItemRecord
    /\ running \in [Stage -> Nat]
    /\ output \in [Stage -> Nat]
    /\ resuming \in [status : {"none", "pending", "awaiting_review", "failed"}, stage : Stage]
    /\ retries \in Nat /\ forked \in BOOLEAN

\* A chat that runs is the only one, and the item waits for it on its stage.
OneChat ==
    \A s \in Stage : running[s] # 0 =>
        running[s] = 1 /\ item.stage = s /\ item.status = "in_progress"

\* Each result comes from a chat of its stage or from a person.
Owns == \A s \in Stage : output[s] \in {NoOutput, Boost, s}

\* Neither needs to hold once a late answer, a lost race or an escalation met
\* an item that had moved on.
ItemInv == ItemTyped /\ (~forked => OneChat /\ Owns)

\* A dispatch starts a chat of the item's stage where none runs, or parks.
LEMMA StageDispatched ==
    ASSUME NEW it \in ItemRecord, NEW s \in Stage, NEW left \in [Stage -> Nat],
           DispatchStage(it, s, left)
    PROVE  /\ item' \in ItemRecord /\ running' \in [Stage -> Nat]
           /\ (s = it.stage /\ \A x \in Stage : left[x] = 0) => OneChat'
BY DEF DispatchStage, ItemRecord, OneChat, Status, Closed

\* What work_item_advance makes of an item is an item.
LEMMA AfterStageType ==
    ASSUME ItemTyped
    PROVE  AfterStage \subseteq ItemRecord
<1>1. item \in ItemRecord /\ item.stage \in Stage /\ item.hops \in Nat
  BY DEF ItemTyped, ItemRecord
<1>2. 1 \in Stage /\ (item.stage # LastStage => item.stage + 1 \in Stage)
  BY <1>1, WorkItemAssumption DEF Stage
<1> DEFINE Moved == [item EXCEPT !.stage = 1, !.status = "pending", !.hops = @ + 1]
<1>3. Moved \in ItemRecord
  <2>1. item.hops + 1 \in Nat
    BY <1>1
  <2>2. [[item EXCEPT !.stage = 1] EXCEPT !.status = "pending"] \in ItemRecord
    BY <1>1, <1>2 DEF ItemRecord, Status
  <2>3. ASSUME NEW it \in ItemRecord, NEW h \in Nat PROVE [it EXCEPT !.hops = h] \in ItemRecord
    BY <2>3 DEF ItemRecord
  <2>4. Moved = [[[item EXCEPT !.stage = 1] EXCEPT !.status = "pending"] EXCEPT !.hops = item.hops + 1]
    BY <1>1 DEF ItemRecord
  <2> QED  BY <2>1, <2>2, <2>3, <2>4
<1>4. \A st \in {"cancelled", "awaiting_review", "completed"} :
        [item EXCEPT !.status = st] \in ItemRecord
  BY <1>1 DEF ItemRecord, Status, Closed
<1>5. ASSUME item.stage # LastStage, NEW st \in {"awaiting_review", "pending"}
      PROVE  [item EXCEPT !.stage = @ + 1, !.status = st] \in ItemRecord
  BY <1>1, <1>2, <1>5 DEF ItemRecord, Status
<1> HIDE DEF Moved
<1>6. \A it \in AfterStage :
        \/ it = Moved
        \/ \E st \in {"cancelled", "awaiting_review", "completed"} : it = [item EXCEPT !.status = st]
        \/ /\ item.stage # LastStage
           /\ \E st \in {"awaiting_review", "pending"} :
                  it = [item EXCEPT !.stage = @ + 1, !.status = st]
  BY DEF AfterStage, Moved
<1> QED  BY <1>3, <1>4, <1>5, <1>6

LEMMA FailItemType ==
    ASSUME ItemTyped
    PROVE  FailItem \in ItemRecord
BY DEF ItemTyped, FailItem, ItemRecord, Status, Closed

\* The end of a stage's only chat, whose result is the stage's own.
LEMMA FinishKeeps ==
    ASSUME ItemTyped, NEW s \in Stage, NEW left \in [Stage -> Nat], FinishStage(s, left)
    PROVE  /\ item' \in ItemRecord /\ running' \in [Stage -> Nat]
           /\ output' \in [Stage -> Nat]
           /\ (\A x \in Stage : left[x] = 0) => OneChat'
           /\ (Owns /\ item.stage = s) => Owns'
<1>0. s \in Nat /\ item.stage \in Stage
  BY DEF ItemTyped, ItemRecord, Stage
<1>1. CASE item.status \in {"in_progress", "awaiting_review", "pending"}
  <2>1. output' = [output EXCEPT ![item.stage] = s]
    BY <1>1 DEF FinishStage
  <2>2. output' \in [Stage -> Nat]
    BY <1>0, <2>1 DEF ItemTyped
  <2>3. (Owns /\ item.stage = s) => Owns'
    BY <1>0, <2>1 DEF ItemTyped, Owns
  <2>4. PICK it \in AfterStage : IF it.status = "pending" THEN DispatchStage(it, it.stage, left)
                                 ELSE item' = it /\ running' = left
    BY <1>1 DEF FinishStage
  <2>5. it \in ItemRecord /\ it.stage \in Stage
    BY AfterStageType DEF ItemRecord
  <2>6. CASE it.status = "pending"
    BY <2>2, <2>3, <2>4, <2>5, <2>6, StageDispatched
  <2>7. CASE it.status # "pending"
    BY <2>2, <2>3, <2>4, <2>5, <2>7 DEF OneChat
  <2> QED  BY <2>6, <2>7
<1>2. CASE item.status \notin {"in_progress", "awaiting_review", "pending"}
  BY <1>2, FailItemType DEF FinishStage, ItemTyped, OneChat, Owns
<1> QED  BY <1>1, <1>2

LEMMA ChatStep ==
    ASSUME ItemInv, NEW s \in Stage,
           ChatAnswers(s) \/ ChatFails(s) \/ ChatStalls(s) \/ ChatReaped(s)
    PROVE  ItemInv'
<1> DEFINE left == [running EXCEPT ![s] = @ - 1]
<1>1. running[s] \in Nat /\ running[s] # 0
  BY DEF ItemInv, ItemTyped, ChatAnswers, ChatFails, ChatStalls, ChatReaped
<1>2. left \in [Stage -> Nat]
  BY <1>1 DEF ItemInv, ItemTyped
<1>3. ~forked => /\ \A x \in Stage : left[x] = 0
                 /\ item.stage = s
  BY <1>1 DEF ItemInv, ItemTyped, OneChat
<1>4. CASE ChatAnswers(s)
  <2>1. ItemTyped /\ FinishStage(s, left) /\ UNCHANGED <<resuming, retries, forked>>
    BY <1>4 DEF ChatAnswers, ItemInv
  <2>2. ItemTyped'
    BY <1>2, <2>1, FinishKeeps DEF ItemTyped
  <2>3. ~forked => OneChat' /\ Owns'
    BY <1>2, <1>3, <2>1, FinishKeeps DEF ItemInv
  <2> QED  BY <2>1, <2>2, <2>3 DEF ItemInv
<1>5. CASE ~ChatAnswers(s)
  <2>1. /\ running' = left /\ item' \in {item, FailItem}
        /\ UNCHANGED <<output, retries, forked, resuming>>
    BY <1>5 DEF ChatFails, ChatStalls, ChatReaped
  <2>2. item' \in ItemRecord
    BY <2>1, FailItemType DEF ItemInv, ItemTyped
  <2>3. ItemTyped'
    BY <1>2, <2>1, <2>2 DEF ItemInv, ItemTyped
  <2>4. ~forked => OneChat' /\ Owns'
    BY <1>3, <2>1 DEF ItemInv, OneChat, Owns
  <2> QED  BY <2>1, <2>3, <2>4 DEF ItemInv
<1> QED  BY <1>4, <1>5

\* An item that was live forks; one that was not takes no result.
LEMMA LateStep ==
    ASSUME ItemInv, NEW s \in Stage, LateAnswer(s)
    PROVE  ItemInv'
<1>1. ItemTyped /\ FinishStage(s, running) /\ running \in [Stage -> Nat]
      /\ UNCHANGED <<resuming, retries>>
  BY DEF ItemInv, ItemTyped, LateAnswer
<1>2. forked' \in BOOLEAN
  BY DEF LateAnswer
<1>3. ItemTyped'
  BY <1>1, <1>2, FinishKeeps DEF ItemTyped
<1>4. ASSUME ~forked' PROVE OneChat' /\ Owns'
  <2>1. ~forked /\ item.status \notin {"in_progress", "awaiting_review", "pending"}
    BY <1>4 DEF LateAnswer
  <2>2. item' = FailItem /\ running' = running /\ output' = output
    BY <1>1, <2>1 DEF FinishStage
  <2>3. OneChat /\ Owns
    BY <2>1 DEF ItemInv
  <2> QED  BY <2>1, <2>2, <2>3 DEF OneChat, Owns
<1> QED  BY <1>3, <1>4 DEF ItemInv

LEMMA RetryStep ==
    ASSUME ItemInv, StewardRetries
    PROVE  ItemInv'
<1>1. /\ DispatchStage(CountFailure, item.stage, running) /\ item.status = "failed"
      /\ UNCHANGED <<output, resuming, retries, forked>>
  BY DEF StewardRetries, Retryable
<1>2. /\ CountFailure \in ItemRecord /\ CountFailure.stage = item.stage /\ item.stage \in Stage
      /\ running \in [Stage -> Nat]
  BY DEF ItemInv, ItemTyped, CountFailure, ItemRecord
<1>3. ItemTyped'
  BY <1>1, <1>2, StageDispatched DEF ItemInv, ItemTyped
<1>4. ~forked => \A x \in Stage : running[x] = 0
  BY <1>1 DEF ItemInv, OneChat
<1>5. ~forked => OneChat' /\ Owns'
  BY <1>1, <1>2, <1>4, StageDispatched DEF ItemInv, Owns
<1> QED  BY <1>1, <1>3, <1>5 DEF ItemInv

LEMMA ResumeStep ==
    ASSUME ItemInv, WriteDispatch
    PROVE  ItemInv'
<1>1. /\ DispatchStage(item, resuming.stage, running) /\ resuming' = NotResuming
      /\ resuming # NotResuming
      /\ UNCHANGED <<output, retries>>
      /\ forked' = (forked \/ item.status # resuming.status \/ item.stage # resuming.stage)
  BY DEF WriteDispatch
<1>2. /\ item \in ItemRecord /\ resuming.stage \in Stage /\ running \in [Stage -> Nat]
      /\ resuming.status # "in_progress" /\ 1 \in Stage
  BY WorkItemAssumption DEF ItemInv, ItemTyped, Stage
<1>3. forked' \in BOOLEAN
  BY <1>1
<1>4. ItemTyped'
  BY <1>1, <1>2, <1>3, StageDispatched DEF ItemInv, ItemTyped, NotResuming
<1>5. ASSUME ~forked' PROVE OneChat' /\ Owns'
  <2>1. ~forked /\ item.status # "in_progress" /\ item.stage = resuming.stage
    BY <1>1, <1>2, <1>5
  <2>2. \A x \in Stage : running[x] = 0
    BY <2>1 DEF ItemInv, OneChat
  <2> QED  BY <1>1, <1>2, <2>1, <2>2, StageDispatched DEF ItemInv, Owns
<1> QED  BY <1>4, <1>5 DEF ItemInv

\* A step that starts no chat, stores no result and takes no running item.
LEMMA ItemRestStep ==
    ASSUME ItemInv, ItemTyped', UNCHANGED output, forked => forked',
           \A s \in Stage : running'[s] = running[s] \/ running'[s] = 0,
           \/ \A s \in Stage : running'[s] = 0
           \/ item.status # "in_progress"
           \/ item'.status = item.status /\ item'.stage = item.stage
    PROVE  ItemInv'
BY DEF ItemInv, OneChat, Owns

LEMMA PeopleStep ==
    ASSUME ItemInv,
           \/ StewardGivesUp \/ ReadStatus \/ DispatchRefused \/ RetryMarks \/ CancelItem
           \/ ClaimBoost \/ FailBoost \/ UNCHANGED itemVars
    PROVE  ItemInv'
<1>1. 1 \in Stage
  BY WorkItemAssumption DEF Stage
<1>2. CASE StewardGivesUp
  BY <1>2, ItemRestStep DEF StewardGivesUp, Retryable, ItemInv, ItemTyped, ItemRecord, Status, Closed
<1>3. CASE ReadStatus
  <2>1. resuming' \in [status : {"none", "pending", "awaiting_review", "failed"}, stage : Stage]
    BY <1>3 DEF ReadStatus, Dispatchable, ItemInv, ItemTyped, ItemRecord
  <2> QED  BY <1>3, <2>1, ItemRestStep DEF ReadStatus, ItemInv, ItemTyped
<1>4. CASE DispatchRefused
  BY <1>1, <1>4, ItemRestStep DEF DispatchRefused, NotResuming, ItemInv, ItemTyped
<1>5. CASE RetryMarks
  BY <1>5, ItemRestStep DEF RetryMarks, ItemInv, ItemTyped, ItemRecord, Status, Closed
<1>6. CASE CancelItem
  BY <1>6, ItemRestStep DEF CancelItem, ItemInv, ItemTyped, ItemRecord, Status, Closed
<1>7. CASE ClaimBoost \/ FailBoost
  BY <1>7, ItemRestStep DEF ClaimBoost, FailBoost, ItemInv, ItemTyped, ItemRecord
<1>8. CASE UNCHANGED itemVars
  BY <1>8, ItemRestStep DEF itemVars, ItemInv, ItemTyped
<1> QED  BY <1>2, <1>3, <1>4, <1>5, <1>6, <1>7, <1>8

LEMMA BoostStep ==
    ASSUME ItemInv, ResolveBoost
    PROVE  ItemInv'
<1>1. ItemTyped'
  <2>1. Boost \in Nat /\ item.stage \in Stage
    BY WorkItemAssumption DEF Boost, ItemInv, ItemTyped, ItemRecord
  <2> QED  BY <2>1 DEF ResolveBoost, ItemInv, ItemTyped, ItemRecord, Status, Closed
<1>2. ASSUME ~forked' PROVE OneChat' /\ Owns'
  <2>1. ~forked /\ item.status = "failed" /\ UNCHANGED running
    BY <1>2 DEF ResolveBoost
  <2>2. OneChat'
    BY <2>1 DEF ItemInv, OneChat
  <2>3. Owns'
    BY <2>1 DEF ResolveBoost, ItemInv, ItemTyped, Owns
  <2> QED  BY <2>2, <2>3
<1> QED  BY <1>1, <1>2 DEF ItemInv

LEMMA ItemStep == ItemInv /\ [ItemNext]_itemVars => ItemInv'
BY ChatStep, LateStep, RetryStep, ResumeStep, PeopleStep, BoostStep
   DEF ItemNext, ChatEnds, Steward

LEMMA ItemStart == ItemInit => ItemInv
<1> SUFFICES ASSUME ItemInit PROVE ItemInv
  OBVIOUS
<1>1. 1 \in Stage
  BY WorkItemAssumption DEF Stage
<1>2. ItemTyped
  BY <1>1 DEF ItemInit, ItemTyped, ItemRecord, Status, NotResuming, NoOutput
<1>3. OneChat /\ Owns
  BY DEF ItemInit, OneChat, Owns
<1> QED  BY <1>2, <1>3 DEF ItemInv

\* A stage's result comes from a chat of that stage, whatever was retried,
\* resumed, cancelled or looped back, while no late answer, lost race or
\* escalation met an item that had moved on.
THEOREM ResultsOwn == ItemSpec => []OutputsOwn
<1>1. ItemInv => OutputsOwn
  BY DEF ItemInv, Owns, OutputsOwn
<1> QED  BY <1>1, ItemStart, ItemStep, PTL DEF ItemSpec

\* A completed or cancelled item is only reopened by a person's retry: killing
\* the chats of a cancelled item does not make it one the steward retries.
THEOREM ClosedItemsStay == ItemSpec => ClosedStays
<1> DEFINE Stays == item.status \in Closed /\ item'.status \notin Closed
                        => retries' # retries \/ forked'
<1>1. ItemInv /\ [ItemNext]_itemVars => [Stays]_itemVars
  <2> SUFFICES ASSUME ItemInv, ItemNext, item.status \in Closed, ~forked'
               PROVE  item'.status \in Closed \/ retries' # retries
    BY DEF Stays
  <2>1. ASSUME NEW s \in Stage, ChatAnswers(s) PROVE FALSE
    <3>1. ~forked /\ running[s] # 0
      BY <2>1 DEF ChatAnswers, ItemInv, ItemTyped
    <3> QED  BY <3>1 DEF ItemInv, OneChat, Closed
  <2>2. ASSUME NEW s \in Stage, ChatFails(s) \/ ChatStalls(s) \/ ChatReaped(s) \/ LateAnswer(s)
        PROVE  item'.status \in Closed
    <3>1. item' \in {item, FailItem} \/ FinishStage(s, running)
      BY <2>2 DEF ChatFails, ChatStalls, ChatReaped, LateAnswer
    <3>2. FailItem = item
      BY DEF FailItem
    <3>3. item.status \notin {"in_progress", "awaiting_review", "pending"}
      BY DEF Closed
    <3>4. item' = item
      BY <3>1, <3>2, <3>3 DEF FinishStage
    <3> QED  BY <3>4
  <2>3. CASE Steward \/ RetryMarks \/ ResolveBoost \/ CancelItem
    <3>1. retries + 1 # retries
      BY DEF ItemInv, ItemTyped
    <3>2. item.status # "failed"
      BY DEF Closed
    <3>3. ~Steward /\ ~CancelItem /\ ~ResolveBoost
      BY <3>2 DEF Steward, StewardRetries, StewardGivesUp, Retryable, ResolveBoost, CancelItem
    <3> QED  BY <2>3, <3>1, <3>3 DEF RetryMarks
  <2>4. CASE WriteDispatch
    BY <2>4 DEF WriteDispatch, ItemInv, ItemTyped, Closed
  <2>5. CASE ReadStatus \/ DispatchRefused \/ ClaimBoost \/ FailBoost
    BY <2>5 DEF ReadStatus, DispatchRefused, ClaimBoost, FailBoost, ItemInv, ItemTyped, ItemRecord
  <2> QED  BY <2>1, <2>2, <2>3, <2>4, <2>5 DEF ItemNext, ChatEnds
<1> QED  BY <1>1, ItemStart, ItemStep, PTL DEF ItemSpec, ClosedStays

\* The counters of an item stay within their limits.
ItemCaps ==
    /\ item.failures <= 3 /\ item.hops <= MaxHops
    /\ \A s \in Stage : running[s] <= MaxRuns
    /\ givenUp \in [Stage -> 0 .. MaxRuns]
    /\ output \in [Stage -> {NoOutput, Boost} \cup Stage]
    /\ stalled \in BOOLEAN

LEMMA DispatchCaps ==
    ASSUME NEW it \in ItemRecord, it.failures <= 3, it.hops <= MaxHops, NEW s \in Stage,
           NEW left \in [Stage -> Nat], \A x \in Stage : left[x] <= MaxRuns,
           DispatchStage(it, s, left)
    PROVE  /\ item'.failures <= 3 /\ item'.hops <= MaxHops
           /\ \A x \in Stage : running'[x] <= MaxRuns
<1>1. item'.failures = it.failures /\ item'.hops = it.hops
  BY DEF DispatchStage, ItemRecord
<1>2. running' = left \/ (left[s] < MaxRuns /\ running' = [left EXCEPT ![s] = @ + 1])
  BY DEF DispatchStage
<1>3. \A x \in Stage : running'[x] <= MaxRuns
  BY <1>2, WorkItemAssumption
<1> QED  BY <1>1, <1>3

LEMMA FinishCaps ==
    ASSUME ItemTyped, ItemCaps, NEW s \in Stage, NEW left \in [Stage -> Nat],
           \A x \in Stage : left[x] <= MaxRuns, FinishStage(s, left)
    PROVE  /\ item'.failures <= 3 /\ item'.hops <= MaxHops
           /\ \A x \in Stage : running'[x] <= MaxRuns
           /\ output' \in [Stage -> {NoOutput, Boost} \cup Stage]
<1>1. /\ item \in ItemRecord /\ item.hops \in Nat /\ item.stage \in Stage /\ MaxHops \in Nat
      /\ item.failures <= 3 /\ item.hops <= MaxHops
  BY WorkItemAssumption DEF ItemTyped, ItemRecord, ItemCaps
<1>2. \A it \in AfterStage : it.failures = item.failures
                             /\ (it.hops = item.hops \/ (item.hops < MaxHops /\ it.hops = item.hops + 1))
  BY <1>1 DEF AfterStage, ItemRecord
<1>3. \A it \in AfterStage : it \in ItemRecord /\ it.failures <= 3 /\ it.hops <= MaxHops
                             /\ it.stage \in Stage
  <2>1. AfterStage \subseteq ItemRecord
    BY AfterStageType
  <2>2. \A it \in AfterStage : it.hops <= MaxHops
    BY <1>1, <1>2
  <2> QED  BY <1>1, <1>2, <2>1, <2>2 DEF ItemRecord
<1>4. CASE item.status \in {"in_progress", "awaiting_review", "pending"}
  <2>1. output' = [output EXCEPT ![item.stage] = s]
    BY <1>4 DEF FinishStage
  <2>2. output' \in [Stage -> {NoOutput, Boost} \cup Stage]
    BY <2>1 DEF ItemCaps
  <2>3. PICK it \in AfterStage : IF it.status = "pending" THEN DispatchStage(it, it.stage, left)
                                 ELSE item' = it /\ running' = left
    BY <1>4 DEF FinishStage
  <2>4. CASE it.status = "pending"
    BY <1>3, <2>2, <2>3, <2>4, DispatchCaps
  <2>5. CASE it.status # "pending"
    BY <1>3, <2>2, <2>3, <2>5
  <2> QED  BY <2>4, <2>5
<1>5. CASE item.status \notin {"in_progress", "awaiting_review", "pending"}
  <2>1. item' = FailItem /\ running' = left /\ output' = output
    BY <1>5 DEF FinishStage
  <2>2. item'.failures = item.failures /\ item'.hops = item.hops
    BY <1>1, <2>1 DEF FailItem, ItemRecord
  <2> QED  BY <1>1, <2>1, <2>2 DEF ItemCaps
<1> QED  BY <1>4, <1>5

LEMMA ItemCapsStay ==
    ASSUME ItemInv, ItemCaps, [ItemNext]_itemVars
    PROVE  ItemCaps'
<1>1. /\ ItemTyped /\ item \in ItemRecord /\ running \in [Stage -> Nat]
      /\ item.failures \in Nat /\ item.hops \in Nat /\ item.stage \in Stage /\ MaxRuns \in Nat
      /\ givenUp \in [Stage -> 0 .. MaxRuns]
  BY WorkItemAssumption DEF ItemInv, ItemTyped, ItemRecord, ItemCaps
<1>2. ASSUME NEW it, it = item \/ it = FailItem PROVE it.failures = item.failures /\ it.hops = item.hops
  BY <1>1, <1>2 DEF FailItem, ItemRecord
<1>3. ASSUME NEW s \in Stage, running[s] > 0
      PROVE  /\ [running EXCEPT ![s] = @ - 1] \in [Stage -> Nat]
             /\ \A x \in Stage : [running EXCEPT ![s] = @ - 1][x] <= MaxRuns
  BY <1>1, <1>3 DEF ItemCaps
<1>4. ASSUME NEW s \in Stage, ChatAnswers(s) PROVE ItemCaps'
  <2> DEFINE left == [running EXCEPT ![s] = @ - 1]
  <2>1. left \in [Stage -> Nat] /\ (\A x \in Stage : left[x] <= MaxRuns) /\ FinishStage(s, left)
    BY <1>3, <1>4 DEF ChatAnswers
  <2> HIDE DEF left
  <2> QED  BY <1>1, <1>4, <2>1, FinishCaps DEF ChatAnswers, ItemCaps
<1>5. ASSUME NEW s \in Stage, ChatFails(s) \/ ChatStalls(s) PROVE ItemCaps'
  <2>1. running' = [running EXCEPT ![s] = @ - 1] /\ running[s] > 0 /\ (item' = item \/ item' = FailItem)
    BY <1>5 DEF ChatFails, ChatStalls
  <2>2. \A x \in Stage : running'[x] <= MaxRuns
    BY <1>3, <2>1
  <2>3. item'.failures = item.failures /\ item'.hops = item.hops
    BY <1>2, <2>1
  <2> QED  BY <1>5, <2>2, <2>3 DEF ChatFails, ChatStalls, ItemCaps
<1>6. ASSUME NEW s \in Stage, ChatReaped(s) PROVE ItemCaps'
  <2>1. running' = [running EXCEPT ![s] = @ - 1] /\ running[s] > 0 /\ item' = FailItem
        /\ givenUp' = [givenUp EXCEPT ![s] = @ + 1] /\ givenUp[s] < MaxRuns
    BY <1>6 DEF ChatReaped
  <2>2. \A x \in Stage : running'[x] <= MaxRuns
    BY <1>3, <2>1
  <2>3. givenUp' \in [Stage -> 0 .. MaxRuns]
    BY <1>1, <2>1
  <2>4. item'.failures = item.failures /\ item'.hops = item.hops
    BY <1>2, <2>1
  <2> QED  BY <1>6, <2>2, <2>3, <2>4 DEF ChatReaped, ItemCaps
<1>7. ASSUME NEW s \in Stage, LateAnswer(s) PROVE ItemCaps'
  <2>1. givenUp' \in [Stage -> 0 .. MaxRuns]
    BY <1>1, <1>7 DEF LateAnswer
  <2>2. FinishStage(s, running) /\ stalled' = stalled /\ \A x \in Stage : running[x] <= MaxRuns
    BY <1>7 DEF LateAnswer, ItemCaps
  <2> QED  BY <1>1, <2>1, <2>2, FinishCaps DEF ItemCaps
<1>8. CASE StewardRetries
  <2>1. /\ DispatchStage(CountFailure, item.stage, running) /\ item.failures < 3
        /\ UNCHANGED <<givenUp, output, stalled>>
    BY <1>8 DEF StewardRetries, Retryable
  <2>2. CountFailure \in ItemRecord /\ CountFailure.failures <= 3 /\ CountFailure.hops <= MaxHops
    <3>1. item.failures + 1 \in Nat /\ item.failures + 1 <= 3
      BY <1>1, <2>1
    <3> QED  BY <1>1, <3>1 DEF CountFailure, ItemRecord, ItemCaps
  <2>3. \A x \in Stage : running[x] <= MaxRuns
    BY DEF ItemCaps
  <2> HIDE DEF CountFailure
  <2> QED  BY <1>1, <2>1, <2>2, <2>3, DispatchCaps DEF ItemCaps
<1>9. CASE WriteDispatch
  <2>1. /\ DispatchStage(item, resuming.stage, running) /\ resuming.stage \in Stage
        /\ UNCHANGED <<givenUp, output, stalled>>
    BY <1>1, <1>9 DEF WriteDispatch, ItemTyped
  <2>2. item.failures <= 3 /\ item.hops <= MaxHops /\ \A x \in Stage : running[x] <= MaxRuns
    BY DEF ItemCaps
  <2> QED  BY <1>1, <2>1, <2>2, DispatchCaps DEF ItemCaps
<1>10. CASE CancelItem
  <2>1. running' = [s \in Stage |-> 0] /\ givenUp' = [s \in Stage |-> running[s] + givenUp[s]]
        /\ item' = [item EXCEPT !.status = "cancelled"] /\ UNCHANGED <<output, stalled>>
    BY <1>10 DEF CancelItem
  <2>2. givenUp' \in [Stage -> 0 .. MaxRuns]
    <3>1. \A s \in Stage : running[s] + givenUp[s] \in 0 .. MaxRuns
      BY <1>1, <1>10 DEF CancelItem
    <3> QED  BY <2>1, <3>1
  <2>3. item'.failures = item.failures /\ item'.hops = item.hops
    BY <1>1, <2>1 DEF ItemRecord
  <2> QED  BY <1>1, <2>1, <2>2, <2>3 DEF ItemCaps
<1>11. CASE StewardGivesUp \/ RetryMarks \/ ClaimBoost \/ FailBoost \/ ReadStatus \/ DispatchRefused
            \/ UNCHANGED itemVars
  <2>1. item'.failures = item.failures /\ item'.hops = item.hops
    BY <1>1, <1>11
       DEF StewardGivesUp, RetryMarks, ClaimBoost, FailBoost, ReadStatus, DispatchRefused, itemVars,
           ItemRecord
  <2> QED
    BY <1>11, <2>1
       DEF StewardGivesUp, RetryMarks, ClaimBoost, FailBoost, ReadStatus, DispatchRefused, itemVars,
           ItemCaps
<1>12. CASE ResolveBoost
  <2>1. item'.failures = 0 /\ item'.hops = item.hops
    BY <1>1, <1>12 DEF ResolveBoost, ItemRecord
  <2>2. output' \in [Stage -> {NoOutput, Boost} \cup Stage]
    BY <1>1, <1>12 DEF ResolveBoost, ItemCaps
  <2> QED  BY <1>12, <2>1, <2>2 DEF ResolveBoost, ItemCaps
<1> QED
  BY <1>4, <1>5, <1>6, <1>7, <1>8, <1>9, <1>10, <1>11, <1>12 DEF ItemNext, ChatEnds, Steward

LEMMA ItemTypes == ItemSpec => []ItemTypeOK
<1>1. ItemInit => ItemCaps
  <2>1. {MaxHops, MaxRuns} \subseteq Nat /\ 0 \in 0 .. MaxRuns
    BY WorkItemAssumption
  <2> SUFFICES ASSUME ItemInit PROVE ItemCaps
    OBVIOUS
  <2>2. item.failures = 0 /\ item.hops = 0 /\ running = [s \in Stage |-> 0]
        /\ givenUp = [s \in Stage |-> 0]
        /\ output = [s \in Stage |-> NoOutput] /\ stalled = FALSE
    BY DEF ItemInit
  <2>3. stalled \in BOOLEAN
    BY <2>2
  <2>4. \A s \in Stage : running[s] <= MaxRuns
    BY <2>1, <2>2
  <2> QED  BY <2>1, <2>2, <2>3, <2>4 DEF ItemCaps
<1>2. ItemInv /\ ItemCaps => ItemTypeOK
  <2> SUFFICES ASSUME ItemInv, ItemCaps PROVE ItemTypeOK
    OBVIOUS
  <2>1. /\ item \in ItemRecord /\ item.failures \in 0 .. 3 /\ item.hops \in 0 .. MaxHops
        /\ running \in [Stage -> 0 .. MaxRuns]
    <3>1. item \in ItemRecord /\ running \in [Stage -> Nat] /\ item.failures \in Nat /\ item.hops \in Nat
      BY DEF ItemInv, ItemTyped, ItemRecord
    <3> QED  BY <3>1, WorkItemAssumption DEF ItemCaps
  <2>2. item \in [status : Status, stage : Stage, failures : 0 .. 3, quarantined : BOOLEAN,
                  hops : 0 .. MaxHops,
                  rescue : {"normal", "queued", "in_progress", "resolved", "failed"}]
    BY <2>1 DEF ItemRecord
  <2> QED  BY <2>1, <2>2 DEF ItemTypeOK, ItemInv, ItemTyped, ItemCaps, Status
<1>3. ItemInv /\ ItemCaps /\ [ItemNext]_itemVars => (ItemInv /\ ItemCaps)'
  BY ItemStep, ItemCapsStay
<1> QED  BY <1>1, <1>2, <1>3, ItemStart, PTL DEF ItemSpec

----------------------------------------------------------------------------
(* JudgeGate: a gated turn is resumed once and whole, for any number of
   replies and of continuations that raise. *)

GateTyped ==
    /\ gate \in {"open", "gated", "done", "error"} /\ direct \in BOOLEAN /\ resumed \in BOOLEAN
    /\ text \in [Reply -> {"none", "small", "pending", "brief"}]
    /\ judge \in [Reply -> {"none", "reading", "wrote", "leaves", "resumes", "over"}]

\* One judge at a time is between its lock and its commit.
OneDecides == \A r \in Reply : judge[r] \in {"leaves", "resumes"} => rowLock = {r}

\* No judge was set on a dispatch that is not gated.
Unjudged == \A r \in Reply : judge[r] = "none"
NotJudged == nexts = 0 /\ ~resumed /\ Unjudged
Small == nexts = 1 /\ Unjudged /\ \A r \in Reply : text[r] = "small"

\* The judge that is to resume a gated dispatch is the last one, which nobody
\* resumed before.
Gated ==
    /\ nexts = (IF resumed THEN 1 ELSE 0)
    /\ resumed => \A x \in Reply : text[x] # "pending"
    /\ \A r \in Reply : judge[r] = "resumes" =>
           ~resumed /\ \A x \in Reply \ {r} : text[x] # "pending"

Phases ==
    /\ gate \in {"open", "error"} => NotJudged
    /\ gate = "open" => ~direct
    /\ gate = "done" /\ ~direct => Small
    /\ gate = "gated" => Gated

GateInv == GateTyped /\ OneDecides /\ Phases

LEMMA GateStart == GateInit => GateInv
BY DEF GateInit, GateInv, GateTyped, OneDecides, Phases, NotJudged, Unjudged

LEMMA LandKeeps ==
    ASSUME NEW big \in SUBSET Reply, Land(big)
    PROVE  /\ text' \in [Reply -> {"none", "small", "pending", "brief"}]
           /\ judge' \in [Reply -> {"none", "reading", "wrote", "leaves", "resumes", "over"}]
           /\ \A r \in Reply : judge'[r] \in {"none", "reading"}
           /\ big = {} => \A r \in Reply : judge'[r] = "none" /\ text'[r] = "small"
BY DEF Land

LEMMA DispatchStep ==
    ASSUME GateInv, PromoteReplies \/ PromoteFails \/ DispatchReplies \/ ItemStops
    PROVE  GateInv'
<1>1. CASE PromoteReplies
  <2>1. PICK big \in SUBSET Reply :
          /\ Land(big)
          /\ gate' = IF big = {} THEN "done" ELSE "gated"
          /\ nexts' = IF big = {} THEN nexts + 1 ELSE nexts
    BY <1>1 DEF PromoteReplies
  <2>2. gate = "open" /\ NotJudged /\ UNCHANGED <<rowLock, resumed, direct>>
    BY <1>1 DEF PromoteReplies, GateInv, Phases
  <2>3. GateTyped'
    BY <2>1, <2>2, LandKeeps DEF GateInv, GateTyped
  <2>4. OneDecides'
    BY <2>1, LandKeeps DEF OneDecides
  <2>5. big = {} => Small'
    BY <2>1, <2>2, LandKeeps DEF NotJudged, Small, Unjudged
  <2>6. big # {} => Gated'
    <3>1. \A r \in Reply : judge'[r] # "resumes"
      BY <2>1, LandKeeps
    <3> QED  BY <2>1, <2>2, <3>1 DEF NotJudged, Gated
  <2> QED  BY <2>1, <2>3, <2>4, <2>5, <2>6 DEF GateInv, Phases
<1>2. CASE PromoteFails
  BY <1>2 DEF PromoteFails, GateInv, GateTyped, OneDecides, Phases, NotJudged, Unjudged
<1>3. CASE DispatchReplies
  <2>1. PICK big \in SUBSET Reply : Land(big)
    BY <1>3 DEF DispatchReplies
  <2>2. gate' = "done" /\ direct' = TRUE /\ UNCHANGED resumed
    BY <1>3 DEF DispatchReplies
  <2> QED  BY <2>1, <2>2, LandKeeps DEF GateInv, GateTyped, OneDecides, Phases
<1>4. CASE ItemStops
  BY <1>4 DEF ItemStops, GateInv, GateTyped, OneDecides, Phases, NotJudged, Small, Gated, Unjudged
<1> QED  BY <1>1, <1>2, <1>3, <1>4

LEMMA JudgeStep ==
    ASSUME GateInv, NEW r \in Reply, JudgeEnds(r)
    PROVE  GateInv'
<1>1. judge[r] # "none" /\ UNCHANGED <<gate, direct>>
  BY DEF JudgeEnds, WriteBrief, LockGate, CommitBrief, BriefUndone, TransactionEnds
<1>2. (gate = "gated" /\ Gated) \/ (gate = "done" /\ direct)
  BY <1>1 DEF GateInv, GateTyped, Phases, NotJudged, Small, Unjudged
<1>3. GateTyped /\ OneDecides
  BY DEF GateInv
<1>4. CASE WriteBrief(r)
  <2>1. /\ judge' = [judge EXCEPT ![r] = "wrote"]
        /\ UNCHANGED <<text, rowLock, resumed, nexts>>
    BY <1>4 DEF WriteBrief
  <2>2. GateTyped' /\ OneDecides'
    BY <1>1, <1>3, <2>1 DEF GateTyped, OneDecides
  <2>3. Gated => Gated'
    BY <1>3, <2>1 DEF GateTyped, Gated
  <2> QED  BY <1>1, <1>2, <2>2, <2>3 DEF GateInv, Phases
<1>5. CASE LockGate(r)
  <2> DEFINE decides == IF resumed \/ StillPending(r) \/ workItem # "running"
                        THEN "leaves" ELSE "resumes"
  <2>1. /\ rowLock = {} /\ rowLock' = {r} /\ judge' = [judge EXCEPT ![r] = decides]
        /\ UNCHANGED <<text, resumed, nexts>>
    BY <1>5 DEF LockGate, MayLock
  <2>2. decides \in {"leaves", "resumes"}
    OBVIOUS
  <2>3. decides = "resumes" => ~resumed /\ \A x \in Reply \ {r} : text[x] # "pending"
    BY DEF StillPending, PendingReplies
  <2> HIDE DEF decides
  <2>4. \A x \in Reply : judge[x] \notin {"leaves", "resumes"}
    BY <1>3, <2>1 DEF OneDecides
  <2>5. judge'[r] = decides /\ \A x \in Reply \ {r} : judge'[x] = judge[x]
    BY <1>3, <2>1 DEF GateTyped
  <2>6. GateTyped'
    BY <1>1, <1>3, <2>1, <2>2 DEF GateTyped
  <2>7. OneDecides'
    BY <2>1, <2>4, <2>5 DEF OneDecides
  <2>8. Gated => Gated'
    BY <2>1, <2>3, <2>4, <2>5 DEF Gated
  <2> QED  BY <1>1, <1>2, <2>6, <2>7, <2>8 DEF GateInv, Phases
<1>6. CASE CommitBrief(r) \/ BriefUndone(r)
  <2>1. /\ judge[r] \in {"leaves", "resumes"}
        /\ judge' = [judge EXCEPT ![r] = "over"] /\ rowLock' = rowLock \ {r}
    BY <1>6 DEF CommitBrief, BriefUndone, TransactionEnds
  <2>2. \A x \in Reply : judge'[x] \notin {"leaves", "resumes"}
    <3>1. \A x \in Reply \ {r} : judge[x] \notin {"leaves", "resumes"}
      BY <1>3, <2>1 DEF OneDecides
    <3> QED  BY <1>3, <2>1, <3>1 DEF GateTyped
  <2>3. GateTyped' /\ (Gated => Gated')
    <3>1. CASE CommitBrief(r)
      <4>1. /\ text' = [text EXCEPT ![r] = "brief"]
            /\ resumed' = (resumed \/ judge[r] = "resumes")
            /\ nexts' = IF judge[r] = "resumes" THEN nexts + 1 ELSE nexts
        BY <3>1 DEF CommitBrief
      <4>2. GateTyped'
        BY <1>1, <1>3, <2>1, <4>1 DEF GateTyped
      <4>3. text'[r] = "brief" /\ \A x \in Reply \ {r} : text'[x] = text[x]
        BY <1>3, <4>1 DEF GateTyped
      <4>4. ASSUME Gated PROVE Gated'
        <5>1. resumed' => \A x \in Reply : text'[x] # "pending"
          BY <4>1, <4>3, <4>4 DEF Gated
        <5>2. nexts' = IF resumed' THEN 1 ELSE 0
          <6>1. CASE judge[r] = "resumes"
            <7>1. nexts = 0 /\ resumed' = TRUE
              BY <4>1, <4>4, <6>1 DEF Gated
            <7> QED  BY <4>1, <6>1, <7>1
          <6>2. CASE judge[r] # "resumes"
            <7>1. resumed' = resumed
              BY <1>3, <4>1, <6>2 DEF GateTyped
            <7> QED  BY <4>1, <4>4, <6>2, <7>1 DEF Gated
          <6> QED  BY <6>1, <6>2
        <5> QED  BY <2>2, <5>1, <5>2 DEF Gated
      <4> QED  BY <4>2, <4>4
    <3>2. CASE BriefUndone(r)
      <4>1. UNCHANGED <<text, resumed, nexts>>
        BY <3>2 DEF BriefUndone
      <4>2. GateTyped'
        BY <1>1, <1>3, <2>1, <4>1 DEF GateTyped
      <4>3. Gated => Gated'
        BY <2>2, <4>1 DEF Gated
      <4> QED  BY <4>2, <4>3
    <3> QED  BY <1>6, <3>1, <3>2
  <2>4. OneDecides'
    BY <2>2 DEF OneDecides
  <2> QED  BY <1>1, <1>2, <2>3, <2>4 DEF GateInv, Phases
<1> QED  BY <1>4, <1>5, <1>6 DEF JudgeEnds

LEMMA GateStep == GateInv /\ [GateNext]_gateVars => GateInv'
<1>1. ASSUME GateInv, UNCHANGED gateVars PROVE GateInv'
  BY <1>1 DEF gateVars, GateInv, GateTyped, OneDecides, Phases, NotJudged, Small, Gated, Unjudged
<1> QED  BY <1>1, DispatchStep, JudgeStep DEF GateNext

\* A gated turn is resumed once at most, and not while a judge still reads:
\* the model never sees a placeholder for a reply, and never two turns.
THEOREM ResumedOnceWhole == GateSpec => []ResumedWhole
<1>1. GateInv => ResumedWhole
  <2> SUFFICES ASSUME GateInv, ~direct PROVE nexts <= 1 /\ (nexts = 1 => PendingReplies = {})
    BY DEF ResumedWhole
  <2>1. NotJudged \/ Small \/ Gated
    BY DEF GateInv, GateTyped, Phases
  <2> QED  BY <2>1 DEF NotJudged, Small, Gated, PendingReplies
<1> QED  BY <1>1, GateStart, GateStep, PTL DEF GateSpec

\* The judges' lock, the work item and the counters of a gate.
GateRest ==
    /\ rowLock \subseteq Reply /\ nexts \in Nat
    /\ workItem \in {"running", "stopped"} /\ raises \in Nat

LEMMA GateTypes == GateSpec => []GateTypeOK
<1>1. GateInit => GateRest
  BY DEF GateInit, GateRest
<1>2. GateRest /\ [GateNext]_gateVars => GateRest'
  BY DEF GateNext, gateVars, PromoteReplies, PromoteFails, DispatchReplies, JudgeEnds, WriteBrief,
         LockGate, TransactionEnds, CommitBrief, BriefUndone, ItemStops, GateRest
<1>3. GateInv /\ GateRest => GateTypeOK
  BY DEF GateInv, GateTyped, GateRest, GateTypeOK
<1> QED  BY <1>1, <1>2, <1>3, GateStart, GateStep, PTL DEF GateSpec

----------------------------------------------------------------------------
(* Consult: the answer a caller takes is its own, for any number of questions
   of either kind. *)

Saying == [of : Ask \cup {Earlier}, text : Texts]

ConsultTyped ==
    /\ said \in Seq(Saying) /\ base \in [Ask -> Nat] /\ got \in [Ask -> Nat]
    /\ caller \in [Ask -> {"idle", "baselined", "waiting", "over"}]
    /\ chatRow \in [Ask -> {"none", "pending", "done", "error"}]
    /\ loop \in [Ask -> {"none", "runs", "over"}]

\* A question that is not put yet has no loop and no chat row.
NotPut == \A a \in Ask : caller[a] \in {"idle", "baselined"} => loop[a] = "none" /\ chatRow[a] = "none"

\* While a question that is not crowded waits, it alone adds to the session.
OnlyItsOwn(a) ==
    Waits(a) =>
        /\ \A b \in Ask \ {a} : loop[b] # "runs"
        /\ caller[a] = "baselined" => base[a] = Len(said)
        /\ caller[a] = "waiting" /\ a \notin ToolAsk =>
               \A i \in base[a] + 1 .. Len(said) : said[i].of = a
        /\ caller[a] = "waiting" /\ a \in ToolAsk /\ chatRow[a] = "done" =>
               Len(said) > 0 /\ said[Len(said)].of = a

ReadsOwn(a) == got[a] # 0 => got[a] \in 1 .. Len(said) /\ said[got[a]].of = a

ConsultInv == ConsultTyped /\ NotPut /\ \A a \in Ask \ crowded : OnlyItsOwn(a) /\ ReadsOwn(a)

LEMMA ConsultStart == ConsultInit => ConsultInv
<1> SUFFICES ASSUME ConsultInit PROVE ConsultInv
  OBVIOUS
<1>1. <<[of |-> Earlier, text |-> "answer"]>> \in Seq(Saying)
  BY DEF Saying, Texts
<1> QED  BY <1>1 DEF ConsultInit, ConsultInv, ConsultTyped, NotPut, OnlyItsOwn, ReadsOwn, Waits

LEMMA BaselineStep ==
    ASSUME ConsultInv, NEW a \in Ask, TakeBaseline(a)
    PROVE  ConsultInv'
<1>1. /\ ConsultTyped /\ NotPut /\ caller[a] = "idle"
      /\ caller' = [caller EXCEPT ![a] = "baselined"] /\ base' = [base EXCEPT ![a] = Len(said)]
      /\ crowded' = (IF OthersRun(a) THEN crowded \cup {a} ELSE crowded)
      /\ UNCHANGED <<said, chatRow, loop, got>>
  BY DEF TakeBaseline, NewestId, ConsultInv
<1>2. Len(said) \in Nat
  BY <1>1 DEF ConsultTyped
<1>3. ConsultTyped' /\ NotPut'
  BY <1>1, <1>2 DEF ConsultTyped, NotPut
<1>4. /\ caller'[a] = "baselined" /\ base'[a] = Len(said)
      /\ \A b \in Ask \ {a} : caller'[b] = caller[b] /\ base'[b] = base[b]
  BY <1>1, <1>2 DEF ConsultTyped
<1>5. ASSUME NEW b \in Ask \ crowded' PROVE OnlyItsOwn(b)' /\ ReadsOwn(b)'
  <2>1. b \in Ask \ crowded /\ OnlyItsOwn(b) /\ ReadsOwn(b)
    BY <1>1, <1>5 DEF ConsultInv
  <2>2. ReadsOwn(b)'
    BY <1>1, <2>1 DEF ReadsOwn
  <2>3. CASE b # a
    BY <1>1, <1>4, <2>1, <2>2, <2>3 DEF OnlyItsOwn, Waits
  <2>4. CASE b = a
    <3>1. \A x \in Ask \ {a} : loop[x] # "runs"
      BY <1>1, <1>5, <2>4 DEF OthersRun
    <3> QED  BY <1>1, <1>4, <2>2, <2>4, <3>1 DEF OnlyItsOwn
  <2> QED  BY <2>3, <2>4
<1> QED  BY <1>3, <1>5 DEF ConsultInv

LEMMA QuestionStep ==
    ASSUME ConsultInv, NEW a \in Ask, PutQuestion(a)
    PROVE  ConsultInv'
<1>1. /\ ConsultTyped /\ NotPut
      /\ caller[a] = (IF a \in ToolAsk THEN "idle" ELSE "baselined")
      /\ caller' = [caller EXCEPT ![a] = "waiting"] /\ chatRow' = [chatRow EXCEPT ![a] = "pending"]
      /\ loop' = [loop EXCEPT ![a] = "runs"]
      /\ crowded' = crowded \cup {b \in Ask \ {a} : Waits(b)}
                    \cup (IF OthersRun(a) THEN {a} ELSE {})
      /\ UNCHANGED <<said, base, got>>
  BY DEF PutQuestion, ConsultInv
<1>2. ConsultTyped' /\ NotPut'
  BY <1>1 DEF ConsultTyped, NotPut
<1>3. /\ caller'[a] = "waiting" /\ chatRow'[a] = "pending"
      /\ \A b \in Ask \ {a} : /\ caller'[b] = caller[b] /\ chatRow'[b] = chatRow[b]
                              /\ loop'[b] = loop[b]
  BY <1>1 DEF ConsultTyped
<1>4. ASSUME NEW b \in Ask \ crowded' PROVE OnlyItsOwn(b)' /\ ReadsOwn(b)'
  <2>1. b \in Ask \ crowded /\ OnlyItsOwn(b) /\ ReadsOwn(b)
    BY <1>1, <1>4 DEF ConsultInv
  <2>2. ReadsOwn(b)'
    BY <1>1, <2>1 DEF ReadsOwn
  <2>3. CASE b # a
    <3>1. ~Waits(b)
      BY <1>1, <1>4, <2>3
    <3>2. ~Waits(b)'
      BY <1>3, <2>3, <3>1 DEF Waits
    <3> QED  BY <2>2, <3>2 DEF OnlyItsOwn
  <2>4. CASE b = a
    <3>1. \A x \in Ask \ {a} : loop'[x] # "runs"
      BY <1>1, <1>3, <1>4, <2>4 DEF OthersRun
    <3>2. a \notin ToolAsk => base[a] = Len(said)
      BY <1>1, <2>1, <2>4 DEF OnlyItsOwn, Waits
    <3>3. Len(said) \in Nat
      BY <1>1 DEF ConsultTyped
    <3>4. a \notin ToolAsk => \A i \in base[a] + 1 .. Len(said) : said[i].of = a
      BY <3>2, <3>3
    <3> QED  BY <1>1, <1>3, <2>2, <2>4, <3>1, <3>4 DEF OnlyItsOwn
  <2> QED  BY <2>3, <2>4
<1> QED  BY <1>2, <1>4 DEF ConsultInv

\* Whoever ends waits no more, and what it took is its own.
LEMMA EndStep ==
    ASSUME ConsultInv, NEW a \in Ask, NEW i \in Nat, Ends(a, i),
           UNCHANGED <<said, base, chatRow, loop, crowded>>,
           a \notin crowded /\ i # 0 => i \in 1 .. Len(said) /\ said[i].of = a
    PROVE  ConsultInv'
<1>1. /\ ConsultTyped /\ NotPut
      /\ caller' = [caller EXCEPT ![a] = "over"] /\ got' = [got EXCEPT ![a] = i]
  BY DEF ConsultInv, Ends
<1>2. ConsultTyped' /\ NotPut'
  BY <1>1 DEF ConsultTyped, NotPut
<1>3. /\ caller'[a] = "over" /\ got'[a] = i
      /\ \A b \in Ask \ {a} : caller'[b] = caller[b] /\ got'[b] = got[b]
  BY <1>1 DEF ConsultTyped
<1>4. ASSUME NEW b \in Ask \ crowded' PROVE OnlyItsOwn(b)' /\ ReadsOwn(b)'
  <2>1. b \in Ask \ crowded /\ OnlyItsOwn(b) /\ ReadsOwn(b)
    BY <1>4 DEF ConsultInv
  <2>2. CASE b # a
    BY <1>3, <2>1, <2>2 DEF OnlyItsOwn, ReadsOwn, Waits
  <2>3. CASE b = a
    BY <1>3, <2>1, <2>3 DEF OnlyItsOwn, ReadsOwn, Waits
  <2> QED  BY <2>2, <2>3
<1> QED  BY <1>2, <1>4 DEF ConsultInv

LEMMA PollStep ==
    ASSUME ConsultInv, NEW a \in Ask,
           QuestionRefused(a) \/ PollSession(a) \/ PollRow(a) \/ GivesUp(a)
    PROVE  ConsultInv'
<1>1. said \in Seq(Saying) /\ Len(said) \in Nat /\ base[a] \in Nat
  BY DEF ConsultInv, ConsultTyped
<1>2. UNCHANGED <<said, base, chatRow, loop, crowded>>
  BY DEF QuestionRefused, PollSession, PollRow, GivesUp
<1>3. ASSUME Ends(a, 0) PROVE ConsultInv'
  BY <1>2, <1>3, EndStep
<1>4. ASSUME PollSession(a), NEW i \in Since(a), Ends(a, i) PROVE ConsultInv'
  <2>1. i \in base[a] + 1 .. Len(said)
    BY <1>4 DEF Since
  <2>2. i \in Nat /\ i \in 1 .. Len(said)
    BY <1>1, <2>1
  <2>3. a \notin crowded => said[i].of = a
    BY <1>4, <2>1 DEF PollSession, ConsultInv, OnlyItsOwn, Waits
  <2> QED  BY <1>2, <1>4, <2>2, <2>3, EndStep
<1>5. ASSUME PollRow(a), chatRow[a] = "done", Ends(a, Len(said)) PROVE ConsultInv'
  <2>1. a \notin crowded => Len(said) > 0 /\ said[Len(said)].of = a
    BY <1>5 DEF PollRow, ConsultInv, OnlyItsOwn, Waits
  <2>2. a \notin crowded /\ Len(said) # 0 => Len(said) \in 1 .. Len(said) /\ said[Len(said)].of = a
    BY <1>1, <2>1
  <2> QED  BY <1>1, <1>2, <1>5, <2>2, EndStep
<1>6. CASE PollSession(a)
  BY <1>3, <1>4, <1>6 DEF PollSession
<1>7. CASE PollRow(a)
  BY <1>3, <1>5, <1>7 DEF PollRow
<1>8. CASE QuestionRefused(a) \/ GivesUp(a)
  BY <1>3, <1>8 DEF QuestionRefused, GivesUp
<1> QED  BY <1>6, <1>7, <1>8

\* A loop that runs is the only one of which a waiting question knows.
LEMMA SayStep ==
    ASSUME ConsultInv, NEW a \in Ask, NEW words \in Texts, NEW on \in {"runs", "over"},
           ModelSays(a, words, on)
    PROVE  ConsultInv'
<1> DEFINE m == [of |-> a, text |-> words]
<1>1. /\ ConsultTyped /\ NotPut /\ loop[a] = "runs"
      /\ said' = Append(said, m) /\ chatRow' = [chatRow EXCEPT ![a] = "done"]
      /\ loop' = [loop EXCEPT ![a] = on] /\ UNCHANGED <<caller, base, got, crowded>>
  BY DEF ModelSays, ConsultInv
<1>2. m \in Saying /\ m.of = a
  BY DEF Saying
<1> HIDE DEF m
<1>3. /\ said' \in Seq(Saying) /\ Len(said') = Len(said) + 1 /\ Len(said) \in Nat
      /\ said'[Len(said')].of = a
      /\ \A i \in 1 .. Len(said) : said'[i] = said[i]
  BY <1>1, <1>2 DEF ConsultTyped
<1>4. caller[a] \notin {"idle", "baselined"}
  BY <1>1 DEF NotPut
<1>5. ConsultTyped' /\ NotPut'
  BY <1>1, <1>3, <1>4 DEF ConsultTyped, NotPut
<1>6. ASSUME NEW b \in Ask \ crowded' PROVE OnlyItsOwn(b)' /\ ReadsOwn(b)'
  <2>1. b \in Ask \ crowded /\ OnlyItsOwn(b) /\ ReadsOwn(b)
    BY <1>1, <1>6 DEF ConsultInv
  <2>2. ReadsOwn(b)'
    BY <1>1, <1>3, <2>1 DEF ReadsOwn
  <2>3. CASE b # a
    <3>1. ~Waits(b)'
      BY <1>1, <2>1, <2>3 DEF OnlyItsOwn, Waits
    <3> QED  BY <2>2, <3>1 DEF OnlyItsOwn
  <2>4. CASE b = a /\ Waits(a)
    <3>1. \A x \in Ask \ {a} : loop'[x] # "runs"
      BY <1>1, <2>1, <2>4 DEF OnlyItsOwn, ConsultTyped
    <3>2. caller'[a] = "waiting"
      BY <1>1, <1>4, <2>4 DEF Waits
    <3>3. a \notin ToolAsk => \A i \in base'[a] + 1 .. Len(said') : said'[i].of = a
      <4> SUFFICES ASSUME a \notin ToolAsk, NEW i \in base[a] + 1 .. Len(said')
                   PROVE  said'[i].of = a
        BY <1>1
      <4>1. base[a] \in Nat
        BY <1>1 DEF ConsultTyped
      <4>2. i \in base[a] + 1 .. Len(said) \/ i = Len(said')
        BY <1>3, <4>1
      <4>3. \A j \in base[a] + 1 .. Len(said) : said[j].of = a /\ j \in 1 .. Len(said)
        BY <1>1, <1>3, <2>1, <2>4, <3>2, <4>1 DEF OnlyItsOwn
      <4> QED  BY <1>3, <4>2, <4>3
    <3>4. Len(said') > 0
      BY <1>3
    <3> QED  BY <1>3, <2>2, <2>4, <3>1, <3>2, <3>3, <3>4 DEF OnlyItsOwn
  <2>5. CASE b = a /\ ~Waits(a)
    BY <1>1, <2>2, <2>5 DEF OnlyItsOwn, Waits
  <2> QED  BY <2>3, <2>4, <2>5
<1> QED  BY <1>5, <1>6 DEF ConsultInv

LEMMA DieStep ==
    ASSUME ConsultInv, NEW a \in Ask, ModelDies(a)
    PROVE  ConsultInv'
<1>1. /\ ConsultTyped /\ NotPut /\ loop[a] = "runs" /\ loop' = [loop EXCEPT ![a] = "over"]
      /\ chatRow' = [chatRow EXCEPT ![a] = IF @ = "pending" THEN "error" ELSE @]
      /\ UNCHANGED <<said, caller, base, got, crowded>>
  BY DEF ModelDies, ConsultInv
<1>2. ConsultTyped' /\ NotPut'
  BY <1>1 DEF ConsultTyped, NotPut
<1>3. \A b \in Ask : /\ loop'[b] = "runs" => loop[b] = "runs"
                     /\ chatRow'[b] = "done" => chatRow[b] = "done"
  BY <1>1 DEF ConsultTyped
<1>4. ASSUME NEW b \in Ask \ crowded' PROVE OnlyItsOwn(b)' /\ ReadsOwn(b)'
  <2>1. OnlyItsOwn(b) /\ ReadsOwn(b)
    BY <1>1, <1>4 DEF ConsultInv
  <2> QED  BY <1>1, <1>3, <2>1 DEF OnlyItsOwn, ReadsOwn, Waits
<1> QED  BY <1>2, <1>4 DEF ConsultInv

LEMMA ConsultStep == ConsultInv /\ [ConsultNext]_consultVars => ConsultInv'
<1> SUFFICES ASSUME ConsultInv, [ConsultNext]_consultVars PROVE ConsultInv'
  OBVIOUS
<1>1. CASE UNCHANGED consultVars
  BY <1>1 DEF consultVars, ConsultInv, ConsultTyped, NotPut, OnlyItsOwn, ReadsOwn, Waits
<1>2. ASSUME NEW a \in Ask,
             \/ ModelSays(a, "answer", "over") \/ ModelSays(a, "remark", "runs")
             \/ \E on \in {"runs", "over"} : ModelSays(a, "empty", on)
      PROVE  ConsultInv'
  BY <1>2, SayStep DEF Texts
<1> QED  BY <1>1, <1>2, BaselineStep, QuestionStep, PollStep, DieStep DEF ConsultNext

\* What a caller takes for its answer was said for its question, although it
\* looks at the session and not at the loop, and although earlier questions
\* timed out: unless the loop of another question ran during its wait.
THEOREM AnswersOwn == ConsultSpec => []OwnAnswer
<1>1. ConsultInv => OwnAnswer
  BY DEF ConsultInv, OwnAnswer, ReadsOwn
<1> QED  BY <1>1, ConsultStart, ConsultStep, PTL DEF ConsultSpec

LEMMA ConsultTypes == ConsultSpec => []ConsultTypeOK
<1>1. ConsultInit => crowded \subseteq Ask
  BY DEF ConsultInit
<1>2. crowded \subseteq Ask /\ [ConsultNext]_consultVars => (crowded \subseteq Ask)'
  BY DEF ConsultNext, consultVars, TakeBaseline, PutQuestion, QuestionRefused, ModelSays, ModelDies,
         PollSession, PollRow, GivesUp
<1>3. ConsultInv /\ crowded \subseteq Ask => ConsultTypeOK
  BY DEF ConsultInv, ConsultTyped, ConsultTypeOK, Saying
<1> QED  BY <1>1, <1>2, <1>3, ConsultStart, ConsultStep, PTL DEF ConsultSpec
=============================================================================
