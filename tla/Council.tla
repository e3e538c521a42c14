------------------------------- MODULE Council -------------------------------
(***************************************************************************)
(* One council (v02-governance.sql §5g, v27-lifeless-core.sql, the council  *)
(* arm of write_outcome in bgworker.rs). The members' chats run in parallel *)
(* and answer in concurrent transactions of several workers; one that finds  *)
(* no proposer or critic without an answer fires the synthesis, whose draft *)
(* goes to a bishop. A transaction sees of others only what is committed.   *)
(*                                                                         *)
(* The text of a member's first chat is its answer, be it empty or written  *)
(* beside tool calls: council_members knows that chat only. A member that    *)
(* called tools chats on, and each later chat inherits the council's marks,  *)
(* stores nothing and counts the members once more. Each member has a        *)
(* session of its own.                                                       *)
(***************************************************************************)
EXTENDS Naturals, FiniteSets, Sequences

CONSTANTS
    Panel,          \* the proposers and critics
    Synthesizer,    \* members convened as synthesizers
    MaxRevisions,   \* bound on the revisions a bishop asks for
    MaxFired        \* bound on the syntheses that members fire

VARIABLES
    council,    \* councils.status
    member,     \* each member's chats, and the open transaction of one
    firing,     \* members whose open transaction fires the synthesis
    synthesis,  \* the members heard by each synthesizer chat that runs
    fired,      \* the members heard by each synthesis that members fired
    revisions

councilVars == <<council, member, firing, synthesis, fired, revisions>>

Member == Panel \cup Synthesizer

\* convene_council, and every chat of it claimed by a worker.
CouncilInit ==
    /\ council = "deliberating"
    /\ member = [m \in Member |-> "answering"]
    /\ firing = {} /\ synthesis = {} /\ fired = <<>> /\ revisions = 0

\* council_members.completed_at is set: committed with the first chat's outcome.
Answered == {m \in Panel : member[m] \in {"looping", "recounting", "answered"}}
Deliberates == council \in {"deliberating", "synthesizing"}

\* Seeded bug: one missing member is taken for the one that counts.
CompleteEarly(m) == Cardinality(Panel \ Answered) <= 1
\* No proposer or critic without an answer, as this member's transaction sees it.
Complete(m) == Panel \subseteq Answered \cup {m}

\* An answer arrives, the first or one of its tool loop: the first is written,
\* and the members are counted, in a transaction still open.
MemberAnswers(m) ==
    /\ member[m] \in {"answering", "looping"}
    /\ Complete(m) => Deliberates /\ Len(fired) + Cardinality(firing) < MaxFired
    /\ member' = [member EXCEPT ![m] = IF @ = "answering" THEN "writing" ELSE "recounting"]
    /\ firing' = IF Complete(m) THEN firing \cup {m} ELSE firing
    /\ UNCHANGED <<council, synthesis, fired, revisions>>

\* synthesize_council reads the answers, and the transaction commits. The
\* member chats on when the answer called tools, which a synthesizer has not.
MemberCommits(m) ==
    /\ member[m] \in {"writing", "recounting"}
    /\ \E next \in {"answered", "looping"} :
           /\ m \in Synthesizer => next = "answered"
           /\ member' = [member EXCEPT ![m] = next]
    /\ firing' = firing \ {m}
    /\ LET heard == Answered \cup ({m} \cap Panel)
       IN  IF m \in firing
           THEN /\ council' = "synthesizing"
                /\ synthesis' = synthesis \cup {heard}
                /\ fired' = Append(fired, heard)
           ELSE UNCHANGED <<council, synthesis, fired>>
    /\ UNCHANGED revisions

\* A chat ends in error, or its synthesize_council raises because the bishop
\* has a draft or closed the council, which undoes the transaction: the first
\* leaves no answer, a later one only ends the tool loop.
MemberFails(m) ==
    /\ member[m] \in {"answering", "looping"}
    /\ member' = [member EXCEPT ![m] = IF @ = "answering" THEN "failed" ELSE "answered"]
    /\ UNCHANGED <<council, firing, synthesis, fired, revisions>>

\* apply_synthesize_result: a draft for the bishop, whatever the status was;
\* an answer that does not parse is dropped.
SynthesisEnds(heard) ==
    /\ synthesis' = synthesis \ {heard}
    /\ council' \in {council, "awaiting_bishop"}
    /\ UNCHANGED <<member, firing, fired, revisions>>

\* resolve_council: the bishop accepts or dissolves, also before a draft.
BishopCloses ==
    /\ Deliberates \/ council = "awaiting_bishop"
    /\ council' \in {"resolved", "dissolved"}
    /\ UNCHANGED <<member, firing, synthesis, fired, revisions>>

\* resolve_council: or asks for another synthesis of what was said so far.
BishopRevises ==
    /\ Deliberates \/ council = "awaiting_bishop"
    /\ revisions < MaxRevisions /\ revisions' = revisions + 1
    /\ council' = "synthesizing"
    /\ synthesis' = synthesis \cup {Answered}
    /\ UNCHANGED <<member, firing, fired>>

CouncilNext ==
    \/ \E m \in Member : MemberAnswers(m) \/ MemberCommits(m) \/ MemberFails(m)
    \/ \E heard \in synthesis : SynthesisEnds(heard)
    \/ BishopCloses \/ BishopRevises

CouncilSpec == CouncilInit /\ [][CouncilNext]_councilVars

----------------------------------------------------------------------------
(* Properties *)

\* Every variable has its type.
CouncilTypeOK ==
    /\ council \in {"deliberating", "synthesizing", "awaiting_bishop", "resolved", "dissolved"}
    /\ member \in [Member -> {"answering", "writing", "looping", "recounting", "answered", "failed"}]
    /\ firing \subseteq Member
    /\ synthesis \subseteq SUBSET Panel
    /\ fired \in Seq(SUBSET Panel)
    /\ revisions \in Nat

\* A synthesis that members fire is given the stored answer of every proposer
\* and critic, never its "(no response)", whatever their transactions, tool
\* loops and failures interleave and whatever the bishop does meanwhile. The
\* answer is the text of a member's first chat, which its tool loop may follow.
WholeCouncilHeard == \A i \in 1 .. Len(fired) : fired[i] = Panel

\* "Fire synthesize when all proposer + critic members are done (synthesizer
\* member ... is ignored ...)": once they have all ended and answered, a
\* synthesis was fired, unless the bishop acted first.
SynthesisFires ==
    (\A m \in Panel : member[m] = "answered")
        /\ revisions = 0 /\ council \notin {"resolved", "dissolved"}
        => fired # <<>>
=============================================================================
