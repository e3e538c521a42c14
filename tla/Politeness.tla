----------------------------- MODULE Politeness -----------------------------
(***************************************************************************)
(* The politeness gate of the fetch tool (cmd/fetch-md-mcp/politeness.go):  *)
(* concurrent fetches of one host share a cached robots.txt and a ledger of *)
(* rate slots, each behind a mutex that is held for the lookup or the       *)
(* reservation only. Fetches read the cache, sleep, ask the host and store  *)
(* the answer in separate steps. Rules are reduced to the verdict on the    *)
(* one path the fetches want.                                               *)
(***************************************************************************)
EXTENDS Integers

CONSTANTS
    Fetch,      \* concurrent fetches that enforce robots.txt
    Gap,        \* effectiveInterval of each fetch, never less than minRateMS
    Ttl,        \* robotsTTL
    ErrTtl,     \* robotsErrTTL
    Timeout,    \* the longest a request for robots.txt lasts
    EndOfTime   \* bound on the clock

ASSUME PolitenessAssumption ==
    /\ Gap \in [Fetch -> Nat \ {0}] /\ EndOfTime \in Nat
    /\ {Ttl, ErrTtl, Timeout} \subseteq Nat /\ Timeout < Ttl

VARIABLES
    clock,
    nextAt,     \* the ledger: the first free slot of the host
    cache,      \* robots: what the host's robots.txt said, and until when it is trusted
    stage,      \* where each fetch is
    slot,       \* the slot it reserved
    asked,      \* when it asked for robots.txt
    answer,     \* what it was told, not yet stored
    site,       \* what the host's robots.txt says
    allowedAt,  \* when it last allowed the path
    last        \* the last request that used a slot: its time and its fetch's interval

politenessVars == <<clock, nextAt, cache, stage, slot, asked, answer, site, allowedAt, last>>

Said == {"allow", "deny", "unreachable"}
Stages == {"start", "robotsWait", "asking", "told", "permitted", "pageWait", "fetched", "over"}

NoAnswer == [said |-> "unreachable", expires |-> 0]

PolitenessInit ==
    /\ clock = 0 /\ nextAt = 0
    /\ cache = [said |-> "allow", expires |-> 0]
    /\ stage = [f \in Fetch |-> "start"]
    /\ slot = [f \in Fetch |-> 0] /\ asked = [f \in Fetch |-> 0]
    /\ answer = [f \in Fetch |-> NoAnswer]
    /\ site \in {"allow", "deny"}
    /\ allowedAt = IF site = "allow" THEN 0 ELSE -Ttl - 1
    /\ last = [at |-> -1, gap |-> 0]

\* Seeded bug: a free slot in the past is handed out as it is.
ReservePast(f) ==
    /\ slot' = [slot EXCEPT ![f] = nextAt]
    /\ nextAt' = nextAt + Gap[f]

\* rateWait: under the mutex, the slot is the first free one and not before now.
Reserve(f) ==
    LET at == IF nextAt < clock THEN clock ELSE nextAt
    IN  /\ slot' = [slot EXCEPT ![f] = at]
        /\ nextAt' = at + Gap[f]

\* robotsAllow: an entry decides the fetch, and an unreachable host refuses it.
Verdict(says) == IF says = "allow" THEN "permitted" ELSE "over"

\* robotsFor: a trusted entry of the cache decides.
UseCache(f) ==
    /\ stage[f] = "start" /\ clock < cache.expires
    /\ stage' = [stage EXCEPT ![f] = Verdict(cache.said)]
    /\ UNCHANGED <<clock, nextAt, cache, slot, asked, answer, site, allowedAt, last>>

\* robotsFor: otherwise the request for robots.txt takes a slot of its own.
MissCache(f) ==
    /\ stage[f] = "start" /\ clock >= cache.expires
    /\ Reserve(f)
    /\ stage' = [stage EXCEPT ![f] = "robotsWait"]
    /\ UNCHANGED <<clock, cache, asked, answer, site, allowedAt, last>>

\* A fetch's slot comes up and its request goes out.
Sends(f) ==
    /\ clock >= slot[f]
    /\ last' = [at |-> clock, gap |-> Gap[f]]
    /\ slot' = [slot EXCEPT ![f] = 0]

AskRobots(f) ==
    /\ stage[f] = "robotsWait"
    /\ stage' = [stage EXCEPT ![f] = "asking"]
    /\ asked' = [asked EXCEPT ![f] = clock]
    /\ Sends(f)
    /\ UNCHANGED <<clock, nextAt, cache, answer, site, allowedAt>>

\* Seeded bug: the entry is trusted from the answer on.
TrustedUntilLate(f, says) ==
    clock + (IF says = "unreachable" THEN ErrTtl ELSE Ttl)

\* An answer is trusted from the request on; a failure, for a shorter while
\* from its end on.
TrustedUntil(f, says) ==
    IF says = "unreachable" THEN clock + ErrTtl ELSE asked[f] + Ttl

\* The host answers, and allows the path only if it did so since the request;
\* or the request fails, also because its own caller left.
RobotsAnswered(f) ==
    /\ stage[f] = "asking"
    /\ \E says \in Said :
           /\ says = "allow" => allowedAt >= asked[f]
           /\ answer' = [answer EXCEPT ![f] = [said |-> says, expires |-> TrustedUntil(f, says)]]
    /\ stage' = [stage EXCEPT ![f] = "told"]
    /\ UNCHANGED <<clock, nextAt, cache, slot, asked, site, allowedAt, last>>

\* The entry is stored over whatever another fetch stored meanwhile.
StoreRobots(f) ==
    /\ stage[f] = "told"
    /\ cache' = answer[f] /\ answer' = [answer EXCEPT ![f] = NoAnswer]
    /\ asked' = [asked EXCEPT ![f] = 0]
    /\ stage' = [stage EXCEPT ![f] = Verdict(answer[f].said)]
    /\ UNCHANGED <<clock, nextAt, slot, site, allowedAt, last>>

\* Check: then the fetch reserves the slot of the page.
ReservePage(f) ==
    /\ stage[f] = "permitted"
    /\ Reserve(f)
    /\ stage' = [stage EXCEPT ![f] = "pageWait"]
    /\ UNCHANGED <<clock, cache, asked, answer, site, allowedAt, last>>

FetchPage(f) ==
    /\ stage[f] = "pageWait"
    /\ stage' = [stage EXCEPT ![f] = "fetched"]
    /\ Sends(f)
    /\ UNCHANGED <<clock, nextAt, cache, asked, answer, site, allowedAt>>

\* The caller of a sleeping fetch leaves; its slot stays taken.
CallerLeaves(f) ==
    /\ stage[f] \in {"robotsWait", "pageWait"} /\ clock < slot[f]
    /\ stage' = [stage EXCEPT ![f] = "over"] /\ slot' = [slot EXCEPT ![f] = 0]
    /\ UNCHANGED <<clock, nextAt, cache, asked, answer, site, allowedAt, last>>

\* The host changes its robots.txt.
SiteChanges ==
    /\ site' \in {"allow", "deny"} \ {site}
    /\ allowedAt' = IF site' = "allow" THEN clock ELSE allowedAt
    /\ UNCHANGED <<clock, nextAt, cache, stage, slot, asked, answer, last>>

\* Time passes. Sleepers wake on time, and requests end within their timeout.
ClockTicks ==
    /\ clock < EndOfTime
    /\ \A f \in Fetch :
           /\ stage[f] \in {"robotsWait", "pageWait"} => slot[f] > clock
           /\ stage[f] \in {"asking", "told"} => clock < asked[f] + Timeout
           /\ stage[f] # "permitted"
    /\ clock' = clock + 1
    /\ allowedAt' = IF site = "allow" THEN clock + 1 ELSE allowedAt
    /\ UNCHANGED <<nextAt, cache, stage, slot, asked, answer, site, last>>

PolitenessNext ==
    \/ \E f \in Fetch :
        \/ UseCache(f) \/ MissCache(f) \/ AskRobots(f) \/ RobotsAnswered(f) \/ StoreRobots(f)
        \/ ReservePage(f) \/ FetchPage(f) \/ CallerLeaves(f)
    \/ SiteChanges \/ ClockTicks

PolitenessSpec == PolitenessInit /\ [][PolitenessNext]_politenessVars

----------------------------------------------------------------------------
(* Properties *)

Entry == [said : Said, expires : Int]

\* Every variable has its type.
PolitenessTypeOK ==
    /\ clock \in Nat /\ nextAt \in Nat
    /\ cache \in Entry /\ answer \in [Fetch -> Entry]
    /\ stage \in [Fetch -> Stages]
    /\ slot \in [Fetch -> Nat] /\ asked \in [Fetch -> Nat]
    /\ site \in {"allow", "deny"} /\ allowedAt \in Int
    /\ last \in [at : Int, gap : Nat]

\* Two requests that used slots of one host are as far apart as the first
\* one's interval asks, whoever sleeps, leaves or shares the host, and with
\* the intervals of several callers mixed.
Spaced ==
    [][\A f \in Fetch : stage'[f] # stage[f] /\ stage'[f] \in {"asking", "fetched"}
           => clock >= last.at + last.gap]_politenessVars

\* A fetch is permitted only while the host allowed the path less than the
\* robots.txt lifetime ago, however many fetches refresh the entry at once
\* and in whatever order their answers are stored.
PermitRecent ==
    [][\A f \in Fetch : stage[f] # "permitted" /\ stage'[f] = "permitted"
           => clock < allowedAt + Ttl]_politenessVars
=============================================================================
