---------------------------- MODULE Bridge_proofs ----------------------------
(***************************************************************************)
(* The smaller components that live in the bridge's process: the politeness*)
(* gate, the sessions with tool servers, the exporter, the materializer, the*)
(* drop watcher and the workspace loops. Each is proved on its own, for every*)
(* value of its constants; they share no variable.                         *)
(***************************************************************************)
EXTENDS Politeness, BridgeSessions, Exporter, Materializer, Drops, Workspace,
        FiniteSetTheorems, WellFoundedInduction, TLAPS

----------------------------------------------------------------------------
(* Politeness: requests of one host are spaced, for any fetches, intervals,
   lifetimes of robots.txt and changes of it. *)

Sleeps(f) == stage[f] \in {"robotsWait", "pageWait"}

LedgerTyped ==
    /\ clock \in Nat /\ nextAt \in Nat /\ slot \in [Fetch -> Nat]
    /\ stage \in [Fetch -> Stages] /\ last \in [at : Int, gap : Nat]

\* A slot that a fetch sleeps for is not over, leaves the last request its
\* interval, and has its own interval below the ledger.
Ahead(f) ==
    /\ clock <= slot[f] /\ slot[f] + Gap[f] <= nextAt
    /\ last.at + last.gap <= slot[f]

Apart(f, g) == slot[f] + Gap[f] <= slot[g] \/ slot[g] + Gap[g] <= slot[f]

LedgerInv ==
    /\ LedgerTyped
    /\ last.at + last.gap <= nextAt
    /\ \A f \in Fetch : Sleeps(f) => Ahead(f)
    /\ \A f, g \in Fetch : f # g /\ Sleeps(f) /\ Sleeps(g) => Apart(f, g)

LEMMA LedgerStart == PolitenessInit => LedgerInv
BY DEF PolitenessInit, LedgerInv, LedgerTyped, Stages, Sleeps

LEMMA GapPositive == \A f \in Fetch : Gap[f] \in Nat /\ Gap[f] > 0
BY PolitenessAssumption

\* A fetch takes a slot: behind all others.
LEMMA ReserveStep ==
    ASSUME LedgerInv, NEW f \in Fetch, MissCache(f) \/ ReservePage(f)
    PROVE  LedgerInv'
<1> DEFINE at == IF nextAt < clock THEN clock ELSE nextAt
<1>1. /\ LedgerTyped /\ ~Sleeps(f) /\ Gap[f] \in Nat
      /\ slot' = [slot EXCEPT ![f] = at] /\ nextAt' = at + Gap[f]
      /\ UNCHANGED <<clock, last>>
  BY GapPositive DEF MissCache, ReservePage, Reserve, Sleeps, LedgerInv
<1>2. PICK place \in {"robotsWait", "pageWait"} : stage' = [stage EXCEPT ![f] = place]
  BY DEF MissCache, ReservePage
<1>3. at \in Nat /\ at >= nextAt /\ at >= clock
  BY <1>1 DEF LedgerTyped
<1> HIDE DEF at
<1>4. LedgerTyped'
  BY <1>1, <1>2, <1>3 DEF LedgerTyped, Stages
<1>5. /\ slot'[f] = at
      /\ \A g \in Fetch \ {f} : slot'[g] = slot[g] /\ (Sleeps(g)' <=> Sleeps(g))
  BY <1>1, <1>2 DEF LedgerTyped, Sleeps
<1>6. last.at \in Int /\ last.gap \in Nat /\ clock \in Nat /\ nextAt \in Nat
  BY <1>1 DEF LedgerTyped
<1>7. last'.at + last'.gap <= nextAt'
  BY <1>1, <1>3, <1>6 DEF LedgerInv
<1>8. ASSUME NEW g \in Fetch, Sleeps(g)' PROVE Ahead(g)'
  <2>1. CASE g = f
    BY <1>1, <1>3, <1>5, <1>6, <2>1 DEF Ahead, LedgerInv
  <2>2. CASE g # f
    <3>1. Ahead(g) /\ slot'[g] = slot[g] /\ slot[g] \in Nat /\ Gap[g] \in Nat
      BY <1>1, <1>5, <1>8, <2>2, GapPositive DEF LedgerInv, LedgerTyped
    <3> QED  BY <1>1, <1>3, <1>6, <3>1 DEF Ahead
  <2> QED  BY <2>1, <2>2
<1>9. ASSUME NEW g \in Fetch, NEW h \in Fetch, g # h, Sleeps(g)', Sleeps(h)' PROVE Apart(g, h)'
  <2>1. CASE g # f /\ h # f
    BY <1>5, <1>9, <2>1 DEF LedgerInv, Apart
  <2>2. ASSUME NEW x \in Fetch \ {f}, Sleeps(x)' PROVE slot'[x] + Gap[x] <= slot'[f]
    <3>1. Ahead(x) /\ slot'[x] = slot[x] /\ slot[x] \in Nat /\ Gap[x] \in Nat
      BY <1>1, <1>5, <2>2, GapPositive DEF LedgerInv, LedgerTyped
    <3> QED  BY <1>3, <1>5, <1>6, <3>1 DEF Ahead
  <2>3. CASE g = f
    BY <1>9, <2>2, <2>3 DEF Apart
  <2>4. CASE h = f
    BY <1>9, <2>2, <2>4 DEF Apart
  <2> QED  BY <2>1, <2>3, <2>4
<1> QED  BY <1>4, <1>7, <1>8, <1>9 DEF LedgerInv

\* A request goes out at its slot: those behind it leave it its interval.
LEMMA SendStep ==
    ASSUME LedgerInv, NEW f \in Fetch, AskRobots(f) \/ FetchPage(f)
    PROVE  LedgerInv' /\ last.at + last.gap <= clock
<1>1. /\ LedgerTyped /\ Sleeps(f) /\ Ahead(f) /\ clock >= slot[f]
      /\ last' = [at |-> clock, gap |-> Gap[f]] /\ slot' = [slot EXCEPT ![f] = 0]
      /\ UNCHANGED <<clock, nextAt>>
  BY DEF AskRobots, FetchPage, Sends, Sleeps, LedgerInv
<1>2. PICK place \in {"asking", "fetched"} : stage' = [stage EXCEPT ![f] = place]
  BY DEF AskRobots, FetchPage
<1>3. /\ clock \in Nat /\ nextAt \in Nat /\ slot[f] \in Nat /\ Gap[f] \in Nat
      /\ last.at \in Int /\ last.gap \in Nat
  BY <1>1, GapPositive DEF LedgerTyped
<1>4. clock = slot[f] /\ last.at + last.gap <= clock
  BY <1>1, <1>3 DEF Ahead
<1>5. LedgerTyped'
  BY <1>1, <1>2, <1>3 DEF LedgerTyped, Stages
<1>6. /\ ~Sleeps(f)'
      /\ \A g \in Fetch \ {f} : slot'[g] = slot[g] /\ (Sleeps(g)' <=> Sleeps(g))
  BY <1>1, <1>2 DEF LedgerTyped, Sleeps
<1>7. last'.at = clock /\ last'.gap = Gap[f]
  BY <1>1
<1>8. last'.at + last'.gap <= nextAt'
  BY <1>1, <1>4, <1>7 DEF Ahead
<1>9. ASSUME NEW g \in Fetch, Sleeps(g)' PROVE Ahead(g)'
  <2>1. /\ g # f /\ slot'[g] = slot[g] /\ Ahead(g) /\ slot[g] \in Nat
        /\ Gap[g] \in Nat /\ Gap[g] > 0
    BY <1>1, <1>6, <1>9, GapPositive DEF LedgerInv, LedgerTyped
  <2>2. Apart(f, g)
    BY <1>1, <1>6, <1>9, <2>1 DEF LedgerInv
  <2>3. clock + Gap[f] <= slot[g]
    BY <1>3, <1>4, <2>1, <2>2 DEF Ahead, Apart
  <2> QED  BY <1>1, <1>7, <2>1, <2>3 DEF Ahead
<1>10. ASSUME NEW g \in Fetch, NEW h \in Fetch, g # h, Sleeps(g)', Sleeps(h)' PROVE Apart(g, h)'
  BY <1>6, <1>10 DEF LedgerInv, Apart
<1> QED  BY <1>4, <1>5, <1>8, <1>9, <1>10 DEF LedgerInv

\* Nobody sleeps who did not, and whoever still does keeps its slot.
LEMMA LedgerQuietStep ==
    ASSUME LedgerInv, UNCHANGED <<clock, nextAt, last>>, slot' \in [Fetch -> Nat],
           stage' \in [Fetch -> Stages],
           \A g \in Fetch : Sleeps(g)' => Sleeps(g) /\ slot'[g] = slot[g]
    PROVE  LedgerInv'
<1>1. LedgerTyped'
  BY DEF LedgerInv, LedgerTyped
<1>2. \A g \in Fetch : Sleeps(g)' => Ahead(g)'
  BY DEF LedgerInv, Ahead
<1>3. \A g, h \in Fetch : g # h /\ Sleeps(g)' /\ Sleeps(h)' => Apart(g, h)'
  BY DEF LedgerInv, Apart
<1> QED  BY <1>1, <1>2, <1>3 DEF LedgerInv

LEMMA CacheStep ==
    ASSUME LedgerInv, NEW f \in Fetch,
           UseCache(f) \/ RobotsAnswered(f) \/ StoreRobots(f) \/ CallerLeaves(f)
    PROVE  LedgerInv'
<1>1. stage \in [Fetch -> Stages] /\ slot \in [Fetch -> Nat]
  BY DEF LedgerInv, LedgerTyped
<1>2. UNCHANGED <<clock, nextAt, last>>
  BY DEF UseCache, RobotsAnswered, StoreRobots, CallerLeaves
<1>3. PICK place \in {"permitted", "over", "told"} : stage' = [stage EXCEPT ![f] = place]
  BY DEF UseCache, RobotsAnswered, StoreRobots, CallerLeaves, Verdict
<1>4. slot' = slot \/ slot' = [slot EXCEPT ![f] = 0]
  BY DEF UseCache, RobotsAnswered, StoreRobots, CallerLeaves
<1>5. \A g \in Fetch : Sleeps(g)' => Sleeps(g) /\ slot'[g] = slot[g]
  BY <1>1, <1>3, <1>4 DEF Sleeps
<1>6. slot' \in [Fetch -> Nat] /\ stage' \in [Fetch -> Stages]
  BY <1>1, <1>3, <1>4 DEF Stages
<1> QED  BY <1>2, <1>5, <1>6, LedgerQuietStep

LEMMA TickStep ==
    ASSUME LedgerInv, ClockTicks
    PROVE  LedgerInv'
<1>1. /\ LedgerTyped /\ clock' = clock + 1 /\ UNCHANGED <<nextAt, stage, slot, last>>
      /\ \A f \in Fetch : Sleeps(f) => slot[f] > clock
  BY DEF ClockTicks, LedgerInv, Sleeps
<1>2. LedgerTyped'
  BY <1>1 DEF LedgerTyped
<1>3. ASSUME NEW f \in Fetch, Sleeps(f)' PROVE Ahead(f)'
  <2>1. Sleeps(f) /\ Ahead(f) /\ slot[f] \in Nat /\ clock \in Nat
    BY <1>1, <1>3 DEF LedgerInv, LedgerTyped, Sleeps
  <2> QED  BY <1>1, <2>1 DEF Ahead
<1>4. \A f, g \in Fetch : f # g /\ Sleeps(f)' /\ Sleeps(g)' => Apart(f, g)'
  BY <1>1 DEF LedgerInv, Apart, Sleeps
<1> QED  BY <1>1, <1>2, <1>3, <1>4 DEF LedgerInv

LEMMA LedgerStep == LedgerInv /\ [PolitenessNext]_politenessVars => LedgerInv'
<1> SUFFICES ASSUME LedgerInv, [PolitenessNext]_politenessVars PROVE LedgerInv'
  OBVIOUS
<1>1. CASE SiteChanges \/ UNCHANGED politenessVars
  <2>1. UNCHANGED <<clock, nextAt, stage, slot, last>>
    BY <1>1 DEF SiteChanges, politenessVars
  <2>2. slot' \in [Fetch -> Nat] /\ stage' \in [Fetch -> Stages]
    BY <2>1 DEF LedgerInv, LedgerTyped
  <2> QED  BY <2>1, <2>2, LedgerQuietStep DEF Sleeps
<1> QED  BY <1>1, ReserveStep, SendStep, CacheStep, TickStep DEF PolitenessNext

\* Two requests that used slots of one host are as far apart as the first
\* one's interval asks, whoever sleeps, leaves or shares the host, and with
\* the intervals of several callers mixed.
THEOREM RequestsSpaced == PolitenessSpec => Spaced
<1> DEFINE Space == \A f \in Fetch : stage'[f] # stage[f] /\ stage'[f] \in {"asking", "fetched"}
                        => clock >= last.at + last.gap
<1>1. LedgerInv /\ [PolitenessNext]_politenessVars => [Space]_politenessVars
  <2> SUFFICES ASSUME LedgerInv, PolitenessNext, NEW f \in Fetch, stage'[f] # stage[f],
                      stage'[f] \in {"asking", "fetched"}
               PROVE  clock >= last.at + last.gap
    OBVIOUS
  <2>1. stage \in [Fetch -> Stages] /\ clock \in Nat /\ last.at \in Int /\ last.gap \in Nat
    BY DEF LedgerInv, LedgerTyped
  <2>2. ASSUME NEW g \in Fetch, AskRobots(g) \/ FetchPage(g) PROVE clock >= last.at + last.gap
    BY <2>1, <2>2, SendStep
  <2>3. ASSUME NEW g \in Fetch, UseCache(g) \/ MissCache(g) \/ RobotsAnswered(g) \/ StoreRobots(g)
                                \/ ReservePage(g) \/ CallerLeaves(g)
        PROVE  FALSE
    <3>1. PICK place \in {"permitted", "over", "told", "robotsWait", "pageWait"} :
            stage' = [stage EXCEPT ![g] = place]
      BY <2>3 DEF UseCache, MissCache, RobotsAnswered, StoreRobots, ReservePage, CallerLeaves, Verdict
    <3> QED  BY <2>1, <3>1
  <2>4. CASE SiteChanges \/ ClockTicks
    BY <2>4 DEF SiteChanges, ClockTicks
  <2> QED  BY <2>2, <2>3, <2>4 DEF PolitenessNext
<1> QED  BY <1>1, LedgerStart, LedgerStep, PTL DEF PolitenessSpec, Spaced

----------------------------------------------------------------------------
(* Politeness: a permission is not older than the lifetime of robots.txt. *)

Asks(f) == stage[f] \in {"asking", "told"}

RobotsTyped ==
    /\ clock \in Nat /\ allowedAt \in Int
    /\ stage \in [Fetch -> Stages] /\ asked \in [Fetch -> Nat]
    /\ cache \in Entry /\ answer \in [Fetch -> Entry]

\* The host allows the path now or has stopped doing so.
SiteKnown == allowedAt <= clock /\ (site = "allow" => allowedAt = clock)

\* A request for robots.txt ends within its timeout, and one that was allowed
\* asked no later than the host last allowed the path.
AnswerRecent(f) ==
    /\ Asks(f) => asked[f] <= clock /\ clock <= asked[f] + Timeout
    /\ stage[f] = "told" /\ answer[f].said = "allow" =>
         answer[f].expires = asked[f] + Ttl /\ asked[f] <= allowedAt

\* An entry that allows is trusted while the host did so recently.
CacheRecent == cache.said = "allow" => cache.expires = 0 \/ cache.expires <= allowedAt + Ttl

RobotsInv == RobotsTyped /\ SiteKnown /\ CacheRecent /\ \A f \in Fetch : AnswerRecent(f)

LEMMA RobotsStart == PolitenessInit => RobotsInv
<1> SUFFICES ASSUME PolitenessInit PROVE RobotsInv
  OBVIOUS
<1>1. /\ clock = 0 /\ cache = [said |-> "allow", expires |-> 0]
      /\ stage = [f \in Fetch |-> "start"] /\ asked = [f \in Fetch |-> 0]
      /\ answer = [f \in Fetch |-> NoAnswer] /\ Ttl \in Nat
      /\ allowedAt = IF site = "allow" THEN 0 ELSE -Ttl - 1
  BY PolitenessAssumption DEF PolitenessInit
<1>2. NoAnswer \in Entry /\ cache \in Entry /\ cache.expires = 0
  BY <1>1 DEF NoAnswer, Entry, Said
<1>3. RobotsTyped /\ SiteKnown
  BY <1>1, <1>2 DEF RobotsTyped, SiteKnown, Stages
<1> QED  BY <1>1, <1>2, <1>3 DEF RobotsInv, CacheRecent, AnswerRecent, Asks

\* What holds of the entries holds later, when the clock stands still.
LEMMA RobotsQuiet ==
    ASSUME RobotsInv, UNCHANGED <<clock, cache, site, allowedAt>>, RobotsTyped',
           \A f \in Fetch : AnswerRecent(f)'
    PROVE  RobotsInv'
BY DEF RobotsInv, SiteKnown, CacheRecent

\* A fetch that does not ask moves.
LEMMA RobotsAside ==
    ASSUME RobotsInv, UNCHANGED <<clock, cache, site, allowedAt, asked, answer>>,
           NEW f \in Fetch, NEW place \in Stages \ {"asking", "told"},
           stage' = [stage EXCEPT ![f] = place]
    PROVE  RobotsInv'
<1>1. RobotsTyped'
  BY DEF RobotsInv, RobotsTyped
<1>2. ASSUME NEW g \in Fetch PROVE AnswerRecent(g)'
  <2>1. stage'[g] = stage[g] \/ stage'[g] = place
    BY DEF RobotsInv, RobotsTyped
  <2> QED  BY <2>1 DEF RobotsInv, AnswerRecent, Asks
<1> QED  BY <1>1, <1>2, RobotsQuiet

LEMMA AskStep == ASSUME RobotsInv, NEW f \in Fetch, AskRobots(f) \/ RobotsAnswered(f) PROVE RobotsInv'
<1>1. /\ RobotsTyped /\ SiteKnown /\ \A g \in Fetch : AnswerRecent(g)
      /\ UNCHANGED <<clock, cache, site, allowedAt>>
      /\ {Ttl, ErrTtl, Timeout} \subseteq Nat
  BY PolitenessAssumption DEF RobotsInv, AskRobots, RobotsAnswered
<1>2. CASE AskRobots(f)
  <2>1. /\ stage' = [stage EXCEPT ![f] = "asking"] /\ asked' = [asked EXCEPT ![f] = clock]
        /\ UNCHANGED answer
    BY <1>2 DEF AskRobots
  <2>2. RobotsTyped'
    BY <1>1, <2>1 DEF RobotsTyped, Stages
  <2>3. ASSUME NEW g \in Fetch PROVE AnswerRecent(g)'
    <3>1. CASE g = f
      <4>1. stage'[f] = "asking" /\ asked'[f] = clock /\ clock \in Nat
        BY <1>1, <2>1 DEF RobotsTyped
      <4> QED  BY <1>1, <3>1, <4>1 DEF AnswerRecent, Asks
    <3>2. CASE g # f
      <4>1. stage'[g] = stage[g] /\ asked'[g] = asked[g]
        BY <1>1, <2>1, <3>2 DEF RobotsTyped
      <4> QED  BY <1>1, <2>1, <4>1 DEF AnswerRecent, Asks
    <3> QED  BY <3>1, <3>2
  <2> QED  BY <1>1, <2>2, <2>3, RobotsQuiet
<1>3. CASE RobotsAnswered(f)
  <2>1. PICK says \in Said :
          /\ says = "allow" => allowedAt >= asked[f]
          /\ answer' = [answer EXCEPT ![f] = [said |-> says, expires |-> TrustedUntil(f, says)]]
    BY <1>3 DEF RobotsAnswered
  <2>2. stage[f] = "asking" /\ stage' = [stage EXCEPT ![f] = "told"] /\ UNCHANGED asked
    BY <1>3 DEF RobotsAnswered
  <2>3. /\ TrustedUntil(f, says) \in Int
        /\ says = "allow" => TrustedUntil(f, says) = asked[f] + Ttl
    BY <1>1 DEF TrustedUntil, RobotsTyped
  <2> DEFINE told == [said |-> says, expires |-> TrustedUntil(f, says)]
  <2>4. told \in Entry /\ told.said = says /\ told.expires = TrustedUntil(f, says)
    BY <2>3 DEF Entry
  <2>5. answer' = [answer EXCEPT ![f] = told]
    BY <2>1
  <2> HIDE DEF told
  <2>6. RobotsTyped'
    BY <1>1, <2>2, <2>4, <2>5 DEF RobotsTyped, Stages
  <2>7. ASSUME NEW g \in Fetch PROVE AnswerRecent(g)'
    <3>1. CASE g = f
      <4>1. stage'[f] = "told" /\ asked'[f] = asked[f] /\ answer'[f] = told /\ Asks(f)
        BY <1>1, <2>2, <2>5 DEF RobotsTyped, Asks
      <4>2. allowedAt \in Int /\ asked[f] \in Nat
        BY <1>1 DEF RobotsTyped
      <4> QED  BY <1>1, <2>1, <2>3, <2>4, <3>1, <4>1, <4>2 DEF AnswerRecent
    <3>2. CASE g # f
      <4>1. stage'[g] = stage[g] /\ answer'[g] = answer[g]
        BY <1>1, <2>2, <2>5, <3>2 DEF RobotsTyped
      <4> QED  BY <1>1, <2>2, <4>1 DEF AnswerRecent, Asks
    <3> QED  BY <3>1, <3>2
  <2> QED  BY <1>1, <2>6, <2>7, RobotsQuiet
<1> QED  BY <1>2, <1>3

\* The entry is stored, and the fetch permitted when it allows.
LEMMA StoreStep ==
    ASSUME RobotsInv, NEW f \in Fetch, StoreRobots(f)
    PROVE  RobotsInv' /\ (answer[f].said = "allow" => clock < allowedAt + Ttl)
<1>1. /\ stage[f] = "told" /\ cache' = answer[f] /\ answer' = [answer EXCEPT ![f] = NoAnswer]
      /\ asked' = [asked EXCEPT ![f] = 0] /\ UNCHANGED <<clock, site, allowedAt>>
      /\ stage' = [stage EXCEPT ![f] = Verdict(answer[f].said)]
  BY DEF StoreRobots
<1>2. Verdict(answer[f].said) \in Stages \ {"asking", "told"}
  BY DEF Verdict, Stages
<1>3. /\ RobotsTyped /\ SiteKnown /\ \A g \in Fetch : AnswerRecent(g)
      /\ Ttl \in Nat /\ Timeout \in Nat /\ Timeout < Ttl
  BY PolitenessAssumption DEF RobotsInv
<1>4. /\ clock \in Nat /\ allowedAt \in Int /\ asked[f] \in Nat
      /\ answer[f] \in Entry /\ NoAnswer \in Entry
  BY <1>3 DEF RobotsTyped, NoAnswer, Entry, Said
<1>5. /\ clock <= asked[f] + Timeout
      /\ answer[f].said = "allow" => answer[f].expires = asked[f] + Ttl /\ asked[f] <= allowedAt
  BY <1>1, <1>3 DEF AnswerRecent, Asks
<1>6. answer[f].said = "allow" => clock < allowedAt + Ttl
  BY <1>3, <1>4, <1>5
<1>7. CacheRecent'
  BY <1>1, <1>3, <1>4, <1>5 DEF CacheRecent
<1>8. RobotsTyped'
  <2>1. answer' \in [Fetch -> Entry] /\ asked' \in [Fetch -> Nat] /\ stage' \in [Fetch -> Stages]
    BY <1>1, <1>2, <1>3, <1>4 DEF RobotsTyped
  <2> QED  BY <1>1, <1>4, <2>1 DEF RobotsTyped
<1>9. ASSUME NEW g \in Fetch PROVE AnswerRecent(g)'
  <2>1. CASE g = f
    <3>1. stage'[f] \notin {"asking", "told"}
      BY <1>1, <1>2, <1>3 DEF RobotsTyped
    <3> QED  BY <2>1, <3>1 DEF AnswerRecent, Asks
  <2>2. CASE g # f
    <3>1. stage'[g] = stage[g] /\ answer'[g] = answer[g] /\ asked'[g] = asked[g]
      BY <1>1, <1>3, <2>2 DEF RobotsTyped
    <3> QED  BY <1>1, <1>3, <3>1 DEF AnswerRecent, Asks
  <2> QED  BY <2>1, <2>2
<1> QED  BY <1>1, <1>3, <1>6, <1>7, <1>8, <1>9 DEF RobotsInv, SiteKnown

\* The last time the host allowed the path only moves on.
LEMMA TimeStep == ASSUME RobotsInv, SiteChanges \/ ClockTicks PROVE RobotsInv'
<1>1. /\ RobotsTyped /\ SiteKnown /\ CacheRecent /\ \A g \in Fetch : AnswerRecent(g)
      /\ UNCHANGED <<cache, stage, asked, answer>>
      /\ clock \in Nat /\ allowedAt \in Int /\ Ttl \in Nat /\ Timeout \in Nat
  BY PolitenessAssumption DEF RobotsInv, RobotsTyped, SiteChanges, ClockTicks
<1>2. /\ clock' \in Nat /\ allowedAt' \in Int /\ clock <= clock' /\ allowedAt <= allowedAt'
      /\ SiteKnown'
      /\ \A g \in Fetch : Asks(g) => clock' <= asked[g] + Timeout
  <2>1. CASE SiteChanges
    <3>1. clock' = clock /\ \A g \in Fetch : Asks(g) => clock' <= asked[g] + Timeout
      BY <1>1, <2>1 DEF SiteChanges, AnswerRecent
    <3> QED  BY <1>1, <2>1, <3>1 DEF SiteChanges, SiteKnown
  <2>2. CASE ClockTicks
    <3>1. ASSUME NEW g \in Fetch, Asks(g) PROVE clock' <= asked[g] + Timeout
      <4>1. clock < asked[g] + Timeout /\ asked[g] \in Nat /\ clock' = clock + 1
        BY <1>1, <2>2, <3>1 DEF ClockTicks, Asks, RobotsTyped
      <4> QED  BY <1>1, <4>1
    <3> QED  BY <1>1, <2>2, <3>1 DEF ClockTicks, SiteKnown
  <2> QED  BY <2>1, <2>2
<1>3. RobotsTyped'
  BY <1>1, <1>2 DEF RobotsTyped
<1>4. CacheRecent'
  <2>1. cache.expires \in Int
    BY <1>1 DEF RobotsTyped, Entry
  <2> QED  BY <1>1, <1>2, <2>1 DEF CacheRecent
<1>5. ASSUME NEW g \in Fetch PROVE AnswerRecent(g)'
  <2>1. AnswerRecent(g) /\ asked[g] \in Nat /\ (Asks(g) => clock' <= asked[g] + Timeout)
    BY <1>1, <1>2 DEF RobotsTyped
  <2> QED  BY <1>1, <1>2, <2>1 DEF AnswerRecent, Asks
<1> QED  BY <1>2, <1>3, <1>4, <1>5 DEF RobotsInv

LEMMA RobotsStep == ASSUME RobotsInv, [PolitenessNext]_politenessVars PROVE RobotsInv'
<1>1. CASE UNCHANGED politenessVars
  BY <1>1 DEF politenessVars, RobotsInv, RobotsTyped, SiteKnown, CacheRecent, AnswerRecent, Asks
<1>2. ASSUME NEW f \in Fetch,
             UseCache(f) \/ MissCache(f) \/ ReservePage(f) \/ FetchPage(f) \/ CallerLeaves(f)
      PROVE  RobotsInv'
  <2>1. UNCHANGED <<clock, cache, site, allowedAt, asked, answer>>
    BY <1>2 DEF UseCache, MissCache, ReservePage, FetchPage, CallerLeaves
  <2>2. PICK place \in {"permitted", "over", "robotsWait", "pageWait", "fetched"} :
          stage' = [stage EXCEPT ![f] = place]
    BY <1>2 DEF UseCache, MissCache, ReservePage, FetchPage, CallerLeaves, Verdict
  <2>3. place \in Stages \ {"asking", "told"}
    BY DEF Stages
  <2> QED  BY <2>1, <2>2, <2>3, RobotsAside
<1> QED  BY <1>1, <1>2, AskStep, StoreStep, TimeStep DEF PolitenessNext

\* A fetch is permitted only while the host allowed the path less than the
\* robots.txt lifetime ago, however many fetches refresh the entry at once, in
\* whatever order their answers are stored and whenever the host changes it.
THEOREM PermitsAreRecent == PolitenessSpec => PermitRecent
<1> DEFINE Recent == \A f \in Fetch : stage[f] # "permitted" /\ stage'[f] = "permitted"
                        => clock < allowedAt + Ttl
<1>1. RobotsInv /\ [PolitenessNext]_politenessVars => [Recent]_politenessVars
  <2> SUFFICES ASSUME RobotsInv, PolitenessNext, NEW f \in Fetch, stage[f] # "permitted",
                      stage'[f] = "permitted"
               PROVE  clock < allowedAt + Ttl
    OBVIOUS
  <2>1. /\ stage \in [Fetch -> Stages] /\ clock \in Nat /\ allowedAt \in Int /\ Ttl \in Nat
        /\ cache.expires \in Int
    BY PolitenessAssumption DEF RobotsInv, RobotsTyped, Entry
  <2>2. ASSUME NEW g \in Fetch, UseCache(g) PROVE clock < allowedAt + Ttl
    <3>1. clock < cache.expires /\ stage' = [stage EXCEPT ![g] = Verdict(cache.said)]
      BY <2>2 DEF UseCache
    <3>2. cache.said = "allow"
      BY <2>1, <3>1 DEF Verdict
    <3> QED  BY <2>1, <3>1, <3>2 DEF RobotsInv, CacheRecent
  <2>3. ASSUME NEW g \in Fetch, StoreRobots(g) PROVE clock < allowedAt + Ttl
    <3>1. stage' = [stage EXCEPT ![g] = Verdict(answer[g].said)]
      BY <2>3 DEF StoreRobots
    <3>2. answer[g].said = "allow"
      BY <2>1, <3>1 DEF Verdict
    <3> QED  BY <2>3, <3>2, StoreStep
  <2>4. ASSUME NEW g \in Fetch, MissCache(g) \/ AskRobots(g) \/ RobotsAnswered(g)
                                \/ ReservePage(g) \/ FetchPage(g) \/ CallerLeaves(g)
        PROVE  FALSE
    <3>1. PICK place \in {"robotsWait", "asking", "told", "pageWait", "fetched", "over"} :
            stage' = [stage EXCEPT ![g] = place]
      BY <2>4 DEF MissCache, AskRobots, RobotsAnswered, ReservePage, FetchPage, CallerLeaves
    <3> QED  BY <2>1, <3>1
  <2>5. CASE SiteChanges \/ ClockTicks
    BY <2>5 DEF SiteChanges, ClockTicks
  <2> QED  BY <2>2, <2>3, <2>4, <2>5 DEF PolitenessNext
<1> QED  BY <1>1, RobotsStart, RobotsStep, PTL DEF PolitenessSpec, PermitRecent

\* The verdict that the host gives stays a verdict.
LEMMA PolitenessTypes == PolitenessSpec => []PolitenessTypeOK
<1> DEFINE Verdicts == site \in {"allow", "deny"}
<1>1. PolitenessInit => Verdicts
  BY DEF PolitenessInit
<1>2. Verdicts /\ [PolitenessNext]_politenessVars => Verdicts'
  BY DEF PolitenessNext, politenessVars, UseCache, MissCache, AskRobots, RobotsAnswered, StoreRobots,
         ReservePage, FetchPage, CallerLeaves, SiteChanges, ClockTicks
<1>3. LedgerInv /\ RobotsInv /\ Verdicts => PolitenessTypeOK
  BY DEF LedgerInv, LedgerTyped, RobotsInv, RobotsTyped, PolitenessTypeOK
<1> QED
  BY <1>1, <1>2, <1>3, LedgerStart, LedgerStep, RobotsStart, RobotsStep, PTL DEF PolitenessSpec

----------------------------------------------------------------------------
(* BridgeSessions: no session is left open behind the cache's back, for any
   calls, servers and number of sessions. *)

Place == {Quiet, "get", "look", "connect", "call", "failed", "drop"}
Holds == {"look", "connect", "drop"}

SessionsTyped ==
    /\ request \in [Caller -> [to : Server \cup {Quiet}, session : Nat, at : Place]]
    /\ cached \in [Server -> Nat]
    /\ sessions \in Seq(Server)

\* One call at a time is in the cache, and a call that connects met no session.
OneInside ==
    /\ \A c \in Caller :
        /\ request[c].at \in Holds => mutex = {c}
        /\ request[c].at # Quiet => request[c].to \in Server
        /\ request[c].at = "connect" => cached[request[c].to] = NoSession
    /\ \A c \in mutex : c \in Caller /\ request[c].at \in Holds

\* Numbers that the cache holds are sessions of that server.
CacheSane == \A s \in Server : cached[s] # NoSession =>
                 cached[s] \in 1 .. Len(sessions) /\ sessions[cached[s]] = s

SessionsInv == SessionsTyped /\ OneInside /\ CacheSane /\ OpenIsCached

LEMMA SessionsStart == SessionsInit => SessionsInv
BY DEF SessionsInit, SessionsInv, SessionsTyped, OneInside, CacheSane, OpenIsCached, Quiet,
       NoSession, Place, Holds

\* Only the request of the call that steps changes.
LEMMA RequestKept ==
    ASSUME SessionsTyped, NEW c \in Caller,
           NEW q \in [to : Server \cup {Quiet}, session : Nat, at : Place],
           request' = [request EXCEPT ![c] = q]
    PROVE  /\ request' \in [Caller -> [to : Server \cup {Quiet}, session : Nat, at : Place]]
           /\ request'[c] = q
           /\ \A x \in Caller \ {c} : request'[x] = request[x]
BY DEF SessionsTyped

\* A step that opens no session, closes none and leaves the cache alone.
LEMMA CacheKept ==
    ASSUME SessionsInv, UNCHANGED <<cached, sessions>>, closed \subseteq closed'
    PROVE  CacheSane' /\ OpenIsCached'
BY DEF SessionsInv, CacheSane, OpenIsCached

\* A call takes the mutex, or goes on without it.
LEMMA OutsideStep ==
    ASSUME SessionsInv, NEW c \in Caller,
           (\E s \in Server : NewCall(c, s)) \/ LockCache(c) \/ CallAnswered(c) \/ CallFails(c)
    PROVE  SessionsInv'
<1>1. CacheSane' /\ OpenIsCached'
  BY CacheKept DEF NewCall, LockCache, CallAnswered, CallFails
<1>2. PICK q \in [to : Server \cup {Quiet}, session : Nat, at : Place] :
        /\ request' = [request EXCEPT ![c] = q]
        /\ q.at # Quiet => q.to \in Server
        /\ q.at # "connect"
        /\ \/ LockCache(c) /\ q.at \in Holds
           \/ UNCHANGED mutex /\ q.at \notin Holds /\ request[c].at \notin Holds
  <2>1. CASE \E s \in Server : NewCall(c, s)
    <3>1. PICK s \in Server : NewCall(c, s)
      BY <2>1
    <3>2. [to |-> s, session |-> NoSession, at |-> "get"]
             \in [to : Server \cup {Quiet}, session : Nat, at : Place]
      BY DEF Place, NoSession
    <3> QED  BY <3>1, <3>2 DEF NewCall, Holds, Quiet
  <2>2. CASE LockCache(c)
    <3> DEFINE q == [request[c] EXCEPT !.at = IF request[c].at = "get" THEN "look" ELSE "drop"]
    <3>1. /\ q \in [to : Server \cup {Quiet}, session : Nat, at : Place]
          /\ q.to = request[c].to /\ q.at \in {"look", "drop"}
      BY DEF SessionsInv, SessionsTyped, Place
    <3>2. request[c].at # Quiet
      BY <2>2 DEF LockCache, Quiet
    <3>3. request' = [request EXCEPT ![c] = q]
      BY <2>2 DEF LockCache, Goes
    <3>4. request[c].to \in Server
      BY <3>2 DEF SessionsInv, OneInside
    <3> HIDE DEF q
    <3>5. q.at \in Holds /\ q.at # "connect"
      BY <3>1 DEF Holds
    <3> QED  BY <2>2, <3>1, <3>3, <3>4, <3>5
  <2>3. CASE CallAnswered(c)
    <3>1. [to |-> Quiet, session |-> NoSession, at |-> Quiet]
             \in [to : Server \cup {Quiet}, session : Nat, at : Place]
      BY DEF Place, NoSession
    <3> QED  BY <2>3, <3>1 DEF CallAnswered, Returns, Holds, Quiet
  <2>4. CASE CallFails(c)
    <3> DEFINE q == [request[c] EXCEPT !.at = "failed"]
    <3>1. /\ q \in [to : Server \cup {Quiet}, session : Nat, at : Place]
          /\ q.to = request[c].to /\ q.at = "failed"
      BY DEF SessionsInv, SessionsTyped, Place
    <3>2. request[c].at # Quiet
      BY <2>4 DEF CallFails, Quiet
    <3>3. request' = [request EXCEPT ![c] = q]
      BY <2>4 DEF CallFails, Goes
    <3>4. request[c].to \in Server
      BY <3>2 DEF SessionsInv, OneInside
    <3>5. UNCHANGED mutex /\ request[c].at \notin Holds
      BY <2>4 DEF CallFails, Holds
    <3> HIDE DEF q
    <3>6. q.at \notin Holds /\ q.at # "connect"
      BY <3>1 DEF Holds
    <3> QED  BY <3>1, <3>3, <3>4, <3>5, <3>6
  <2> QED  BY <2>1, <2>2, <2>3, <2>4
<1>3. SessionsTyped /\ OneInside /\ UNCHANGED <<cached, sessions>>
  BY DEF SessionsInv, NewCall, LockCache, CallAnswered, CallFails
<1>4. /\ request' \in [Caller -> [to : Server \cup {Quiet}, session : Nat, at : Place]]
      /\ request'[c] = q /\ \A x \in Caller \ {c} : request'[x] = request[x]
  BY <1>2, <1>3, RequestKept
<1>5. SessionsTyped'
  BY <1>3, <1>4 DEF SessionsTyped
<1>6. OneInside'
  <2>1. CASE LockCache(c)
    <3>1. mutex = {} /\ mutex' = {c}
      BY <2>1 DEF LockCache, Free
    <3>2. \A x \in Caller : request[x].at \notin Holds
      BY <1>3, <3>1 DEF OneInside
    <3>3. q.at \in Holds
      <4>1. mutex' # mutex
        BY <3>1
      <4> QED  BY <1>2, <4>1
    <3>4. (q.at # Quiet => q.to \in Server) /\ q.at # "connect"
      BY <1>2
    <3>5. ASSUME NEW x \in Caller
          PROVE  /\ request'[x].at \in Holds => mutex' = {x}
                 /\ request'[x].at # Quiet => request'[x].to \in Server
                 /\ request'[x].at = "connect" => cached'[request'[x].to] = NoSession
      <4>1. CASE x = c
        BY <1>4, <3>1, <3>4, <4>1
      <4>2. CASE x # c
        <5>1. request'[x] = request[x] /\ request[x].at \notin Holds
          BY <1>4, <3>2, <4>2
        <5>2. request[x].at # "connect"
          BY <5>1 DEF Holds
        <5> QED  BY <1>3, <5>1, <5>2 DEF OneInside
      <4> QED  BY <4>1, <4>2
    <3>6. \A x \in mutex' : x \in Caller /\ request'[x].at \in Holds
      BY <1>4, <3>1, <3>3
    <3> QED  BY <3>5, <3>6 DEF OneInside
  <2>2. CASE ~LockCache(c)
    <3>1. UNCHANGED mutex /\ q.at \notin Holds /\ request[c].at \notin Holds
      BY <1>2, <2>2
    <3>2. c \notin mutex
      BY <1>3, <3>1 DEF OneInside
    <3>3. /\ q.at # Quiet => q.to \in Server
          /\ q.at # "connect"
      BY <1>2
    <3>4. ASSUME NEW x \in Caller
          PROVE  /\ request'[x].at \in Holds => mutex' = {x}
                 /\ request'[x].at # Quiet => request'[x].to \in Server
                 /\ request'[x].at = "connect" => cached'[request'[x].to] = NoSession
      <4>1. CASE x = c
        BY <1>4, <3>1, <3>3, <4>1
      <4>2. CASE x # c
        BY <1>3, <1>4, <3>1, <4>2 DEF OneInside
      <4> QED  BY <4>1, <4>2
    <3>5. \A x \in mutex' : x \in Caller /\ request'[x].at \in Holds
      BY <1>3, <1>4, <3>1, <3>2 DEF OneInside
    <3> QED  BY <3>4, <3>5 DEF OneInside
  <2> QED  BY <2>1, <2>2
<1> QED  BY <1>1, <1>5, <1>6 DEF SessionsInv

\* A call that has the mutex stays in the cache to connect.
LEMMA ConnectStep ==
    ASSUME SessionsInv, NEW c \in Caller, ConnectServer(c)
    PROVE  SessionsInv'
<1> DEFINE q == [request[c] EXCEPT !.at = "connect"]
<1>1. /\ SessionsTyped /\ OneInside /\ UNCHANGED <<mutex, cached, sessions, closed>>
      /\ request[c].at = "look" /\ cached[request[c].to] = NoSession
      /\ request' = [request EXCEPT ![c] = q]
  BY DEF SessionsInv, ConnectServer, Goes
<1>2. /\ q \in [to : Server \cup {Quiet}, session : Nat, at : Place]
      /\ q.to = request[c].to /\ q.at = "connect"
  BY <1>1 DEF SessionsTyped, Place
<1> HIDE DEF q
<1>3. /\ request' \in [Caller -> [to : Server \cup {Quiet}, session : Nat, at : Place]]
      /\ request'[c] = q /\ \A x \in Caller \ {c} : request'[x] = request[x]
  BY <1>1, <1>2, RequestKept
<1>4. SessionsTyped'
  BY <1>1, <1>3 DEF SessionsTyped
<1>5. mutex = {c} /\ request[c].to \in Server
  BY <1>1 DEF OneInside, Holds, Quiet
<1>6. OneInside'
  BY <1>1, <1>2, <1>3, <1>5 DEF OneInside, Holds
<1> QED  BY <1>1, <1>4, <1>6, CacheKept DEF SessionsInv

\* A call that has the mutex leaves the cache: nobody is in it any more, so
\* only the cache has to be looked at.
LEMMA LeaveCache ==
    ASSUME SessionsInv, NEW c \in Caller, request[c].at \in Holds,
           NEW q \in [to : Server \cup {Quiet}, session : Nat, at : Place],
           request' = [request EXCEPT ![c] = q], mutex' = mutex \ {c},
           q.at \notin Holds, q.at # Quiet => q.to \in Server
    PROVE  OneInside' /\ request' \in [Caller -> [to : Server \cup {Quiet}, session : Nat, at : Place]]
<1>1. SessionsTyped /\ OneInside /\ mutex' = {}
  BY DEF SessionsInv, OneInside
<1>2. /\ request' \in [Caller -> [to : Server \cup {Quiet}, session : Nat, at : Place]]
      /\ request'[c] = q /\ \A x \in Caller \ {c} : request'[x] = request[x]
  BY <1>1, RequestKept
<1>3. \A x \in Caller \ {c} : request[x].at \notin Holds
  BY <1>1 DEF OneInside
<1>4. "connect" \in Holds
  BY DEF Holds
<1> QED  BY <1>1, <1>2, <1>3, <1>4 DEF OneInside

LEMMA InsideStep ==
    ASSUME SessionsInv, NEW c \in Caller,
           UseSession(c) \/ Connected(c) \/ ConnectFails(c) \/ Invalidate(c)
    PROVE  SessionsInv'
<1> DEFINE none == [to |-> Quiet, session |-> NoSession, at |-> Quiet]
<1>0. /\ none \in [to : Server \cup {Quiet}, session : Nat, at : Place]
      /\ none.at \notin Holds /\ none.at = Quiet
  BY DEF Place, NoSession, Holds, Quiet
<1>1. request[c].at \in Holds /\ request[c].to \in Server /\ mutex' = mutex \ {c}
  BY DEF UseSession, Connected, ConnectFails, Invalidate, SessionsInv, OneInside, Holds, Quiet
<1>2. cached \in [Server -> Nat] /\ sessions \in Seq(Server) /\ CacheSane /\ OpenIsCached
  BY DEF SessionsInv, SessionsTyped
<1>3. ASSUME NEW n \in Nat
      PROVE  /\ [request[c] EXCEPT !.at = "call", !.session = n]
                  \in [to : Server \cup {Quiet}, session : Nat, at : Place]
             /\ [request[c] EXCEPT !.at = "call", !.session = n].at = "call"
             /\ [request[c] EXCEPT !.at = "call", !.session = n].to = request[c].to
  BY <1>3 DEF SessionsInv, SessionsTyped, Place
<1>4. "call" \notin Holds
  BY DEF Holds
<1> HIDE DEF none
<1>5. CASE UseSession(c)
  <2>1. cached[request[c].to] \in Nat
    BY <1>1, <1>2
  <2>2. /\ request' = [request EXCEPT ![c] =
                          [request[c] EXCEPT !.at = "call", !.session = cached[request[c].to]]]
        /\ UNCHANGED <<cached, sessions, closed>>
    BY <1>5 DEF UseSession
  <2>3. OneInside' /\ SessionsTyped'
    BY <1>1, <1>2, <1>3, <1>4, <2>1, <2>2, LeaveCache DEF SessionsTyped
  <2> QED  BY <2>2, <2>3, CacheKept DEF SessionsInv
<1>6. CASE Connected(c)
  <2> DEFINE n == Len(sessions) + 1
  <2>1. /\ sessions' = Append(sessions, request[c].to) /\ UNCHANGED closed
        /\ request[c].at = "connect"
    BY <1>6 DEF Connected
  <2>2. /\ sessions' \in Seq(Server) /\ Len(sessions') = n /\ n \in Nat /\ n # 0
        /\ sessions'[n] = request[c].to
        /\ \A i \in 1 .. Len(sessions) : sessions'[i] = sessions[i]
    BY <1>1, <1>2, <2>1
  <2>3. /\ cached' = [cached EXCEPT ![request[c].to] = n]
        /\ request' = [request EXCEPT ![c] = [request[c] EXCEPT !.at = "call", !.session = n]]
    BY <1>6, <2>2 DEF Connected
  <2>4. cached' \in [Server -> Nat]
    BY <1>1, <1>2, <2>2, <2>3
  <2> HIDE DEF n
  <2>5. OneInside' /\ SessionsTyped'
    BY <1>1, <1>2, <1>3, <1>4, <2>2, <2>3, <2>4, LeaveCache DEF SessionsTyped
  <2>6. cached[request[c].to] = NoSession
    BY <2>1 DEF SessionsInv, OneInside
  <2>7. /\ cached'[request[c].to] = n
        /\ \A s \in Server \ {request[c].to} : cached'[s] = cached[s]
    BY <1>1, <1>2, <2>3
  <2>8. CacheSane'
    BY <1>1, <1>2, <2>2, <2>7 DEF CacheSane, NoSession, n
  <2>9. OpenIsCached'
    <3> SUFFICES ASSUME NEW i \in DOMAIN sessions', i \notin closed
                 PROVE  cached'[sessions'[i]] = i
      BY <2>1 DEF OpenIsCached
    <3>1. i \in 1 .. n
      BY <2>2 DEF n
    <3>2. CASE i = n
      BY <2>2, <2>7, <3>2
    <3>3. CASE i # n
      <4>1. i \in 1 .. Len(sessions) /\ i # NoSession
        BY <1>2, <3>1, <3>3 DEF n, NoSession
      <4>2. cached[sessions[i]] = i /\ sessions[i] \in Server /\ sessions'[i] = sessions[i]
        BY <1>2, <2>2, <4>1 DEF OpenIsCached
      <4>3. sessions[i] # request[c].to
        BY <2>6, <4>1, <4>2
      <4> QED  BY <2>7, <4>2, <4>3
    <3> QED  BY <3>2, <3>3
  <2> QED  BY <2>5, <2>8, <2>9 DEF SessionsInv
<1>7. CASE ConnectFails(c)
  <2>1. request' = [request EXCEPT ![c] = none] /\ UNCHANGED <<cached, sessions, closed>>
    BY <1>7 DEF ConnectFails, Returns, none
  <2>2. OneInside' /\ SessionsTyped'
    BY <1>0, <1>1, <1>2, <2>1, LeaveCache DEF SessionsTyped
  <2> QED  BY <2>1, <2>2, CacheKept DEF SessionsInv
<1>8. CASE Invalidate(c)
  <2> DEFINE n == cached[request[c].to]
  <2>1. /\ request' = [request EXCEPT ![c] = none] /\ UNCHANGED sessions
        /\ cached' = [cached EXCEPT ![request[c].to] = NoSession]
        /\ closed' = IF n = NoSession THEN closed ELSE closed \cup {n}
    BY <1>8 DEF Invalidate, Returns, none
  <2>2. /\ cached' \in [Server -> Nat] /\ cached'[request[c].to] = NoSession
        /\ \A s \in Server \ {request[c].to} : cached'[s] = cached[s]
    BY <1>1, <1>2, <2>1 DEF NoSession
  <2>3. OneInside' /\ SessionsTyped'
    BY <1>0, <1>1, <1>2, <2>1, <2>2, LeaveCache DEF SessionsTyped
  <2>4. CacheSane'
    BY <1>1, <1>2, <2>1, <2>2 DEF CacheSane
  <2>5. OpenIsCached'
    <3> SUFFICES ASSUME NEW i \in DOMAIN sessions, i \notin closed'
                 PROVE  cached'[sessions[i]] = i
      BY <2>1 DEF OpenIsCached
    <3>1. i # NoSession /\ sessions[i] \in Server
      BY <1>2 DEF NoSession
    <3>2. i \notin closed
      BY <2>1
    <3>3. cached[sessions[i]] = i
      BY <1>2, <3>2 DEF OpenIsCached
    <3>4. sessions[i] # request[c].to
      BY <2>1, <3>1, <3>3
    <3> QED  BY <2>2, <3>1, <3>3, <3>4
  <2> QED  BY <2>3, <2>4, <2>5 DEF SessionsInv
<1> QED  BY <1>5, <1>6, <1>7, <1>8

LEMMA CloseStep ==
    ASSUME SessionsInv, CloseAll
    PROVE  SessionsInv'
<1>1. /\ closed' = closed \cup {n \in DOMAIN sessions : \E s \in Server : cached[s] = n}
      /\ cached' = [s \in Server |-> NoSession] /\ UNCHANGED <<request, mutex, sessions>>
  BY DEF CloseAll
<1>2. SessionsTyped' /\ CacheSane'
  BY <1>1 DEF SessionsInv, SessionsTyped, CacheSane, NoSession
<1>3. OneInside'
  BY <1>1 DEF SessionsInv, OneInside, CloseAll, Holds, Quiet
<1>4. \A i \in DOMAIN sessions : i \in closed'
  BY <1>1 DEF SessionsInv, SessionsTyped, OpenIsCached
<1>5. OpenIsCached'
  BY <1>1, <1>4 DEF OpenIsCached
<1> QED  BY <1>2, <1>3, <1>5 DEF SessionsInv

LEMMA SessionsStep == SessionsInv /\ [SessionsNext]_sessionVars => SessionsInv'
<1> SUFFICES ASSUME SessionsInv, [SessionsNext]_sessionVars PROVE SessionsInv'
  OBVIOUS
<1>1. ASSUME UNCHANGED <<request, mutex, cached, sessions, closed>> PROVE SessionsInv'
  BY <1>1 DEF SessionsInv, SessionsTyped, OneInside, CacheSane, OpenIsCached
<1>2. CASE (\E n \in DOMAIN sessions : ServerDies(n)) \/ EndBridge \/ UNCHANGED sessionVars
  BY <1>1, <1>2 DEF ServerDies, EndBridge, sessionVars
<1> QED  BY <1>2, OutsideStep, ConnectStep, InsideStep, CloseStep DEF SessionsNext

\* A session that is open is the one cached for its server: no server process
\* is left running that nobody will close, whichever calls open, fail and
\* invalidate at once, and none is left when the bridge is down.
THEOREM NoneLeftOpen == SessionsSpec => []OpenIsCached
<1>1. SessionsInv => OpenIsCached
  BY DEF SessionsInv
<1> QED  BY <1>1, SessionsStart, SessionsStep, PTL DEF SessionsSpec

\* Sessions are numbered as they are opened.
Numbered ==
    /\ \A c \in Caller : request[c].session <= Len(sessions)
    /\ Len(sessions) <= MaxSessions /\ closed \cup broken \subseteq DOMAIN sessions
    /\ ending \in {"no", "told", "over"}

LEMMA NumberedStays ==
    ASSUME SessionsInv, Numbered, [SessionsNext]_sessionVars
    PROVE  Numbered'
<1>1. /\ request \in [Caller -> [to : Server \cup {Quiet}, session : Nat, at : Place]]
      /\ cached \in [Server -> Nat] /\ sessions \in Seq(Server) /\ Len(sessions) \in Nat
      /\ DOMAIN sessions = 1 .. Len(sessions)
      /\ \A s \in Server : cached[s] <= Len(sessions)
      /\ \A s \in Server : cached[s] # NoSession => cached[s] \in DOMAIN sessions
  <2>1. sessions \in Seq(Server) /\ cached \in [Server -> Nat]
    BY DEF SessionsInv, SessionsTyped
  <2>2. Len(sessions) \in Nat /\ DOMAIN sessions = 1 .. Len(sessions)
    BY <2>1
  <2> QED  BY <2>1, <2>2 DEF SessionsInv, SessionsTyped, CacheSane, NoSession
<1>2. ASSUME UNCHANGED <<sessions>>, (closed \cup broken)' \subseteq DOMAIN sessions,
             ending' \in {"no", "told", "over"},
             \A c \in Caller : request'[c].session <= Len(sessions)
      PROVE  Numbered'
  BY <1>2 DEF Numbered
<1>3. ASSUME NEW c \in Caller, NEW q, request' = [request EXCEPT ![c] = q], q.session <= Len(sessions)
      PROVE  \A x \in Caller : request'[x].session <= Len(sessions)
  BY <1>1, <1>3 DEF Numbered
<1>4. ASSUME NEW c \in Caller, NEW s \in Server, NewCall(c, s) PROVE Numbered'
  BY <1>1, <1>2, <1>3, <1>4 DEF NewCall, Numbered, NoSession
<1>5. ASSUME NEW c \in Caller, LockCache(c) \/ ConnectServer(c) \/ CallFails(c) PROVE Numbered'
  <2>1. PICK place \in Place : request' = [request EXCEPT ![c].at = place]
    BY <1>5 DEF LockCache, ConnectServer, CallFails, Goes, Place
  <2>2. \A x \in Caller : request'[x].session <= Len(sessions)
    BY <1>1, <2>1 DEF Numbered
  <2> QED  BY <1>2, <1>5, <2>2 DEF LockCache, ConnectServer, CallFails, Numbered
<1>6. ASSUME NEW c \in Caller, UseSession(c) PROVE Numbered'
  <2>1. request[c].to \in Server
    BY <1>6 DEF UseSession, SessionsInv, OneInside, Quiet
  <2>2. \A x \in Caller : request'[x].session <= Len(sessions)
    BY <1>1, <1>6, <2>1 DEF UseSession, Numbered
  <2> QED  BY <1>2, <1>6, <2>2 DEF UseSession, Numbered
<1>7. ASSUME NEW c \in Caller, Connected(c) PROVE Numbered'
  <2>1. request[c].to \in Server
    BY <1>7 DEF Connected, SessionsInv, OneInside, Quiet
  <2>2. /\ Len(sessions') = Len(sessions) + 1 /\ DOMAIN sessions' = 1 .. Len(sessions) + 1
        /\ Len(sessions') <= MaxSessions
    BY <1>1, <1>7, <2>1, SessionsAssumption DEF Connected
  <2>3. \A x \in Caller : request'[x].session <= Len(sessions')
    BY <1>1, <1>7, <2>2 DEF Connected, Numbered
  <2> QED  BY <1>1, <1>7, <2>2, <2>3 DEF Connected, Numbered
<1>8. ASSUME NEW c \in Caller, ConnectFails(c) \/ CallAnswered(c) PROVE Numbered'
  BY <1>1, <1>2, <1>3, <1>8 DEF ConnectFails, CallAnswered, Returns, Numbered, NoSession
<1>9. ASSUME NEW c \in Caller, Invalidate(c) PROVE Numbered'
  <2>1. request[c].to \in Server
    BY <1>9 DEF Invalidate, SessionsInv, OneInside, Quiet
  <2>2. \A x \in Caller : request'[x].session <= Len(sessions)
    <3> DEFINE q == [to |-> Quiet, session |-> NoSession, at |-> Quiet]
    <3>1. request' = [request EXCEPT ![c] = q] /\ q.session <= Len(sessions)
      BY <1>1, <1>9 DEF Invalidate, Returns, NoSession
    <3> HIDE DEF q
    <3> QED  BY <1>3, <3>1
  <2> QED  BY <1>1, <1>2, <1>9, <2>1, <2>2 DEF Invalidate, Numbered
<1>10. CASE (\E n \in DOMAIN sessions : ServerDies(n)) \/ EndBridge \/ CloseAll
  BY <1>2, <1>10 DEF ServerDies, EndBridge, CloseAll, Numbered
<1>11. CASE UNCHANGED sessionVars
  BY <1>11 DEF sessionVars, Numbered
<1> QED
  BY <1>4, <1>5, <1>6, <1>7, <1>8, <1>9, <1>10, <1>11 DEF SessionsNext

LEMMA SessionsTypes == SessionsSpec => []SessionsTypeOK
<1>1. SessionsInit => Numbered
  BY SessionsAssumption DEF SessionsInit, Numbered, NoSession
<1>2. SessionsInv /\ Numbered => SessionsTypeOK
  <2> SUFFICES ASSUME SessionsInv, Numbered PROVE SessionsTypeOK
    OBVIOUS
  <2>1. /\ request \in [Caller -> [to : Server \cup {Quiet}, session : Nat, at : Place]]
        /\ cached \in [Server -> Nat] /\ sessions \in Seq(Server)
        /\ Len(sessions) \in Nat /\ MaxSessions \in Nat
    <3>1. sessions \in Seq(Server)
      BY DEF SessionsInv, SessionsTyped
    <3> QED  BY <3>1, SessionsAssumption DEF SessionsInv, SessionsTyped
  <2>2. \A c \in Caller : request[c].session \in 0 .. MaxSessions
    BY <2>1 DEF Numbered
  <2>3. \A s \in Server : cached[s] \in 0 .. MaxSessions
    BY <2>1 DEF SessionsInv, CacheSane, Numbered, NoSession
  <2>4. request \in [Caller -> [to : Server \cup {Quiet}, session : 0 .. MaxSessions, at : Place]]
    BY <2>1, <2>2
  <2>5. cached \in [Server -> 0 .. MaxSessions] /\ mutex \subseteq Caller
    BY <2>1, <2>3 DEF SessionsInv, OneInside
  <2> QED  BY <2>1, <2>4, <2>5 DEF SessionsTypeOK, Numbered, Place
<1>3. SessionsInv /\ Numbered /\ [SessionsNext]_sessionVars => (SessionsInv /\ Numbered)'
  BY SessionsStep, NumberedStays
<1> QED  BY <1>1, <1>2, <1>3, SessionsStart, PTL DEF SessionsSpec

----------------------------------------------------------------------------
(* Exporter: nothing is skipped, for any items, batch limit and clock. *)

LEMMA LeastStamp ==
    ASSUME NEW S, S \subseteq Nat, S # {}
    PROVE  \E x \in S : \A y \in S : x <= y
<1>1. PICK x \in S : \A y \in S : <<y, x>> \notin OpToRel(<, Nat)
  BY NatLessThanWellFounded, WFMin
<1>2. \A y \in S : ~ (y < x)
  BY <1>1 DEF OpToRel
<1> QED  BY <1>2

\* Newest is the greatest updated_at of a batch.
LEMMA NewestIs ==
    ASSUME NEW rows, rows # {}, \A r \in rows : r.at \in 0 .. Horizon
    PROVE  /\ Newest(rows) \in {r.at : r \in rows}
           /\ \A r \in rows : r.at <= Newest(rows)
<1> DEFINE T == {Horizon - t : t \in {r.at : r \in rows}}
<1>1. T \subseteq Nat
  <2>1. \A r \in rows : Horizon - r.at \in Nat
    BY ExporterAssumption
  <2> QED  BY <2>1
<1>2. T # {}
  OBVIOUS
<1>3. PICK u \in T : \A v \in T : u <= v
  BY <1>1, <1>2, LeastStamp
<1>4. PICK r \in rows : u = Horizon - r.at
  OBVIOUS
<1>5. \A q \in rows : Horizon - r.at <= Horizon - q.at
  BY <1>3, <1>4
<1>6. \A q \in rows : q.at <= r.at
  BY <1>5, ExporterAssumption
<1> QED  BY <1>6 DEF Newest

\* An item that the exporter has passed, and that is not known to be overtaken,
\* is in the batch only as it is; the collector took it as it is, unless the
\* batch that holds it is not posted yet.
Counts(i) == i \notin overtaken /\ ledger[i].finished
InBatch(i) == \E r \in sending : r.item = i
Taken(i) == exported[i] = ledger[i].at

ExporterInv ==
    /\ ExporterTypeOK
    /\ tick = "rest" <=> sending = {}
    /\ \A i \in Finish : Counts(i) =>
         /\ Passed(ledger[i].at) => \A r \in sending : r.item = i => r.at = ledger[i].at
         /\ ledger[i].at <= checkpoint \/ ledger[i].at <= savedPoint => Taken(i)
         /\ (\E r \in sending : ledger[i].at <= r.at) => Taken(i) \/ (tick = "fetched" /\ InBatch(i))

LEMMA ExporterStart == ExporterInit => ExporterInv
BY ExporterAssumption DEF ExporterInit, ExporterInv, ExporterTypeOK, Counts

\* The batch is dropped, saved or not.
LEMMA BatchDropped ==
    ASSUME ExporterInv, ExporterTypeOK', sending' = {}, tick' = "rest",
           UNCHANGED <<ledger, exported, overtaken>>,
           \A i \in Finish : Counts(i) =>
             (ledger[i].at <= checkpoint' \/ ledger[i].at <= savedPoint' => Taken(i))
    PROVE  ExporterInv'
BY DEF ExporterInv, Counts, Taken, InBatch

LEMMA ExporterQuiet ==
    ASSUME ExporterInv, ExporterTypeOK',
           UNCHANGED <<ledger, checkpoint, savedPoint, sending, tick, exported, overtaken>>
    PROVE  ExporterInv'
BY DEF ExporterInv, Counts, Taken, InBatch, Passed

\* What the exporter has passed by then, it is told is overtaken.
LEMMA CommitStepExport ==
    ASSUME ExporterInv, NEW i \in Finish, CommitUpdate(i)
    PROVE  ExporterInv'
<1>1. PICK f \in BOOLEAN : ledger' = [ledger EXCEPT ![i] = [finished |-> f, at |-> begun[i]]]
  BY DEF CommitUpdate
<1>2. ExporterTypeOK'
  <2>1. [finished |-> f, at |-> begun[i]] \in [finished : BOOLEAN, at : 0 .. Horizon]
    BY DEF ExporterInv, ExporterTypeOK
  <2>2. ledger' \in [Finish -> [finished : BOOLEAN, at : 0 .. Horizon]]
    BY <1>1, <2>1 DEF ExporterInv, ExporterTypeOK
  <2>3. begun' \in [Finish -> 0 .. Horizon]
    BY ExporterAssumption DEF CommitUpdate, ExporterInv, ExporterTypeOK
  <2>4. overtaken' \subseteq Finish
    BY DEF CommitUpdate, ExporterInv, ExporterTypeOK
  <2>5. UNCHANGED <<now, checkpoint, savedPoint, sending, tick, exported>>
    BY DEF CommitUpdate
  <2> QED  BY <2>2, <2>3, <2>4, <2>5 DEF ExporterInv, ExporterTypeOK
<1>3. /\ ledger'[i].at = begun[i]
      /\ \A j \in Finish : j # i => ledger'[j] = ledger[j]
      /\ UNCHANGED <<checkpoint, savedPoint, sending, tick, exported>>
  BY <1>1 DEF CommitUpdate, ExporterInv, ExporterTypeOK
<1>4. Counts(i)' => ~Passed(begun[i])
  BY DEF CommitUpdate, Counts
<1>5. \A j \in Finish : j # i => (Counts(j)' <=> Counts(j))
  BY <1>3 DEF CommitUpdate, Counts
<1>6. \A t : Passed(t)' <=> Passed(t)
  BY <1>3 DEF Passed
<1>7. Counts(i)' => /\ ~Passed(ledger[i].at)'
                    /\ ~(ledger'[i].at <= checkpoint') /\ ~(ledger'[i].at <= savedPoint')
                    /\ ~\E r \in sending' : ledger'[i].at <= r.at
  BY <1>3, <1>4 DEF Passed
<1>8. ASSUME NEW j \in Finish, Counts(j)'
      PROVE  /\ Passed(ledger[j].at)' => \A r \in sending' : r.item = j => r.at = ledger'[j].at
             /\ ledger'[j].at <= checkpoint' \/ ledger'[j].at <= savedPoint' => Taken(j)'
             /\ (\E r \in sending' : ledger'[j].at <= r.at)
                  => Taken(j)' \/ (tick' = "fetched" /\ InBatch(j)')
  <2>1. CASE j = i
    BY <1>7, <1>8, <2>1
  <2>2. CASE j # i
    BY <1>3, <1>5, <1>6, <1>8, <2>2 DEF ExporterInv, Taken, InBatch, Passed
  <2> QED  BY <2>1, <2>2
<1>9. tick' = "rest" <=> sending' = {}
  BY <1>3 DEF ExporterInv
<1> QED  BY <1>2, <1>8, <1>9 DEF ExporterInv

\* A batch holds every item up to its newest that the checkpoint has not
\* passed, but for those cut off from it.
LEMMA FetchStep == ASSUME ExporterInv, FetchItems PROVE ExporterInv'
<1>1. PICK rows \in SUBSET Due :
        /\ Cardinality(rows) \in 1 .. BatchLimit /\ OldestFirst(rows)
        /\ sending' = rows
        /\ overtaken' = overtaken \cup {s.item : s \in {x \in Due \ rows : x.at = Newest(rows)}}
  BY DEF FetchItems
<1>2. /\ tick = "rest" /\ tick' = "fetched" /\ sending = {}
      /\ UNCHANGED <<now, begun, ledger, checkpoint, savedPoint, exported>>
  BY DEF FetchItems, ExporterInv
<1>3. rows # {}
  BY <1>1, FS_EmptySet
<1>4. \A r \in Due : /\ r.item \in Finish /\ r.at = ledger[r.item].at
                     /\ r = [item |-> r.item, at |-> r.at] /\ r.at \in 0 .. Horizon
  BY DEF Due, ExporterInv, ExporterTypeOK
<1>5. Newest(rows) \in {r.at : r \in rows} /\ \A r \in rows : r.at <= Newest(rows)
  BY <1>3, <1>4, NewestIs
<1>6. ExporterTypeOK'
  <2>1. sending' \subseteq [item : Finish, at : 0 .. Horizon]
    BY <1>1, <1>4
  <2>2. overtaken' \subseteq Finish
    BY <1>1, <1>4 DEF ExporterInv, ExporterTypeOK
  <2> QED  BY <1>2, <2>1, <2>2 DEF ExporterInv, ExporterTypeOK
<1>7. ASSUME NEW i \in Finish, Counts(i)'
      PROVE  /\ Passed(ledger[i].at)' => \A r \in sending' : r.item = i => r.at = ledger'[i].at
             /\ ledger'[i].at <= checkpoint' \/ ledger'[i].at <= savedPoint' => Taken(i)'
             /\ (\E r \in sending' : ledger'[i].at <= r.at)
                  => Taken(i)' \/ (tick' = "fetched" /\ InBatch(i)')
  <2>1. Counts(i)
    BY <1>1, <1>2, <1>7 DEF Counts
  <2>2. \A r \in sending' : r.item = i => r.at = ledger'[i].at
    BY <1>1, <1>2, <1>4
  <2>3. ledger'[i].at <= checkpoint' \/ ledger'[i].at <= savedPoint' => Taken(i)'
    BY <1>2, <2>1 DEF ExporterInv, Taken
  <2>4. ASSUME NEW r \in sending', ledger[i].at <= r.at, ~(ledger[i].at <= checkpoint)
        PROVE  InBatch(i)'
    <3> DEFINE s == [item |-> i, at |-> ledger[i].at]
    <3>1. ledger[i].at \in 0 .. Horizon /\ checkpoint \in 0 .. Horizon
      BY DEF ExporterInv, ExporterTypeOK
    <3>2. s \in Due
      BY <2>1, <2>4, <3>1 DEF Due, Counts
    <3>3. CASE s \in rows
      BY <1>1, <3>3 DEF InBatch
    <3>4. CASE s \notin rows
      <4>1. \A q \in rows : q.at <= s.at
        BY <1>1, <3>2, <3>4 DEF OldestFirst
      <4>2. s.at = Newest(rows)
        BY <1>1, <1>4, <1>5, <2>4, <3>1, <4>1
      <4>3. i \in overtaken'
        BY <1>1, <3>2, <3>4, <4>2
      <4> QED  BY <1>7, <4>3 DEF Counts
    <3> QED  BY <3>3, <3>4
  <2> QED  BY <1>2, <2>2, <2>3, <2>4
<1>8. tick' = "rest" <=> sending' = {}
  BY <1>1, <1>2, <1>3
<1> QED  BY <1>6, <1>7, <1>8 DEF ExporterInv

LEMMA PostStepExport == ASSUME ExporterInv, PostSpans PROVE ExporterInv'
<1>1. /\ tick = "fetched" /\ tick' \in {"posted", "failed"} /\ sending # {}
      /\ exported' = [i \in Finish |-> IF \E r \in sending : r.item = i
                                       THEN Newest({r \in sending : r.item = i}) ELSE exported[i]]
      /\ UNCHANGED <<now, begun, ledger, checkpoint, savedPoint, sending, overtaken>>
  BY DEF PostSpans, ExporterInv
<1>2. ASSUME NEW i \in Finish, InBatch(i)
      PROVE  exported'[i] \in {r.at : r \in {q \in sending : q.item = i}}
  <2> DEFINE rows == {r \in sending : r.item = i}
  <2>1. rows # {} /\ \A r \in rows : r.at \in 0 .. Horizon
    BY <1>2 DEF InBatch, ExporterInv, ExporterTypeOK
  <2>2. Newest(rows) \in {r.at : r \in rows}
    BY <2>1, NewestIs
  <2>3. exported'[i] = Newest(rows)
    BY <1>1, <1>2 DEF InBatch
  <2> QED  BY <2>2, <2>3
<1>3. \A i \in Finish : ~InBatch(i) => exported'[i] = exported[i]
  BY <1>1 DEF InBatch
<1>4. ExporterTypeOK'
  <2>1. \A i \in Finish : exported'[i] \in 0 .. Horizon
    BY <1>2, <1>3 DEF ExporterInv, ExporterTypeOK
  <2>2. exported' \in [Finish -> 0 .. Horizon]
    BY <1>1, <2>1
  <2> QED  BY <1>1, <2>2 DEF ExporterInv, ExporterTypeOK
<1>5. ASSUME NEW i \in Finish, Counts(i), Passed(ledger[i].at)
      PROVE  Taken(i)'
  <2>1. CASE InBatch(i)
    BY <1>1, <1>2, <1>5, <2>1 DEF ExporterInv, Taken
  <2>2. CASE ~InBatch(i)
    BY <1>1, <1>3, <1>5, <2>2 DEF ExporterInv, Taken, Passed
  <2> QED  BY <2>1, <2>2
<1>6. ASSUME NEW i \in Finish, Counts(i)'
      PROVE  /\ Passed(ledger[i].at)' => \A r \in sending' : r.item = i => r.at = ledger'[i].at
             /\ Passed(ledger[i].at)' => Taken(i)'
  <2>1. Counts(i) /\ (Passed(ledger[i].at)' <=> Passed(ledger[i].at))
    BY <1>1, <1>6 DEF Counts, Passed
  <2> QED  BY <1>1, <1>5, <2>1 DEF ExporterInv
<1> QED  BY <1>1, <1>4, <1>6 DEF ExporterInv, Passed

\* The save covers what the post just delivered, and no more.
LEMMA SaveStep == ASSUME ExporterInv, SavePoint \/ TickFails PROVE ExporterInv'
<1>1. sending # {}
  BY DEF SavePoint, TickFails, ExporterInv
<1>2. /\ Newest(sending) \in {r.at : r \in sending}
      /\ Newest(sending) \in 0 .. Horizon
  <2>1. \A r \in sending : r.at \in 0 .. Horizon
    BY DEF ExporterInv, ExporterTypeOK
  <2> QED  BY <1>1, <2>1, NewestIs
<1>3. /\ sending' = {} /\ tick' = "rest"
      /\ UNCHANGED <<now, begun, ledger, exported, overtaken>>
      /\ savedPoint' \in {savedPoint, Newest(sending)}
      /\ checkpoint' \in {checkpoint, Newest(sending)}
      /\ tick # "posted" => UNCHANGED <<checkpoint, savedPoint>>
  BY DEF SavePoint, TickFails
<1>4. ExporterTypeOK'
  BY <1>2, <1>3 DEF ExporterInv, ExporterTypeOK
<1>5. tick = "posted" => \A i \in Finish : Counts(i) /\ ledger[i].at <= Newest(sending) => Taken(i)
  BY <1>2 DEF ExporterInv
<1>6. \A i \in Finish : Counts(i) =>
        (ledger[i].at <= checkpoint' \/ ledger[i].at <= savedPoint' => Taken(i))
  BY <1>3, <1>5 DEF ExporterInv
<1> QED  BY <1>3, <1>4, <1>6, BatchDropped

LEMMA ExporterStep == ExporterInv /\ [ExporterNext]_exporterVars => ExporterInv'
<1> SUFFICES ASSUME ExporterInv, [ExporterNext]_exporterVars PROVE ExporterInv'
  OBVIOUS
<1>1. CASE TimePasses
  <2>1. ExporterTypeOK'
    BY <1>1, ExporterAssumption DEF TimePasses, ExporterInv, ExporterTypeOK
  <2> QED  BY <1>1, <2>1, ExporterQuiet DEF TimePasses
<1>2. ASSUME NEW i \in Finish, BeginUpdate(i) PROVE ExporterInv'
  <2>1. ExporterTypeOK'
    BY <1>2 DEF BeginUpdate, ExporterInv, ExporterTypeOK
  <2> QED  BY <1>2, <2>1, ExporterQuiet DEF BeginUpdate
<1>3. CASE RestartExport
  <2>1. ExporterTypeOK'
    BY <1>3 DEF RestartExport, ExporterInv, ExporterTypeOK
  <2> QED  BY <1>3, <2>1, BatchDropped DEF RestartExport, ExporterInv
<1>4. CASE UNCHANGED exporterVars
  <2>1. ExporterTypeOK'
    BY <1>4 DEF exporterVars, ExporterInv, ExporterTypeOK
  <2> QED  BY <1>4, <2>1, ExporterQuiet DEF exporterVars
<1> QED  BY <1>1, <1>2, <1>3, <1>4, CommitStepExport, FetchStep, PostStepExport, SaveStep
         DEF ExporterNext

LEMMA ExporterTypes == ExporterSpec => []ExporterTypeOK
<1>1. ExporterInv => ExporterTypeOK
  BY DEF ExporterInv
<1> QED  BY <1>1, ExporterStart, ExporterStep, PTL DEF ExporterSpec

\* However the posts and the saves fail and whenever the bridge restarts, the
\* saved checkpoint passes no finished item that the collector did not take, but
\* for those committed behind it or cut off from their equals.
THEOREM ExportSkipsNothing == ExporterSpec => []NothingSkipped
<1>1. ExporterInv => NothingSkipped
  BY DEF ExporterInv, NothingSkipped, Counts, Taken
<1> QED  BY <1>1, ExporterStart, ExporterStep, PTL DEF ExporterSpec

----------------------------------------------------------------------------
(* Materializer: a marked row is in its file once, for any drains, rows,     *)
(* targets, limits and mishaps.                                              *)

\* The places of a row's text in its file.
Occurs(w) == {i \in DOMAIN disk[queue[w].path].text : disk[queue[w].path].text[i] = w}

\* A row whose text is written: it is marked, or a drain is about to mark it.
Written(w) == queue[w].marked \/ \E d \in Drain : At(d, "mark") /\ Row1(d) = w

QueueSane ==
    /\ MaterializerTypeOK /\ Len(queue) <= Writes
    /\ \A d \in Drain : /\ drain[d].rows \subseteq DOMAIN queue
                        /\ drain[d].rows = {} => drain[d].step = "look"
    /\ \A p \in Target : /\ \A i \in DOMAIN disk[p].text : disk[p].text[i] \in DOMAIN queue
                         /\ ~disk[p].there => disk[p].text = <<>>

OneAtATime == \A d, e \in Drain : d # e => drain[d] = Idle \/ drain[e] = Idle
Unwritten == \A d \in Drain : \A w \in drain[d].rows : ~queue[w].marked
NewFile == \A d \in Drain : At(d, "write") /\ Creates(d) => ~disk[Dest(d)].there
Counted == \A w \in DOMAIN queue \ unmarked :
               IF Written(w) THEN \E i \in Occurs(w) : Occurs(w) = {i} ELSE Occurs(w) = {}

WritesInv == QueueSane /\ (~overlapped => OneAtATime /\ Unwritten /\ NewFile /\ Counted)

LEMMA RowTyped ==
    ASSUME MaterializerTypeOK, NEW w \in DOMAIN queue
    PROVE  queue[w] \in [path : Target, mode : {"create", "append"}, marked : BOOLEAN]
<1> DEFINE R == [path : Target, mode : {"create", "append"}, marked : BOOLEAN]
           q == queue
<1>1. q \in Seq(R)
  BY DEF MaterializerTypeOK
<1> HIDE DEF R, q
<1>2. \A i \in DOMAIN q : q[i] \in R
  BY <1>1
<1> QED  BY <1>2 DEF R, q

LEMMA RowFirst ==
    ASSUME QueueSane, NEW d \in Drain, drain[d].rows # {}
    PROVE  /\ Row1(d) \in drain[d].rows /\ Row1(d) \in DOMAIN queue /\ Row1(d) \in 1 .. Writes
           /\ queue[Row1(d)] \in [path : Target, mode : {"create", "append"}, marked : BOOLEAN]
           /\ Dest(d) \in Target
<1>1. drain[d].rows \subseteq Nat
  BY DEF QueueSane, MaterializerTypeOK
<1>2. Row1(d) \in drain[d].rows
  BY <1>1, LeastStamp DEF Row1, Min
<1>3. Row1(d) \in DOMAIN queue /\ Row1(d) \in 1 .. Writes
  BY <1>2 DEF QueueSane, MaterializerTypeOK
<1>4. queue[Row1(d)] \in [path : Target, mode : {"create", "append"}, marked : BOOLEAN]
  BY <1>3, RowTyped DEF QueueSane
<1> QED  BY <1>2, <1>3, <1>4 DEF Dest

\* While no two drains run, the one that does is the only one with rows.
LEMMA OnlyOne ==
    ASSUME QueueSane, OneAtATime, NEW d \in Drain, drain[d].rows # {},
           \A e \in Drain \ {d} : drain'[e] = drain[e]
    PROVE  /\ OneAtATime' /\ \A e \in Drain \ {d} : drain'[e] = Idle
           /\ \A w : Written(w) <=> queue[w].marked \/ (At(d, "mark") /\ Row1(d) = w)
           /\ \A w : Written(w)' <=> queue'[w].marked \/ (At(d, "mark")' /\ Row1(d)' = w)
<1>1. \A e \in Drain \ {d} : drain[e] = Idle /\ drain'[e] = Idle
  BY DEF OneAtATime, Idle
<1>2. \A e \in Drain \ {d} : \A step : ~At(e, step) /\ ~At(e, step)'
  BY <1>1 DEF At, Idle
<1> QED  BY <1>1, <1>2 DEF OneAtATime, Written

LEMMA WritesStart == MaterializerInit => WritesInv
<1> SUFFICES ASSUME MaterializerInit PROVE WritesInv
  OBVIOUS
<1>1. QueueSane
  <2>1. /\ queue = <<>> /\ DOMAIN queue = {} /\ Len(queue) = 0 /\ flagged = {} /\ unmarked = {}
        /\ disk = [p \in Target |-> [there |-> FALSE, text |-> <<>>]]
        /\ drain = [d \in Drain |-> [rows |-> {}, step |-> "look"]]
        /\ overlapped = FALSE /\ mishaps \in 0 .. Mishaps
    BY MaterializerAssumption DEF MaterializerInit, Idle
  <2>2. disk \in [Target -> [there : BOOLEAN, text : Seq(1 .. Writes)]]
    BY <2>1
  <2>3. drain \in [Drain -> [rows : SUBSET (1 .. Writes), step : {"look", "write", "mark"}]]
    BY <2>1
  <2>4. MaterializerTypeOK
    <3> DEFINE R == [path : Target, mode : {"create", "append"}, marked : BOOLEAN]
    <3> HIDE DEF R
    <3>1. queue \in Seq(R)
      BY <2>1
    <3> QED  BY <2>1, <2>2, <2>3, <3>1 DEF MaterializerTypeOK, R
  <2> QED  BY <2>1, <2>4, MaterializerAssumption DEF QueueSane
<1> QED
  BY <1>1 DEF MaterializerInit, WritesInv, OneAtATime, Unwritten, NewFile, Counted, Idle, At

\* A row that is left behind unmarked changes nothing that is on the disk.
LEMMA NextRowEffect ==
    ASSUME QueueSane, NEW d \in Drain, drain[d].rows # {}, NextRow(d)
    PROVE  /\ drain' \in [Drain -> [rows : SUBSET (1 .. Writes), step : {"look", "write", "mark"}]]
           /\ drain'[d] = [rows |-> drain[d].rows \ {Row1(d)}, step |-> "look"]
           /\ \A e \in Drain \ {d} : drain'[e] = drain[e]
           /\ \A e \in Drain : /\ drain'[e].rows \subseteq drain[e].rows
                               /\ drain'[e].rows = {} => drain'[e].step = "look"
<1>1. drain \in [Drain -> [rows : SUBSET (1 .. Writes), step : {"look", "write", "mark"}]]
  BY DEF QueueSane, MaterializerTypeOK
<1>2. drain' = [drain EXCEPT ![d] = [rows |-> drain[d].rows \ {Row1(d)}, step |-> "look"]]
  BY DEF NextRow
<1>3. [rows |-> drain[d].rows \ {Row1(d)}, step |-> "look"]
        \in [rows : SUBSET (1 .. Writes), step : {"look", "write", "mark"}]
  BY <1>1
<1> QED  BY <1>1, <1>2, <1>3 DEF QueueSane

LEMMA RequestStep == ASSUME WritesInv, RequestWrite PROVE WritesInv'
<1> DEFINE n == Len(queue) + 1
<1>1. PICK p \in Target, mode \in {"create", "append"} :
        queue' = Append(queue, [path |-> p, mode |-> mode, marked |-> FALSE])
  BY DEF RequestWrite
<1>2. /\ Len(queue) < Writes /\ UNCHANGED <<flagged, disk, drain, overlapped, unmarked, mishaps>>
      /\ queue \in Seq([path : Target, mode : {"create", "append"}, marked : BOOLEAN])
  BY DEF RequestWrite, WritesInv, QueueSane, MaterializerTypeOK
<1>3. /\ queue' \in Seq([path : Target, mode : {"create", "append"}, marked : BOOLEAN])
      /\ Len(queue') = n /\ DOMAIN queue = 1 .. Len(queue) /\ DOMAIN queue' = 1 .. n
      /\ queue'[n] = [path |-> p, mode |-> mode, marked |-> FALSE]
      /\ \A w \in DOMAIN queue : queue'[w] = queue[w]
  BY <1>1, <1>2
<1>4. QueueSane'
  <2>1. MaterializerTypeOK'
    BY <1>2, <1>3 DEF WritesInv, QueueSane, MaterializerTypeOK
  <2>2. DOMAIN queue \subseteq DOMAIN queue' /\ Len(queue') <= Writes
    BY <1>2, <1>3, MaterializerAssumption
  <2> QED  BY <1>2, <2>1, <2>2 DEF WritesInv, QueueSane
<1>5. SUFFICES ASSUME ~overlapped PROVE (OneAtATime /\ Unwritten /\ NewFile /\ Counted)'
  BY <1>2, <1>4 DEF WritesInv
<1>6. /\ QueueSane /\ OneAtATime /\ Unwritten /\ NewFile /\ Counted
      /\ \A d \in Drain : drain[d].rows # {} => Row1(d) \in DOMAIN queue
  BY <1>5, RowFirst DEF WritesInv
<1>7. OneAtATime' /\ Unwritten'
  BY <1>2, <1>3, <1>6 DEF OneAtATime, Unwritten, QueueSane
<1>8. NewFile'
  BY <1>2, <1>3, <1>6 DEF NewFile, At, Row1, Creates, Dest
<1>9. ASSUME NEW w \in DOMAIN queue' \ unmarked'
      PROVE  IF Written(w)' THEN \E i \in Occurs(w)' : Occurs(w)' = {i} ELSE Occurs(w)' = {}
  <2>1. CASE w \in DOMAIN queue
    <3>1. (Written(w)' <=> Written(w)) /\ Occurs(w)' = Occurs(w)
      BY <1>2, <1>3, <2>1 DEF Written, Occurs, At, Row1
    <3> QED  BY <1>2, <1>6, <2>1, <3>1 DEF Counted
  <2>2. CASE w \notin DOMAIN queue
    <3>1. w = n
      BY <1>2, <1>3, <2>2
    <3>2. ~Written(w)'
      BY <1>2, <1>3, <1>6, <2>2, <3>1 DEF Written, At, Row1
    <3>3. Occurs(w)' = {}
      BY <1>2, <1>3, <1>6, <2>2, <3>1 DEF Occurs, QueueSane
    <3> QED  BY <3>2, <3>3
  <2> QED  BY <2>1, <2>2
<1> QED  BY <1>7, <1>8, <1>9 DEF Counted

LEMMA QuoteStep ==
    ASSUME WritesInv, NEW w \in DOMAIN queue, MarkQuotes(w) PROVE WritesInv'
<1>1. /\ UNCHANGED <<queue, disk, drain, overlapped, unmarked, mishaps>>
      /\ flagged' \subseteq flagged \cup {w}
  BY DEF MarkQuotes
<1>2. QueueSane'
  BY <1>1 DEF WritesInv, QueueSane, MaterializerTypeOK
<1>3. OneAtATime => OneAtATime'
  BY <1>1 DEF OneAtATime, Idle
<1>4. Unwritten /\ NewFile => Unwritten' /\ NewFile'
  BY <1>1 DEF Unwritten, NewFile, At, Row1, Creates, Dest
<1>5. Counted => Counted'
  BY <1>1 DEF Counted, Written, Occurs, At, Row1
<1> QED  BY <1>1, <1>2, <1>3, <1>4, <1>5 DEF WritesInv

LEMMA StartStep ==
    ASSUME WritesInv, NEW d \in Drain, StartDrain(d) PROVE WritesInv'
<1>1. /\ drain[d] = Idle /\ drain' = [drain EXCEPT ![d].rows = Selected]
      /\ overlapped' = (overlapped \/ \E e \in Drain \ {d} : drain[e] # Idle)
      /\ UNCHANGED <<queue, flagged, disk, unmarked, mishaps>>
  BY DEF StartDrain
<1>2. Selected \subseteq PendingWrites /\ Selected # {}
  BY DEF Selected, StartDrain
<1>3. Selected \in SUBSET (1 .. Writes) /\ Selected \subseteq DOMAIN queue
  BY <1>2, MaterializerAssumption DEF PendingWrites, WritesInv, QueueSane, MaterializerTypeOK
<1>4. /\ drain' \in [Drain -> [rows : SUBSET (1 .. Writes), step : {"look", "write", "mark"}]]
      /\ drain'[d] = [rows |-> Selected, step |-> "look"]
      /\ \A e \in Drain \ {d} : drain'[e] = drain[e]
  BY <1>1, <1>3 DEF WritesInv, QueueSane, MaterializerTypeOK, Idle
<1>5. QueueSane'
  <2>1. MaterializerTypeOK'
    BY <1>1, <1>4 DEF WritesInv, QueueSane, MaterializerTypeOK
  <2> QED  BY <1>1, <1>2, <1>3, <1>4, <2>1 DEF WritesInv, QueueSane
<1>6. SUFFICES ASSUME ~overlapped' PROVE (OneAtATime /\ Unwritten /\ NewFile /\ Counted)'
  BY <1>5 DEF WritesInv
<1>7. /\ OneAtATime /\ Unwritten /\ NewFile /\ Counted
      /\ \A e \in Drain : drain[e] = Idle
      /\ \A e \in Drain \ {d} : drain'[e] = Idle
  BY <1>1, <1>4, <1>6 DEF WritesInv
<1>8. \A e \in Drain : ~At(e, "write")' /\ ~At(e, "mark")' /\ ~At(e, "mark")
  BY <1>4, <1>7 DEF At, Idle
<1>9. OneAtATime' /\ Unwritten' /\ NewFile'
  BY <1>1, <1>2, <1>4, <1>7, <1>8 DEF OneAtATime, Unwritten, NewFile, PendingWrites, Idle
<1>10. \A w : (Written(w)' <=> Written(w)) /\ Occurs(w)' = Occurs(w)
  BY <1>1, <1>8 DEF Written, Occurs
<1> QED  BY <1>1, <1>7, <1>9, <1>10 DEF Counted

\* The row is given up: refused, or its mark lost, or the drain killed.
LEMMA GiveUpStep ==
    ASSUME WritesInv, QueueSane', NEW d \in Drain, drain[d].rows # {},
           UNCHANGED <<queue, disk, overlapped>>,
           \A e \in Drain \ {d} : drain'[e] = drain[e],
           drain'[d].rows \subseteq drain[d].rows, drain'[d].step = "look",
           unmarked \subseteq unmarked', At(d, "mark") => Row1(d) \in unmarked'
    PROVE  WritesInv'
<1> SUFFICES ASSUME ~overlapped PROVE (OneAtATime /\ Unwritten /\ NewFile /\ Counted)'
  BY DEF WritesInv
<1>1. QueueSane /\ OneAtATime /\ Unwritten /\ NewFile /\ Counted
  BY DEF WritesInv
<1>2. /\ OneAtATime' /\ \A e \in Drain \ {d} : drain'[e] = Idle
      /\ \A w : Written(w) <=> queue[w].marked \/ (At(d, "mark") /\ Row1(d) = w)
      /\ \A w : Written(w)' <=> queue'[w].marked \/ (At(d, "mark")' /\ Row1(d)' = w)
  BY <1>1, OnlyOne
<1>3. ~At(d, "mark")' /\ ~At(d, "write")'
  BY DEF At
<1>4. Unwritten'
  BY <1>1, <1>2 DEF Unwritten, Idle
<1>5. NewFile'
  BY <1>2, <1>3 DEF NewFile, At, Idle
<1>6. \A w \in DOMAIN queue' \ unmarked' : (Written(w)' <=> Written(w)) /\ Occurs(w)' = Occurs(w)
  BY <1>2, <1>3 DEF Occurs
<1> QED  BY <1>1, <1>2, <1>4, <1>5, <1>6 DEF Counted

LEMMA RefuseStep ==
    ASSUME WritesInv, NEW d \in Drain, Refuse(d) \/ MarkLost(d) \/ KillDrain(d)
    PROVE  WritesInv'
<1>1. /\ UNCHANGED <<queue, flagged, disk, overlapped>>
      /\ mishaps' \in 0 .. Mishaps
  BY MaterializerAssumption
     DEF Refuse, MarkLost, KillDrain, WritesInv, QueueSane, MaterializerTypeOK
<1>2. QueueSane /\ MaterializerTypeOK
  BY DEF WritesInv, QueueSane
<1>3. drain[d].rows # {}
  BY <1>2 DEF Refuse, MarkLost, KillDrain, At, Idle, QueueSane, MaterializerTypeOK
<1>4. /\ unmarked \subseteq unmarked'
      /\ At(d, "mark") => Row1(d) \in unmarked'
      /\ unmarked' \subseteq unmarked \cup {Row1(d)}
  BY DEF Refuse, MarkLost, KillDrain, At
<1>5. /\ drain' \in [Drain -> [rows : SUBSET (1 .. Writes), step : {"look", "write", "mark"}]]
      /\ drain'[d].rows \subseteq drain[d].rows /\ drain'[d].step = "look"
      /\ \A e \in Drain \ {d} : drain'[e] = drain[e]
  <2>1. CASE NextRow(d)
    <3>1. /\ drain' \in [Drain -> [rows : SUBSET (1 .. Writes), step : {"look", "write", "mark"}]]
          /\ drain'[d] = [rows |-> drain[d].rows \ {Row1(d)}, step |-> "look"]
          /\ \A e \in Drain \ {d} : drain'[e] = drain[e]
      BY <1>2, <1>3, <2>1, NextRowEffect
    <3> QED  BY <3>1
  <2>2. CASE KillDrain(d)
    <3>1. drain' = [drain EXCEPT ![d] = Idle]
      BY <2>2 DEF KillDrain
    <3> QED  BY <1>2, <3>1 DEF MaterializerTypeOK, Idle
  <2> QED  BY <2>1, <2>2 DEF Refuse, MarkLost
<1>6. Row1(d) \in DOMAIN queue
  BY <1>2, <1>3, RowFirst
<1>7. MaterializerTypeOK'
  BY <1>1, <1>2, <1>4, <1>5, <1>6 DEF MaterializerTypeOK
<1>8. QueueSane'
  BY <1>1, <1>2, <1>5, <1>7 DEF QueueSane
<1>9. UNCHANGED <<queue, disk, overlapped>>
  BY <1>1
<1> QED  BY <1>3, <1>4, <1>5, <1>8, <1>9, GiveUpStep

LEMMA LookStep == ASSUME WritesInv, NEW d \in Drain, Look(d) PROVE WritesInv'
<1>1. /\ drain[d].rows # {} /\ drain[d].step = "look" /\ ~Refused(d)
      /\ drain' = [drain EXCEPT ![d].step = "write"]
      /\ UNCHANGED <<queue, flagged, disk, overlapped, unmarked, mishaps>>
  BY DEF Look, At
<1>2. /\ drain' \in [Drain -> [rows : SUBSET (1 .. Writes), step : {"look", "write", "mark"}]]
      /\ drain'[d].rows = drain[d].rows /\ drain'[d].step = "write"
      /\ \A e \in Drain \ {d} : drain'[e] = drain[e]
  BY <1>1 DEF WritesInv, QueueSane, MaterializerTypeOK
<1>3. QueueSane'
  <2>1. MaterializerTypeOK'
    BY <1>1, <1>2 DEF WritesInv, QueueSane, MaterializerTypeOK
  <2> QED  BY <1>1, <1>2, <2>1 DEF WritesInv, QueueSane
<1> SUFFICES ASSUME ~overlapped PROVE (OneAtATime /\ Unwritten /\ NewFile /\ Counted)'
  BY <1>1, <1>3 DEF WritesInv
<1>4. QueueSane /\ OneAtATime /\ Unwritten /\ NewFile /\ Counted
  BY DEF WritesInv
<1>5. /\ OneAtATime' /\ \A e \in Drain \ {d} : drain'[e] = Idle
      /\ \A w : Written(w) <=> queue[w].marked \/ (At(d, "mark") /\ Row1(d) = w)
      /\ \A w : Written(w)' <=> queue'[w].marked \/ (At(d, "mark")' /\ Row1(d)' = w)
  BY <1>1, <1>2, <1>4, OnlyOne
<1>6. ~At(d, "mark") /\ ~At(d, "mark")'
  BY <1>1, <1>2 DEF At
<1>7. Unwritten'
  BY <1>1, <1>2, <1>4, <1>5 DEF Unwritten, Idle
<1>8. NewFile'
  BY <1>1, <1>2, <1>5 DEF NewFile, At, Idle, Refused, Creates, Dest, Row1
<1>9. \A w : (Written(w)' <=> Written(w)) /\ Occurs(w)' = Occurs(w)
  BY <1>1, <1>5, <1>6 DEF Occurs
<1> QED  BY <1>1, <1>4, <1>5, <1>7, <1>8, <1>9 DEF Counted

LEMMA MarkStep == ASSUME WritesInv, NEW d \in Drain, MarkWritten(d) PROVE WritesInv'
<1> DEFINE n == Row1(d)
<1>1. /\ At(d, "mark") /\ drain[d].rows # {} /\ NextRow(d)
      /\ queue' = [queue EXCEPT ![n].marked = TRUE]
      /\ UNCHANGED <<flagged, disk, overlapped, unmarked, mishaps>>
  BY DEF MarkWritten, At
<1>2. QueueSane /\ MaterializerTypeOK /\ n \in DOMAIN queue
  BY <1>1, RowFirst DEF WritesInv, QueueSane
<1>3. /\ drain' \in [Drain -> [rows : SUBSET (1 .. Writes), step : {"look", "write", "mark"}]]
      /\ drain'[d] = [rows |-> drain[d].rows \ {n}, step |-> "look"]
      /\ \A e \in Drain \ {d} : drain'[e] = drain[e]
      /\ \A e \in Drain : /\ drain'[e].rows \subseteq drain[e].rows
                          /\ drain'[e].rows = {} => drain'[e].step = "look"
  BY <1>1, <1>2, NextRowEffect
<1>4. /\ queue' \in Seq([path : Target, mode : {"create", "append"}, marked : BOOLEAN])
      /\ Len(queue') = Len(queue) /\ DOMAIN queue' = DOMAIN queue
      /\ queue'[n].marked
      /\ \A w \in DOMAIN queue : queue'[w].path = queue[w].path
      /\ \A w \in DOMAIN queue \ {n} : queue'[w] = queue[w]
  <2> DEFINE R == [path : Target, mode : {"create", "append"}, marked : BOOLEAN]
  <2>1. queue \in Seq(R) /\ queue[n] \in R
    BY <1>1, <1>2, RowFirst, Zenon DEF MaterializerTypeOK
  <2>2. queue' = [queue EXCEPT ![n] = [queue[n] EXCEPT !.marked = TRUE]]
    BY <1>1
  <2>3. [queue[n] EXCEPT !.marked = TRUE] \in R
    BY <2>1
  <2>4. [queue[n] EXCEPT !.marked = TRUE].marked /\ [queue[n] EXCEPT !.marked = TRUE].path = queue[n].path
    BY <2>1
  <2> HIDE DEF R, n
  <2> QED  BY <1>2, <2>1, <2>2, <2>3, <2>4 DEF R
<1>5. QueueSane'
  <2>1. MaterializerTypeOK'
    BY <1>1, <1>2, <1>3, <1>4 DEF MaterializerTypeOK
  <2> QED  BY <1>1, <1>2, <1>3, <1>4, <2>1 DEF QueueSane
<1> SUFFICES ASSUME ~overlapped PROVE (OneAtATime /\ Unwritten /\ NewFile /\ Counted)'
  BY <1>1, <1>5 DEF WritesInv
<1>6. OneAtATime /\ Unwritten /\ NewFile /\ Counted
  BY DEF WritesInv
<1>7. /\ OneAtATime' /\ \A e \in Drain \ {d} : drain'[e] = Idle
      /\ \A w : Written(w) <=> queue[w].marked \/ (At(d, "mark") /\ Row1(d) = w)
      /\ \A w : Written(w)' <=> queue'[w].marked \/ (At(d, "mark")' /\ Row1(d)' = w)
  BY <1>1, <1>2, <1>3, <1>6, OnlyOne
<1>8. ~At(d, "mark")' /\ ~At(d, "write")'
  BY <1>3 DEF At
<1>9. Unwritten'
  <2>1. \A e \in Drain \ {d} : drain'[e].rows = {}
    BY <1>7 DEF Idle
  <2>2. \A w \in drain'[d].rows : w # n /\ w \in DOMAIN queue /\ ~queue[w].marked
    BY <1>2, <1>3, <1>6 DEF Unwritten, QueueSane
  <2> QED  BY <1>4, <2>1, <2>2 DEF Unwritten
<1>10. NewFile'
  BY <1>7, <1>8 DEF NewFile, At, Idle
<1>11. \A w \in DOMAIN queue : Written(w)' <=> Written(w)
  BY <1>1, <1>2, <1>4, <1>7, <1>8
<1>12. \A w \in DOMAIN queue : Occurs(w)' = Occurs(w)
  BY <1>1, <1>4 DEF Occurs
<1> QED  BY <1>1, <1>4, <1>6, <1>7, <1>9, <1>10, <1>11, <1>12 DEF Counted

\* A step of d on its file p, whose text becomes t.
LEMMA DiskEffect ==
    ASSUME WritesInv, NEW d \in Drain, drain[d].rows # {}, NEW t \in Seq(1 .. Writes),
           disk' = [disk EXCEPT ![Dest(d)] = [there |-> TRUE, text |-> t]],
           \A i \in DOMAIN t : t[i] \in DOMAIN queue,
           UNCHANGED <<queue, flagged, overlapped, unmarked>>, mishaps' \in 0 .. Mishaps,
           drain' \in [Drain -> [rows : SUBSET (1 .. Writes), step : {"look", "write", "mark"}]],
           \A e \in Drain : drain'[e].rows \subseteq drain[e].rows,
           \A e \in Drain : drain'[e].rows = {} => drain'[e].step = "look"
    PROVE  /\ QueueSane' /\ disk'[Dest(d)] = [there |-> TRUE, text |-> t]
           /\ \A p \in Target \ {Dest(d)} : disk'[p] = disk[p]
<1>1. QueueSane /\ MaterializerTypeOK /\ Dest(d) \in Target
  BY RowFirst DEF WritesInv, QueueSane
<1>2. disk \in [Target -> [there : BOOLEAN, text : Seq(1 .. Writes)]]
  BY <1>1 DEF MaterializerTypeOK
<1>3. [there |-> TRUE, text |-> t] \in [there : BOOLEAN, text : Seq(1 .. Writes)]
  OBVIOUS
<1>4. disk' \in [Target -> [there : BOOLEAN, text : Seq(1 .. Writes)]]
  BY <1>2, <1>3
<1>5. /\ disk'[Dest(d)] = [there |-> TRUE, text |-> t]
      /\ \A p \in Target \ {Dest(d)} : disk'[p] = disk[p]
  BY <1>1, <1>2
<1>6. MaterializerTypeOK'
  BY <1>1, <1>4 DEF MaterializerTypeOK
<1>7. ASSUME NEW p \in Target
      PROVE  /\ \A i \in DOMAIN disk'[p].text : disk'[p].text[i] \in DOMAIN queue'
             /\ ~disk'[p].there => disk'[p].text = <<>>
  <2>1. CASE p = Dest(d)
    BY <1>5, <2>1
  <2>2. CASE p # Dest(d)
    BY <1>1, <1>5, <2>2 DEF QueueSane
  <2> QED  BY <2>1, <2>2
<1>8. \A e \in Drain : drain'[e].rows \subseteq DOMAIN queue'
  BY <1>1 DEF QueueSane
<1>9. Len(queue') <= Writes
  BY <1>1 DEF QueueSane
<1> QED  BY <1>5, <1>6, <1>7, <1>8, <1>9 DEF QueueSane

LEMMA WriteStep == ASSUME WritesInv, NEW d \in Drain, WriteText(d) PROVE WritesInv'
<1> DEFINE n == Row1(d)
           p == Dest(d)
           t == IF Creates(d) THEN <<n>> ELSE Append(disk[p].text, n)
<1>1. /\ At(d, "write") /\ drain[d].rows # {} /\ drain[d].step = "write"
      /\ disk' = [disk EXCEPT ![p] = [there |-> TRUE, text |-> t]]
      /\ drain' = [drain EXCEPT ![d].step = "mark"]
      /\ UNCHANGED <<queue, flagged, overlapped, unmarked, mishaps>>
  BY DEF WriteText, At
<1>2. /\ QueueSane /\ MaterializerTypeOK
      /\ n \in drain[d].rows /\ n \in DOMAIN queue /\ n \in 1 .. Writes /\ p \in Target
      /\ queue[n].path = p
  BY <1>1, RowFirst DEF WritesInv, QueueSane, Dest
<1>3. disk[p].text \in Seq(1 .. Writes) /\ \A i \in DOMAIN disk[p].text : disk[p].text[i] \in DOMAIN queue
  BY <1>2 DEF QueueSane, MaterializerTypeOK
<1>4. t \in Seq(1 .. Writes) /\ \A i \in DOMAIN t : t[i] \in DOMAIN queue
  <2>1. CASE Creates(d)
    BY <1>2, <2>1
  <2>2. CASE ~Creates(d)
    <3> DEFINE x == disk[p].text
    <3>1. x \in Seq(1 .. Writes) /\ (\A i \in DOMAIN x : x[i] \in DOMAIN queue) /\ t = Append(x, n)
      BY <1>3, <2>2
    <3> HIDE DEF x, n, t
    <3> QED  BY <1>2, <3>1
  <2> QED  BY <2>1, <2>2
<1>5. /\ drain' \in [Drain -> [rows : SUBSET (1 .. Writes), step : {"look", "write", "mark"}]]
      /\ drain'[d].rows = drain[d].rows /\ drain'[d].step = "mark"
      /\ \A e \in Drain \ {d} : drain'[e] = drain[e]
  BY <1>1, <1>2 DEF MaterializerTypeOK
<1>6. /\ \A e \in Drain : drain'[e].rows \subseteq drain[e].rows
      /\ \A e \in Drain : drain'[e].rows = {} => drain'[e].step = "look"
  BY <1>1, <1>2, <1>5 DEF QueueSane
<1>7. UNCHANGED <<queue, flagged, overlapped, unmarked>> /\ mishaps' \in 0 .. Mishaps
  BY <1>1, <1>2 DEF MaterializerTypeOK
<1> HIDE DEF t
<1>8. /\ QueueSane' /\ disk'[p] = [there |-> TRUE, text |-> t]
      /\ \A q \in Target \ {p} : disk'[q] = disk[q]
  BY <1>1, <1>4, <1>5, <1>6, <1>7, DiskEffect
<1> SUFFICES ASSUME ~overlapped PROVE (OneAtATime /\ Unwritten /\ NewFile /\ Counted)'
  BY <1>1, <1>8 DEF WritesInv
<1>9. OneAtATime /\ Unwritten /\ NewFile /\ Counted
  BY DEF WritesInv
<1>10. /\ OneAtATime' /\ \A e \in Drain \ {d} : drain'[e] = Idle
       /\ \A w : Written(w) <=> queue[w].marked \/ (At(d, "mark") /\ Row1(d) = w)
       /\ \A w : Written(w)' <=> queue'[w].marked \/ (At(d, "mark")' /\ Row1(d)' = w)
  BY <1>1, <1>2, <1>5, <1>9, OnlyOne
<1>11. ~At(d, "mark") /\ At(d, "mark")' /\ ~At(d, "write")' /\ Row1(d)' = n
  BY <1>1, <1>5 DEF At, Row1
<1>12. Unwritten'
  BY <1>1, <1>5, <1>9, <1>10 DEF Unwritten, Idle
<1>13. NewFile'
  BY <1>10, <1>11 DEF NewFile, At, Idle
<1>14. t = Append(disk[p].text, n)
  <2>1. CASE Creates(d)
    <3>1. disk[p].text = <<>>
      BY <1>1, <1>2, <1>9, <2>1 DEF NewFile, QueueSane
    <3> QED  BY <2>1, <3>1 DEF t
  <2>2. CASE ~Creates(d)
    BY <2>2 DEF t
  <2> QED  BY <2>1, <2>2
<1>15. ~queue[n].marked /\ ~Written(n)
  BY <1>1, <1>2, <1>9, <1>10, <1>11 DEF Unwritten
<1>16. ASSUME NEW w \in DOMAIN queue' \ unmarked'
       PROVE  IF Written(w)' THEN \E i \in Occurs(w)' : Occurs(w)' = {i} ELSE Occurs(w)' = {}
  <2> DEFINE x == disk[p].text
             k == Len(x) + 1
  <2>1. x \in Seq(1 .. Writes) /\ disk'[p].text = Append(x, n)
    BY <1>3, <1>8, <1>14
  <2> HIDE DEF x
  <2>2. /\ DOMAIN x = 1 .. Len(x) /\ DOMAIN Append(x, n) = 1 .. k /\ Len(x) \in Nat
        /\ \A i \in DOMAIN x : Append(x, n)[i] = x[i]
        /\ Append(x, n)[k] = n
    BY <1>2, <2>1
  <2>3. w \in DOMAIN queue \ unmarked /\ queue[w].path \in Target
    BY <1>1, <1>2, RowTyped
  <2>4. CASE w = n
    <3>1. Occurs(w) = {} /\ Occurs(w) = {i \in DOMAIN x : x[i] = w}
      BY <1>2, <1>9, <1>15, <2>3, <2>4 DEF Counted, Occurs, x
    <3>2. Occurs(w)' = {i \in DOMAIN Append(x, n) : Append(x, n)[i] = w}
      BY <1>1, <1>2, <2>1, <2>4 DEF Occurs
    <3>3. Occurs(w)' = {k}
      BY <2>2, <2>4, <3>1, <3>2
    <3>4. Written(w)'
      BY <1>10, <1>11, <2>4
    <3> QED  BY <3>3, <3>4
  <2>5. CASE w # n
    <3>1. Written(w)' <=> Written(w)
      BY <1>1, <1>10, <1>11, <2>5
    <3>2. Occurs(w)' = Occurs(w)
      <4>1. CASE queue[w].path = p
        <5>1. Occurs(w) = {i \in DOMAIN x : x[i] = w}
          BY <4>1 DEF Occurs, x
        <5>2. Occurs(w)' = {i \in DOMAIN Append(x, n) : Append(x, n)[i] = w}
          BY <1>1, <2>1, <4>1 DEF Occurs
        <5> QED  BY <2>2, <2>5, <5>1, <5>2
      <4>2. CASE queue[w].path # p
        BY <1>1, <1>8, <2>3, <4>2 DEF Occurs
      <4> QED  BY <4>1, <4>2
    <3> QED  BY <1>9, <2>3, <3>1, <3>2 DEF Counted
  <2> QED  BY <2>4, <2>5
<1> QED  BY <1>10, <1>12, <1>13, <1>16 DEF Counted

LEMMA WriteFailsStep == ASSUME WritesInv, NEW d \in Drain, WriteTextFails(d) PROVE WritesInv'
<1> DEFINE p == Dest(d)
           t == IF Creates(d) THEN <<>> ELSE disk[p].text
<1>1. /\ At(d, "write") /\ drain[d].rows # {} /\ drain[d].step = "write" /\ NextRow(d)
      /\ disk' = [disk EXCEPT ![p] = [there |-> TRUE, text |-> t]]
      /\ mishaps < Mishaps /\ mishaps' = mishaps + 1
      /\ UNCHANGED <<queue, flagged, overlapped, unmarked>>
  BY DEF WriteTextFails, At
<1>2. /\ QueueSane /\ MaterializerTypeOK
      /\ Row1(d) \in drain[d].rows /\ Row1(d) \in DOMAIN queue /\ p \in Target
  BY <1>1, RowFirst DEF WritesInv, QueueSane
<1>3. disk[p].text \in Seq(1 .. Writes) /\ \A i \in DOMAIN disk[p].text : disk[p].text[i] \in DOMAIN queue
  BY <1>2 DEF QueueSane, MaterializerTypeOK
<1>4. t \in Seq(1 .. Writes) /\ \A i \in DOMAIN t : t[i] \in DOMAIN queue
  <2>1. CASE Creates(d)
    <3>1. t = <<>> /\ <<>> \in Seq(1 .. Writes) /\ DOMAIN <<>> = {}
      BY <2>1
    <3> HIDE DEF t
    <3> QED  BY <3>1
  <2>2. CASE ~Creates(d)
    <3>1. t = disk[p].text
      BY <2>2
    <3> HIDE DEF t
    <3> QED  BY <1>3, <3>1
  <2> QED  BY <2>1, <2>2
<1>5. disk' = [disk EXCEPT ![p] = [there |-> TRUE, text |-> t]]
  BY <1>1
<1>6. /\ drain' \in [Drain -> [rows : SUBSET (1 .. Writes), step : {"look", "write", "mark"}]]
      /\ drain'[d] = [rows |-> drain[d].rows \ {Row1(d)}, step |-> "look"]
      /\ \A e \in Drain \ {d} : drain'[e] = drain[e]
      /\ \A e \in Drain : drain'[e].rows \subseteq drain[e].rows
      /\ \A e \in Drain : drain'[e].rows = {} => drain'[e].step = "look"
  BY <1>1, <1>2, NextRowEffect
<1>7. UNCHANGED <<queue, flagged, overlapped, unmarked>> /\ mishaps' \in 0 .. Mishaps
  BY <1>1, <1>2, MaterializerAssumption DEF MaterializerTypeOK
<1> HIDE DEF t
<1>8. /\ QueueSane' /\ disk'[p] = [there |-> TRUE, text |-> t]
      /\ \A q \in Target \ {p} : disk'[q] = disk[q]
  BY <1>1, <1>4, <1>5, <1>6, <1>7, DiskEffect
<1> SUFFICES ASSUME ~overlapped PROVE (OneAtATime /\ Unwritten /\ NewFile /\ Counted)'
  BY <1>1, <1>8 DEF WritesInv
<1>9. OneAtATime /\ Unwritten /\ NewFile /\ Counted
  BY DEF WritesInv
<1>10. /\ OneAtATime' /\ \A e \in Drain \ {d} : drain'[e] = Idle
       /\ \A w : Written(w) <=> queue[w].marked \/ (At(d, "mark") /\ Row1(d) = w)
       /\ \A w : Written(w)' <=> queue'[w].marked \/ (At(d, "mark")' /\ Row1(d)' = w)
  BY <1>1, <1>2, <1>6, <1>9, OnlyOne
<1>11. ~At(d, "mark") /\ ~At(d, "mark")' /\ ~At(d, "write")'
  BY <1>1, <1>6 DEF At
<1>12. Unwritten'
  BY <1>1, <1>6, <1>9, <1>10 DEF Unwritten, Idle
<1>13. NewFile'
  BY <1>10, <1>11 DEF NewFile, At, Idle
<1>14. t = disk[p].text
  BY <1>1, <1>2, <1>9 DEF NewFile, QueueSane, t
<1>15. ASSUME NEW w \in DOMAIN queue PROVE (Written(w)' <=> Written(w)) /\ Occurs(w)' = Occurs(w)
  <2>1. queue[w].path \in Target
    BY <1>2, RowTyped
  <2>2. disk'[queue[w].path].text = disk[queue[w].path].text
    BY <1>8, <1>14, <2>1
  <2> QED  BY <1>1, <1>10, <1>11, <2>2 DEF Occurs
<1> QED  BY <1>1, <1>9, <1>10, <1>12, <1>13, <1>15 DEF Counted

LEMMA WritesStep == WritesInv /\ [MaterializerNext]_materializerVars => WritesInv'
<1> SUFFICES ASSUME WritesInv, [MaterializerNext]_materializerVars PROVE WritesInv'
  OBVIOUS
<1>1. CASE UNCHANGED materializerVars
  <2>1. UNCHANGED <<queue, flagged, disk, drain, overlapped, unmarked, mishaps>>
    BY <1>1 DEF materializerVars
  <2>2. QueueSane'
    BY <2>1 DEF WritesInv, QueueSane, MaterializerTypeOK
  <2> QED
    BY <2>1, <2>2 DEF WritesInv, OneAtATime, Unwritten, NewFile, Counted, Written, Occurs, Idle,
                      At, Row1, Creates, Dest
<1> QED
  BY <1>1, RequestStep, QuoteStep, StartStep, RefuseStep, LookStep, WriteStep, WriteFailsStep,
     MarkStep DEF MaterializerNext

\* A row marked as written is in its file exactly once, whatever failed in
\* between and whichever rows share the file: unless two drains ran at once,
\* or the row was once written and not marked.
THEOREM WritesHappenOnce == MaterializerSpec => []WrittenOnce
<1>1. WritesInv => WrittenOnce
  <2> SUFFICES ASSUME WritesInv, ~overlapped, NEW w \in DOMAIN queue \ unmarked, queue[w].marked
               PROVE  Times(w) = 1
    BY DEF WrittenOnce
  <2>1. PICK i \in Occurs(w) : Occurs(w) = {i}
    BY DEF WritesInv, Counted, Written
  <2>2. Cardinality({i}) = 1
    BY FS_Singleton
  <2> QED  BY <2>1, <2>2 DEF Times, Occurs
<1> QED  BY <1>1, WritesStart, WritesStep, PTL DEF MaterializerSpec

LEMMA MaterializerTypes == MaterializerSpec => []MaterializerTypeOK
<1>1. WritesInv => MaterializerTypeOK
  BY DEF WritesInv, QueueSane
<1> QED  BY <1>1, WritesStart, WritesStep, PTL DEF MaterializerSpec

----------------------------------------------------------------------------
(* Drops: every variable has its type, for any files, bodies and troubles. *)

\* A scan is of files and keys, and its record changes one field at a time.
LEMMA WalkOn ==
    ASSUME DropsTypeOK, NEW p
    PROVE  [walk EXCEPT !.files = @ \ {p}] \in [files : SUBSET Dropped, known : SUBSET Keys, errors : SUBSET Keys]
<1>1. walk \in [files : SUBSET Dropped, known : SUBSET Keys, errors : SUBSET Keys]
  BY DEF DropsTypeOK
<1> QED  BY <1>1

LEMMA ScanTypes == ASSUME DropsTypeOK, LoadLedger \/ Reconcile PROVE DropsTypeOK'
<1>1. AtRest \in [files : SUBSET Dropped, known : SUBSET Keys, errors : SUBSET Keys]
  BY DEF AtRest
<1>2. \A s : Recorded(s) \subseteq Keys
  BY DEF Recorded
<1>3. CASE LoadLedger
  BY <1>2, <1>3 DEF LoadLedger, DropsTypeOK
<1>4. CASE Reconcile
  <2>1. entry' \in [Keys -> {"none", "ingested", "error"}]
    BY <1>4 DEF Reconcile, DropsTypeOK
  <2> QED  BY <1>1, <1>4, <2>1 DEF Reconcile, DropsTypeOK
<1> QED  BY <1>3, <1>4

LEMMA ReadTypes == ASSUME DropsTypeOK, NEW p \in Dropped, ReadDrop(p) PROVE DropsTypeOK'
<1>1. ~PassOver(p) => Key(p) \in Keys
  BY DEF DropsTypeOK, PassOver, Key, Keys
<1>2. PICK q : /\ walk' \in {walk, [walk EXCEPT !.files = @ \ {q}]}
               /\ shipped' \in Keys \cup {NotShipped} /\ attempted' \subseteq Keys
  BY <1>1 DEF ReadDrop, DropsTypeOK
<1>3. walk' \in [files : SUBSET Dropped, known : SUBSET Keys, errors : SUBSET Keys]
  BY <1>2, WalkOn DEF DropsTypeOK
<1> QED  BY <1>2, <1>3 DEF ReadDrop, DropsTypeOK

LEMMA ShipTypes ==
    ASSUME DropsTypeOK, NEW k \in Keys, Ingest(k) \/ IngestErrs(k) \/ CallLost(k)
    PROVE  DropsTypeOK'
<1>1. /\ walk' \in [files : SUBSET Dropped, known : SUBSET Keys, errors : SUBSET Keys]
      /\ shipped' \in Keys \cup {NotShipped} /\ UNCHANGED <<held, attempted, before, returned>>
  BY WalkOn DEF Ingest, IngestErrs, CallLost, Ships
<1>2. k[1] \in Dropped /\ k[2] \in Content
  BY DEF Keys
<1>3. /\ entry' \in [Keys -> {"none", "ingested", "error"}]
      /\ extract' \in [Keys -> {"none", "runs", "done", "failed"}]
      /\ pooled' \in [Text -> Content \cup {Gone}]
  <2>1. CASE Ingest(k)
    <3>1. \/ UNCHANGED <<pooled, extract>>
          \/ k[1] \in Text /\ pooled' = [pooled EXCEPT ![k[1]] = k[2]] /\ UNCHANGED extract
          \/ extract' = [extract EXCEPT ![k] = "runs"] /\ UNCHANGED pooled
      BY <2>1 DEF Ingest
    <3> QED  BY <1>2, <2>1, <3>1 DEF Ingest, DropsTypeOK
  <2>2. CASE IngestErrs(k) \/ CallLost(k)
    BY <2>2 DEF IngestErrs, CallLost, DropsTypeOK
  <2> QED  BY <2>1, <2>2
<1> QED  BY <1>1, <1>3 DEF DropsTypeOK

LEMMA FileTypes ==
    ASSUME DropsTypeOK, NEW p \in Dropped, TakeFile(p) \/ \E b \in Content : PutFile(p, b)
    PROVE  DropsTypeOK'
<1>1. CASE TakeFile(p)
  BY <1>1 DEF TakeFile, DropsTypeOK
<1>2. ASSUME NEW b \in Content, PutFile(p, b) PROVE DropsTypeOK'
  <2>1. /\ held' \in [Dropped -> Content \cup {Gone}] /\ before' \in [Dropped -> SUBSET Content]
        /\ returned' \subseteq Dropped
    BY <1>2 DEF PutFile, DropsTypeOK
  <2> QED  BY <1>2, <2>1 DEF PutFile, DropsTypeOK
<1> QED  BY <1>1, <1>2

LEMMA DropsTypes == DropsSpec => []DropsTypeOK
<1>1. DropsInit => DropsTypeOK
  BY DEF DropsInit, DropsTypeOK, AtRest
<1>2. DropsTypeOK /\ [DropsNext]_dropsVars => DropsTypeOK'
  <2> SUFFICES ASSUME DropsTypeOK, [DropsNext]_dropsVars PROVE DropsTypeOK'
    OBVIOUS
  <2>1. ASSUME NEW k \in Keys, ExtractEnds(k) PROVE DropsTypeOK'
    BY <2>1 DEF ExtractEnds, DropsTypeOK
  <2>2. CASE RestartWatcher
    BY <2>2 DEF RestartWatcher, DropsTypeOK, AtRest
  <2>3. CASE UNCHANGED dropsVars
    BY <2>3 DEF dropsVars, DropsTypeOK
  <2> QED  BY <2>1, <2>2, <2>3, ScanTypes, ReadTypes, ShipTypes, FileTypes DEF DropsNext, Scan
<1> QED  BY <1>1, <1>2, PTL DEF DropsSpec

----------------------------------------------------------------------------
(* Workspace: no body which workspace_writeback took is ever lost, for any
   number of edits, row updates, failures, restarts and resolutions. *)

\* The bodies that rows have or had. They only become more.
RowBodies == archive \cup {row[r].body : r \in Row}

Job == [do : {"nothing", "project", "delete", "orphan"}, row : Row \cup {Nobody},
        path : Path \cup {Nobody}, body : Body, at : Nat]

LEMMA FirstBodies == {0, 1} \subseteq Body
BY WorkspaceAssumption DEF Body

\* There is a new body for every edit that is left.
Supply ==
    /\ rowEdits \in 0 .. RowEdits /\ events \in 0 .. Events
    /\ fresh \in Nat /\ fresh <= 2 + rowEdits + events

LEMMA SupplyLasts ==
    ASSUME Supply,
           \/ events < Events /\ events' = events + 1 /\ UNCHANGED rowEdits
           \/ rowEdits < RowEdits /\ rowEdits' = rowEdits + 1 /\ UNCHANGED events,
           fresh' = fresh \/ fresh' = fresh + 1
    PROVE  Supply' /\ fresh \in Body
BY WorkspaceAssumption DEF Supply, Body

Shapes ==
    /\ row \in [Row -> [body : Body, at : Nat, here : BOOLEAN]]
    /\ mark \in [Row -> [path : Path \cup {Nobody}, sha : Body, at : Nat]]
    /\ parked \in [Path -> [body : Body, row : Row \cup {Nobody}]]
    /\ file \in [Path -> [body : Body, id : Row \cup {Nobody}]]
    /\ toProject \subseteq Job /\ writing \in Job
    /\ shipping \in [path : Path \cup {Nobody}, body : Body, id : Row \cup {Nobody}]
    /\ landed \in [Path -> Body]
    /\ Supply

\* What the projector is about to write or record came from a row, and so did
\* the watermarks, except those a resolution cleared.
FromRows ==
    /\ \A j \in toProject \cup {writing} : j.do = "project" => j.body \in RowBodies /\ j.row \in Row /\ j.path \in Path
    /\ \A r \in Row : mark[r].sha \in RowBodies \cup {NullSha}

\* Only a file that exists is shipped.
Shipped == shipping # NoShip => shipping.path \in Path /\ shipping.body # Absent

\* What landed is a row's body or a revision, or parked at its own path.
LandedHeld == \A p \in Path : landed[p] # Absent => landed[p] \in RowBodies \cup {parked[p].body}

WorkspaceInv == Shapes /\ FromRows /\ Shipped /\ LandedHeld

----------------------------------------------------------------------------
(* The steps of the loops *)

\* A body that leaves its row goes to the archive.
LEMMA RowBodiesGrow ==
    ASSUME NEW B, Archived(B)
    PROVE  RowBodies \subseteq RowBodies' /\ B \subseteq RowBodies'
<1>1. ASSUME NEW r \in Row PROVE row[r].body \in RowBodies'
  <2>1. CASE row'[r].body = row[r].body
    BY <2>1 DEF RowBodies
  <2>2. CASE row'[r].body # row[r].body
    BY <2>2 DEF RowBodies, Archived
  <2> QED  BY <2>1, <2>2
<1> QED  BY <1>1 DEF RowBodies, Archived

LEMMA RowBodiesStay == ASSUME UNCHANGED <<row, archive>> PROVE RowBodies' = RowBodies
BY DEF RowBodies

\* Steps of the loops and of people that touch no row, mark, copy or landing.
LEMMA DiskSteps ==
    ASSUME WorkspaceInv, UNCHANGED dbVars,
           toProject' \subseteq toProject, writing' \in toProject \cup {writing, Nothing},
           shipping' = shipping \/ shipping' = NoShip,
           file' \in [Path -> [body : Body, id : Row \cup {Nobody}]], Supply'
    PROVE  WorkspaceInv'
<1>1. RowBodies' = RowBodies
  BY RowBodiesStay DEF dbVars
<1>2. Shapes'
  BY FirstBodies DEF WorkspaceInv, Shapes, dbVars, Job, Nothing, NoShip, Absent
<1>3. FromRows'
  BY <1>1 DEF WorkspaceInv, FromRows, dbVars, Nothing
<1>4. Shipped'
  BY DEF WorkspaceInv, Shipped
<1>5. LandedHeld'
  BY <1>1 DEF WorkspaceInv, LandedHeld, dbVars
<1> QED  BY <1>2, <1>3, <1>4, <1>5 DEF WorkspaceInv

LEMMA DiskStepsHold ==
    ASSUME WorkspaceInv,
           \/ \E j \in toProject : WriteFile(j)
           \/ RemoveOrphan \/ ProjectorFails \/ LoseCall \/ Restart
           \/ \E p \in Path : SaveFile(p) \/ RemoveFile(p)
    PROVE  WorkspaceInv'
<1>0. /\ Shapes /\ file \in [Path -> [body : Body, id : Row \cup {Nobody}]] /\ Supply
      /\ NoFile \in [body : Body, id : Row \cup {Nobody}]
  BY FirstBodies DEF WorkspaceInv, Shapes, NoFile, Absent
<1>1. ASSUME NEW j \in toProject, WriteFile(j) PROVE WorkspaceInv'
  <2>1. j \in Job
    BY <1>0 DEF Shapes
  <2>2. file' \in [Path -> [body : Body, id : Row \cup {Nobody}]]
    <3>1. [body |-> j.body, id |-> j.row] \in [body : Body, id : Row \cup {Nobody}]
      BY <2>1 DEF Job
    <3> QED  BY <1>0, <1>1, <3>1 DEF WriteFile
  <2> QED  BY <1>0, <1>1, <2>2, DiskSteps DEF WriteFile, countVars, Supply
<1>2. CASE RemoveOrphan
  BY <1>0, <1>2, DiskSteps DEF RemoveOrphan, countVars, Supply
<1>3. CASE ProjectorFails \/ LoseCall \/ Restart
  BY <1>0, <1>3, SupplyLasts, DiskSteps DEF ProjectorFails, LoseCall, Restart
<1>4. ASSUME NEW p \in Path, SaveFile(p) \/ RemoveFile(p) PROVE WorkspaceInv'
  <2>1. /\ file' \in [Path -> [body : Body, id : Row \cup {Nobody}]] /\ Supply'
    <3>1. CASE SaveFile(p)
      <4>1. /\ Supply' /\ fresh \in Body /\ "doc" \in Path
            /\ \/ file' = [file EXCEPT ![p].body = fresh]
               \/ file' = [file EXCEPT ![p] = file["doc"]]
        BY <1>0, <3>1, SupplyLasts DEF SaveFile, Path
      <4> QED  BY <1>0, <4>1
    <3>2. CASE RemoveFile(p)
      BY <1>0, <3>2, SupplyLasts DEF RemoveFile
    <3> QED  BY <1>4, <3>1, <3>2
  <2> QED  BY <1>4, <2>1, DiskSteps DEF SaveFile, RemoveFile
<1> QED  BY <1>1, <1>2, <1>3, <1>4

LEMMA PassStarts == ASSUME WorkspaceInv, StartPass PROVE WorkspaceInv'
<1>1. RowBodies' = RowBodies
  BY RowBodiesStay DEF StartPass, dbVars
<1>2. \A j \in Catalog : j \in Job /\ (j.do = "project" => j.body \in RowBodies /\ j.row \in Row /\ j.path \in Path)
  <2>1. \A r \in Row : r \in Path /\ row[r].body \in Body /\ row[r].at \in Nat
                       /\ row[r].body \in RowBodies /\ mark[r].path \in Path \cup {Nobody}
    BY DEF WorkspaceInv, Shapes, RowBodies, Row, Path
  <2> QED  BY <2>1, FirstBodies DEF Catalog, Job, Absent
<1>3. Shapes'
  BY <1>2 DEF WorkspaceInv, Shapes, StartPass, dbVars, countVars, Supply
<1>4. FromRows'
  BY <1>1, <1>2 DEF WorkspaceInv, FromRows, StartPass, dbVars
<1> QED  BY <1>1, <1>3, <1>4 DEF WorkspaceInv, Shipped, LandedHeld, StartPass, dbVars

LEMMA FileIsRead == ASSUME WorkspaceInv, NEW p \in Path, ReadFile(p) PROVE WorkspaceInv'
<1>1. RowBodies' = RowBodies
  BY RowBodiesStay DEF ReadFile, dbVars
<1>2. /\ shipping' \in [path : Path \cup {Nobody}, body : Body, id : Row \cup {Nobody}]
      /\ shipping'.path = p /\ shipping'.body # Absent
  BY DEF WorkspaceInv, Shapes, ReadFile, Exists
<1>3. Shapes'
  BY <1>2 DEF WorkspaceInv, Shapes, ReadFile, dbVars, countVars, Supply
<1> QED
  BY <1>1, <1>2, <1>3 DEF WorkspaceInv, FromRows, Shipped, LandedHeld, ReadFile, dbVars

LEMMA WriteIsRecorded == ASSUME WorkspaceInv, RecordWrite \/ ForgetRow PROVE WorkspaceInv'
<1>1. RowBodies' = RowBodies
  BY RowBodiesStay DEF RecordWrite, ForgetRow
<1>2. CASE RecordWrite
  <2>1. /\ writing \in Job /\ writing.row \in Row /\ writing.body \in RowBodies
        /\ mark[writing.row].path \in Path \cup {Nobody}
    BY <1>2 DEF WorkspaceInv, Shapes, FromRows, RecordWrite
  <2> DEFINE m == [path |-> writing.path, sha |-> writing.body, at |-> writing.at]
  <2>2. /\ m \in [path : Path \cup {Nobody}, sha : Body, at : Nat] /\ m.sha \in RowBodies
        /\ mark' = [mark EXCEPT ![writing.row] = m]
    BY <1>2, <2>1 DEF RecordWrite, Job
  <2> HIDE DEF m
  <2>3. writing' \in Job /\ writing'.do # "project"
    BY <1>2, <2>1, FirstBodies DEF RecordWrite, Job, Nothing, Absent
  <2>4. Shapes'
    <3>1. UNCHANGED <<row, parked, file, toProject, shipping, landed, fresh, rowEdits, events>>
      BY <1>2 DEF RecordWrite, countVars
    <3> QED  BY <2>2, <2>3, <3>1 DEF WorkspaceInv, Shapes, Supply
  <2>5. FromRows'
    BY <1>1, <1>2, <2>2, <2>3 DEF WorkspaceInv, Shapes, FromRows, RecordWrite
  <2> QED  BY <1>1, <1>2, <2>4, <2>5 DEF WorkspaceInv, Shipped, LandedHeld, RecordWrite
<1>3. CASE ForgetRow
  <2>1. /\ NoMark \in [path : Path \cup {Nobody}, sha : Body, at : Nat] /\ NoMark.sha = NullSha
        /\ writing' \in Job /\ writing'.do # "project"
    BY <1>3, FirstBodies DEF NoMark, NullSha, ForgetRow, Job, Nothing, Absent
  <2>2. Shapes'
    BY <1>3, <2>1 DEF WorkspaceInv, Shapes, ForgetRow, countVars, Supply
  <2>3. FromRows'
    BY <1>1, <1>3, <2>1 DEF WorkspaceInv, Shapes, FromRows, ForgetRow
  <2> QED  BY <1>1, <1>3, <2>2, <2>3 DEF WorkspaceInv, Shipped, LandedHeld, ForgetRow
<1> QED  BY <1>2, <1>3

LEMMA RowChanges == ASSUME WorkspaceInv, NEW r \in Row, EditRow(r) \/ TouchRow(r) PROVE WorkspaceInv'
<1>1. RowBodies \subseteq RowBodies'
  <2>1. CASE EditRow(r)
    BY <2>1, RowBodiesGrow DEF EditRow
  <2>2. CASE TouchRow(r)
    <3>1. archive' = archive /\ \A q \in Row : row'[q].body = row[q].body
      BY <2>2 DEF TouchRow, WorkspaceInv, Shapes
    <3> QED  BY <3>1 DEF RowBodies
  <2> QED  BY <2>1, <2>2
<1>2. row' \in [Row -> [body : Body, at : Nat, here : BOOLEAN]] /\ Supply'
  <2>0. row \in [Row -> [body : Body, at : Nat, here : BOOLEAN]] /\ Supply
    BY DEF WorkspaceInv, Shapes
  <2>1. CASE EditRow(r)
    <3>1. CASE row' = [row EXCEPT ![r].body = fresh, ![r].at = @ + 1] /\ fresh' = fresh + 1
      <4>1. Supply' /\ fresh \in Body
        BY <2>0, <2>1, <3>1, SupplyLasts DEF EditRow
      <4> QED  BY <2>0, <3>1, <4>1
    <3>2. CASE row' = [row EXCEPT ![r].here = FALSE] /\ UNCHANGED fresh
      BY <2>0, <2>1, <3>2, SupplyLasts DEF EditRow
    <3> QED  BY <2>1, <3>1, <3>2 DEF EditRow
  <2>2. CASE TouchRow(r)
    BY <2>0, <2>2, SupplyLasts DEF TouchRow
  <2> QED  BY <2>1, <2>2
<1>3. UNCHANGED <<mark, parked, landed, file, toProject, writing, shipping>>
  BY DEF EditRow, TouchRow
<1> QED  BY <1>1, <1>2, <1>3 DEF WorkspaceInv, Shapes, FromRows, Shipped, LandedHeld

----------------------------------------------------------------------------
(* The transactions of the database *)

\* The five things a write-back call comes to.
LEMMA Decisions ==
    ASSUME WorkspaceInv, NEW p \in Path, NEW b, NEW claim \in Row \cup {Nobody},
           Decide(p, b, claim)
    PROVE  \/ \E r \in Row \cup {Nobody} : Park(p, b, r)
           \/ CreateRow(b)
           \/ \E r \in Row : b = row[r].body /\ Heal(r, p)
           \/ \E r \in Row : b = mark[r].sha /\ UNCHANGED <<row, mark, parked>>
           \/ \E r \in Row : Apply(r, p, b) /\ UNCHANGED parked
<1> DEFINE here == {r \in Row : mark[r].path = p}
           r == IF here # {} THEN CHOOSE x \in here : TRUE ELSE claim
<1>1. here # {} => r \in Row
  <2>1. here # {} => (CHOOSE x \in here : TRUE) \in here
    OBVIOUS
  <2> QED  BY <2>1
<1>2. here = {} => r = claim
  OBVIOUS
<1>3. parked[p].row \in Row \cup {Nobody}
  BY DEF WorkspaceInv, Shapes
<1>4. IF Pending(p)
      THEN Park(p, b, parked[p].row)
      ELSE IF here = {} /\ claim = Nobody
      THEN IF row["made"].body = Absent THEN CreateRow(b) ELSE Park(p, b, Nobody)
      ELSE IF claim \notin {Nobody, r} \/ ~row[r].here
      THEN Park(p, b, IF claim # Nobody THEN claim ELSE r)
      ELSE IF here = {}
      THEN IF b = row[r].body THEN Heal(r, p) ELSE Park(p, b, r)
      ELSE IF b = mark[r].sha
      THEN UNCHANGED <<row, mark, parked>>
      ELSE IF row[r].body = mark[r].sha
      THEN Apply(r, p, b) /\ UNCHANGED parked
      ELSE IF b = row[r].body THEN Heal(r, p) ELSE Park(p, b, r)
  BY Zenon DEF Decide
<1> HIDE DEF here, r
<1>5. CASE Pending(p)
  BY <1>3, <1>4, <1>5
<1>6. CASE ~Pending(p) /\ here = {} /\ claim = Nobody
  BY <1>4, <1>6
<1>7. CASE ~Pending(p) /\ ~(here = {} /\ claim = Nobody)
  <2>1. r \in Row
    BY <1>1, <1>2, <1>7
  <2> QED  BY <1>4, <1>7, <2>1
<1> QED  BY <1>5, <1>6, <1>7

\* _workspace_apply keeps the shapes, and the body and its sha are kept.
LEMMA Applies ==
    ASSUME Shapes, NEW r \in Row, NEW p \in Path, NEW b \in Body, Apply(r, p, b)
    PROVE  /\ row' \in [Row -> [body : Body, at : Nat, here : BOOLEAN]]
           /\ row'[r].body = b
           /\ mark' \in [Row -> [path : Path \cup {Nobody}, sha : Body, at : Nat]]
           /\ mark'[r].sha = b /\ \A q \in Row \ {r} : mark'[q] = mark[q]
<1>1. row' \in [Row -> [body : Body, at : Nat, here : BOOLEAN]] /\ row'[r].body = b
  BY DEF Apply, Shapes
<1>2. row'[r].at \in Nat
  BY <1>1
<1> DEFINE m == [path |-> p, sha |-> b, at |-> row'[r].at]
<1>3. /\ m \in [path : Path \cup {Nobody}, sha : Body, at : Nat] /\ m.sha = b
      /\ mark' = [mark EXCEPT ![r] = m]
  BY <1>2 DEF Apply
<1> HIDE DEF m
<1> QED  BY <1>1, <1>3 DEF Shapes

\* What a step of the database must show.
LEMMA DatabaseStep ==
    ASSUME WorkspaceInv, RowBodies \subseteq RowBodies',
           row' \in [Row -> [body : Body, at : Nat, here : BOOLEAN]],
           mark' \in [Row -> [path : Path \cup {Nobody}, sha : Body, at : Nat]],
           \A r \in Row : mark'[r].sha \in RowBodies' \cup {NullSha},
           parked' \in [Path -> [body : Body, row : Row \cup {Nobody}]],
           landed' \in [Path -> Body],
           \A p \in Path : \/ landed'[p] = landed[p] /\ parked'[p] = parked[p]
                           \/ landed'[p] \in RowBodies' \cup {parked'[p].body}
                           \/ landed'[p] = Absent,
           shipping' \in {shipping, NoShip},
           UNCHANGED <<file, toProject, writing, fresh, rowEdits, events>>
    PROVE  WorkspaceInv'
<1>1. Shapes'
  BY FirstBodies DEF WorkspaceInv, Shapes, NoShip, Absent, Supply
<1>2. FromRows'
  BY DEF WorkspaceInv, FromRows
<1>3. Shipped'
  BY DEF WorkspaceInv, Shipped
<1>4. LandedHeld'
  BY DEF WorkspaceInv, LandedHeld
<1> QED  BY <1>1, <1>2, <1>3, <1>4 DEF WorkspaceInv

LEMMA CallLands == ASSUME WorkspaceInv, Writeback PROVE WorkspaceInv'
<1> DEFINE p == shipping.path
           b == shipping.body
<1>1. /\ p \in Path /\ b \in Body /\ b # Absent /\ shipping.id \in Row \cup {Nobody} /\ Shapes
      /\ Decide(p, b, shipping.id) /\ landed' = [landed EXCEPT ![p] = b]
      /\ shipping' = NoShip /\ UNCHANGED <<file, toProject, writing, fresh, rowEdits, events>>
  BY DEF WorkspaceInv, Shapes, Shipped, Writeback, countVars
<1>2. RowBodies \subseteq RowBodies'
  BY RowBodiesGrow DEF Writeback
<1> HIDE DEF p, b
<1>3. landed' \in [Path -> Body] /\ landed'[p] = b /\ \A q \in Path \ {p} : landed'[q] = landed[q]
  BY <1>1 DEF Shapes
<1>4. ASSUME NEW r \in Row \cup {Nobody}, Park(p, b, r) PROVE WorkspaceInv'
  <2>1. /\ parked' \in [Path -> [body : Body, row : Row \cup {Nobody}]]
        /\ parked'[p].body = b /\ \A q \in Path \ {p} : parked'[q] = parked[q]
    BY <1>1, <1>4 DEF Park, Shapes
  <2> QED  BY <1>1, <1>2, <1>3, <1>4, <2>1, DatabaseStep DEF Park, WorkspaceInv, Shapes, FromRows
<1>5. ASSUME b \in RowBodies', UNCHANGED parked,
             row' \in [Row -> [body : Body, at : Nat, here : BOOLEAN]],
             mark' \in [Row -> [path : Path \cup {Nobody}, sha : Body, at : Nat]],
             \A r \in Row : mark'[r].sha \in RowBodies' \cup {NullSha}
      PROVE  WorkspaceInv'
  <2>1. parked' \in [Path -> [body : Body, row : Row \cup {Nobody}]]
    BY <1>1, <1>5 DEF Shapes
  <2> QED  BY <1>1, <1>2, <1>3, <1>5, <2>1, DatabaseStep
<1>6. \A r \in Row : mark[r].sha \in RowBodies' \cup {NullSha}
  BY <1>2 DEF WorkspaceInv, FromRows
<1>7. \A r \in Row : row'[r].body \in RowBodies'
  BY DEF RowBodies
<1>8. CASE CreateRow(b)
  <2>1. /\ row' \in [Row -> [body : Body, at : Nat, here : BOOLEAN]] /\ row'["made"].body = b
        /\ "made" \in Row
    BY <1>1, <1>8 DEF CreateRow, Shapes, Row
  <2>2. b \in RowBodies'
    BY <1>7, <2>1
  <2> QED  BY <1>1, <1>5, <1>6, <1>8, <2>1, <2>2 DEF CreateRow, Shapes
<1>9. ASSUME NEW r \in Row, b = row[r].body, Heal(r, p) PROVE WorkspaceInv'
  <2> DEFINE m == [path |-> p, sha |-> row[r].body, at |-> row[r].at]
  <2>1. /\ m \in [path : Path \cup {Nobody}, sha : Body, at : Nat] /\ m.sha = b
        /\ mark' = [mark EXCEPT ![r] = m] /\ UNCHANGED <<row, parked>>
    BY <1>1, <1>9 DEF Heal, Shapes
  <2> HIDE DEF m
  <2>2. b \in RowBodies'
    BY <1>7, <1>9, <2>1
  <2> QED  BY <1>1, <1>5, <1>6, <2>1, <2>2 DEF Shapes
<1>10. ASSUME NEW r \in Row, b = mark[r].sha, UNCHANGED <<row, mark, parked>> PROVE WorkspaceInv'
  BY <1>1, <1>5, <1>6, <1>10, FirstBodies DEF Shapes, Absent, NullSha
<1>11. ASSUME NEW r \in Row, Apply(r, p, b), UNCHANGED parked PROVE WorkspaceInv'
  BY <1>1, <1>5, <1>6, <1>7, <1>11, Applies
<1> QED  BY <1>1, <1>4, <1>8, <1>9, <1>10, <1>11, Decisions

LEMMA ConflictSettles ==
    ASSUME WorkspaceInv, NEW p \in Path, NEW choice, Resolve(p, choice)
    PROVE  WorkspaceInv'
<1> DEFINE r == parked[p].row
           b == parked[p].body
<1>1. /\ r \in Row \cup {Nobody} /\ b \in Body /\ Shapes /\ Archived({b})
      /\ parked' = [parked EXCEPT ![p] = NoPark]
      /\ UNCHANGED <<landed, file, toProject, writing, shipping, fresh, rowEdits, events>>
  BY DEF WorkspaceInv, Shapes, Resolve
<1>2. RowBodies \subseteq RowBodies' /\ b \in RowBodies'
  BY <1>1, RowBodiesGrow
<1>3. /\ parked' \in [Path -> [body : Body, row : Row \cup {Nobody}]]
      /\ \A q \in Path \ {p} : parked'[q] = parked[q]
  BY <1>1, FirstBodies DEF Shapes, NoPark, Absent
<1>4. \A q \in Row : mark[q].sha \in RowBodies' \cup {NullSha} /\ row'[q].body \in RowBodies'
  BY <1>2 DEF WorkspaceInv, FromRows, RowBodies
<1>5. /\ row' \in [Row -> [body : Body, at : Nat, here : BOOLEAN]]
      /\ mark' \in [Row -> [path : Path \cup {Nobody}, sha : Body, at : Nat]]
      /\ \A q \in Row : mark'[q].sha \in RowBodies' \cup {NullSha}
  <2>1. CASE r # Nobody /\ Apply(r, p, b)
    <3>1. r \in Row
      BY <1>1, <2>1
    <3> HIDE DEF r, b
    <3> QED  BY <1>1, <1>2, <1>4, <2>1, <3>1, Applies
  <2>2. CASE /\ mark' = IF r = Nobody \/ mark[r].path = Nobody THEN mark
                        ELSE [mark EXCEPT ![r].sha = NullSha]
             /\ UNCHANGED row
    <3> HIDE DEF r, b
    <3> QED  BY <1>1, <1>4, <2>2, FirstBodies DEF Shapes, NullSha
  <2>3. CASE UNCHANGED <<row, mark>>
    BY <1>1, <1>4, <2>3 DEF Shapes
  <2> QED  BY <2>1, <2>2, <2>3 DEF Resolve
<1>6. \A q \in Path : \/ landed'[q] = landed[q] /\ parked'[q] = parked[q]
                      \/ landed'[q] \in RowBodies' \cup {parked'[q].body}
                      \/ landed'[q] = Absent
  <2>1. landed[p] # Absent => landed[p] \in RowBodies'
    BY <1>2 DEF WorkspaceInv, LandedHeld
  <2> QED  BY <1>1, <1>3, <2>1
<1>7. landed' \in [Path -> Body]
  BY <1>1 DEF Shapes
<1> HIDE DEF r, b
<1> QED  BY <1>1, <1>2, <1>3, <1>5, <1>6, <1>7, DatabaseStep

----------------------------------------------------------------------------
(* What the workspace keeps *)

LEMMA WorkspaceStarts == WorkspaceInit => WorkspaceInv
<1> SUFFICES ASSUME WorkspaceInit PROVE WorkspaceInv
  OBVIOUS
<1>1. Shapes
  <2>1. Supply
    BY WorkspaceAssumption DEF WorkspaceInit, Supply
  <2> QED
    BY <2>1, FirstBodies DEF WorkspaceInit, Shapes, NoRow, NoMark, NoPark, NoFile, NoShip, Nothing,
                             Job, Absent, NullSha, Path, Row, Nobody
<1>2. FromRows
  BY DEF WorkspaceInit, FromRows, Nothing, NoMark, NullSha, RowBodies, Row
<1>3. Shipped /\ LandedHeld
  BY DEF WorkspaceInit, Shipped, LandedHeld
<1> QED  BY <1>1, <1>2, <1>3 DEF WorkspaceInv

LEMMA WorkspaceSteps ==
    ASSUME WorkspaceInv, [WorkspaceNext]_workspaceVars
    PROVE  WorkspaceInv'
<1>1. CASE UNCHANGED workspaceVars
  BY <1>1, RowBodiesStay DEF workspaceVars, dbVars, countVars, WorkspaceInv, Shapes, FromRows, Shipped, LandedHeld, Supply
<1>2. CASE Projector
  BY <1>2, PassStarts, DiskStepsHold, WriteIsRecorded DEF Projector
<1>3. CASE Watcher
  BY <1>3, FileIsRead, CallLands DEF Watcher
<1>4. CASE People
  BY <1>4, RowChanges, DiskStepsHold, ConflictSettles DEF People
<1>5. CASE ProjectorFails \/ LoseCall \/ Restart
  BY <1>5, DiskStepsHold
<1> QED  BY <1>1, <1>2, <1>3, <1>4, <1>5 DEF WorkspaceNext

\* The rest of what the watcher, the people and the archive keep.
Watched ==
    /\ unseen \subseteq Path /\ missed \subseteq Path /\ waived \subseteq Path
    /\ archive \subseteq Body /\ mine \in [Path -> Body]

LEMMA WatchedStays ==
    ASSUME WorkspaceInv, Watched, [WorkspaceNext]_workspaceVars
    PROVE  Watched'
<1>1. /\ Shapes /\ Watched /\ Absent \in Body /\ \A r \in Row : row[r].body \in Body
      /\ \A p \in Path : parked[p].body \in Body
  BY FirstBodies DEF WorkspaceInv, Shapes, Absent
<1>2. ASSUME NEW B, B \subseteq Body, Archived(B) PROVE archive' \subseteq Body
  BY <1>1, <1>2 DEF Archived, Watched
<1>3. CASE UNCHANGED workspaceVars
  BY <1>1, <1>3 DEF workspaceVars, dbVars, Watched
<1>4. CASE StartPass \/ RecordWrite \/ RemoveOrphan \/ ForgetRow \/ ProjectorFails
  BY <1>1, <1>4 DEF StartPass, RecordWrite, RemoveOrphan, ForgetRow, ProjectorFails, dbVars, Watched
<1>5. ASSUME NEW j \in toProject, WriteFile(j) PROVE Watched'
  <2>1. j.do = "project" => j.path \in Path
    BY DEF WorkspaceInv, FromRows
  <2> QED  BY <1>1, <1>5, <2>1 DEF WriteFile, dbVars, Watched
<1>6. ASSUME NEW p \in Path, ReadFile(p) \/ RemoveFile(p) PROVE Watched'
  BY <1>1, <1>6 DEF ReadFile, RemoveFile, dbVars, Watched
<1>7. CASE Writeback
  BY <1>1, <1>2, <1>7 DEF Writeback, Watched
<1>8. CASE LoseCall
  <2>1. shipping.path \in Path
    BY <1>8 DEF LoseCall, WorkspaceInv, Shipped
  <2> QED  BY <1>1, <1>8, <2>1 DEF LoseCall, dbVars, Watched
<1>9. CASE Restart
  BY <1>1, <1>9 DEF Restart, dbVars, Watched
<1>10. ASSUME NEW r \in Row, EditRow(r) \/ TouchRow(r) PROVE Watched'
  BY <1>1, <1>2, <1>10 DEF EditRow, TouchRow, Watched
<1>11. ASSUME NEW p \in Path, SaveFile(p) PROVE Watched'
  <2>1. fresh' = fresh + 1 => fresh \in Body
    BY <1>1, <1>11, SupplyLasts DEF SaveFile, Shapes
  <2>2. \/ fresh' = fresh + 1 /\ mine' = [mine EXCEPT ![p] = fresh]
        \/ mine' = mine
    BY <1>11 DEF SaveFile
  <2> QED  BY <1>1, <1>11, <2>1, <2>2 DEF SaveFile, dbVars, Watched
<1>12. ASSUME NEW p \in Path, NEW c \in {"file-wins", "row-wins", "dismiss"}, Resolve(p, c)
       PROVE  Watched'
  <2>1. archive' \subseteq Body
    BY <1>1, <1>2, <1>12 DEF Resolve
  <2> QED  BY <1>1, <1>12, <2>1 DEF Resolve, Watched
<1> QED
  BY <1>3, <1>4, <1>5, <1>6, <1>7, <1>8, <1>9, <1>10, <1>11, <1>12
  DEF WorkspaceNext, Projector, Watcher, People

LEMMA WorkspaceTypes == WorkspaceSpec => []WorkspaceTypeOK
<1>1. WorkspaceInit => WorkspaceInv /\ Watched
  BY WorkspaceStarts, FirstBodies DEF WorkspaceInit, Watched, Absent, Path
<1>2. WorkspaceInv /\ Watched /\ [WorkspaceNext]_workspaceVars => (WorkspaceInv /\ Watched)'
  BY WorkspaceSteps, WatchedStays
<1>3. WorkspaceInv /\ Watched => WorkspaceTypeOK
  BY DEF WorkspaceInv, Shapes, Watched, Supply, WorkspaceTypeOK
<1> QED  BY <1>1, <1>2, <1>3, PTL DEF WorkspaceSpec

\* A body that workspace_writeback took from a file is a row's body, a
\* revision or the path's parked copy from then on, until a later version of
\* the file lands: projections, edits, resolutions, failed calls and restarts
\* in between never drop it.
THEOREM LandedBodiesKept == WorkspaceSpec => []LandedKept
<1>1. WorkspaceInv => LandedKept
  BY DEF WorkspaceInv, LandedHeld, LandedKept, InDatabase, RowBodies
<1>2. WorkspaceInv /\ [WorkspaceNext]_workspaceVars => WorkspaceInv'
  BY WorkspaceSteps
<1> QED  BY <1>1, <1>2, WorkspaceStarts, PTL DEF WorkspaceSpec
=============================================================================
