--------------------------- MODULE TurnLoop_proofs ---------------------------
(***************************************************************************)
(* Proofs about TurnLoop, for every number of workers, calls, rows, user    *)
(* messages and faults. They assume Calm: the leader never reaps a row that  *)
(* a worker still holds.                                                     *)
(***************************************************************************)
EXTENDS TurnLoop, TLAPS

Calm == Faults \cap {"leader_alone", "slow"} = {}

----------------------------------------------------------------------------
(* The inductive invariant, one named part per idea *)

\* Ids above last carry nothing yet; ids up to last have a real status.
Fresh ==
    \A r \in Row :
        /\ r > last => /\ status[r] = "free" /\ parent[r] = None
                       /\ ran[r] = {} /\ \A k \in Call : child[r][k] = None
                       /\ \A k \in Call : replies[r][k] = 0
        /\ r <= last => status[r] # "free"
        /\ turn[r] <= posts

\* A held row is in progress, unless a cancellation errored it meanwhile;
\* nobody holds anything while the leader reaps after a restart. The bridge
\* only holds mcp_proxy rows.
Holding ==
    /\ \A w \in Worker : job[w] # None =>
         /\ kind[job[w]] \in Drivers
         /\ status[job[w]] \in {"in_progress", "error"}
    /\ reaping => \A w \in Worker : job[w] = None
    /\ \A r \in bridge : kind[r] = "mcp_proxy"

\* A tool_dispatch row hangs under a chat row that is finished for good, the
\* only one to do so, and has run only calls that chat asked for.
Links ==
    \A d \in Row : kind[d] = "tool_dispatch" =>
        /\ parent[d] \in Row
        /\ kind[parent[d]] = "chat"
        /\ status[parent[d]] = "done"
        /\ ~Held(parent[d])
        /\ \A e \in Row : kind[e] = "tool_dispatch" /\ parent[e] = parent[d] => e = d
        /\ Handled(d) \subseteq asked[parent[d]]
        /\ status[d] = "waiting_for_tools" => AllHandled(d)

\* Until its dispatch closes, no call of a chat row has a reply.
Unanswered ==
    /\ \A d \in Row : kind[d] = "tool_dispatch" /\ Active(d) =>
         \A k \in Call : replies[parent[d]][k] = 0
    /\ \A c \in Row : kind[c] = "chat" /\ Active(c) =>
         \A k \in Call : replies[c][k] = 0

\* A continuation exists only once the dispatch it continues is over.
Continued ==
    \A r \in Row : kind[r] = "chat" /\ parent[r] # None =>
        /\ parent[r] \in Row
        /\ kind[parent[r]] = "tool_dispatch"
        /\ ~Active(parent[r])

IInv ==
    /\ TypeOK /\ Fresh /\ Holding /\ ClaimedOnce /\ OneDriver
    /\ Links /\ Unanswered /\ Continued
    /\ OneContinuation /\ ContinuationComplete /\ ReplyOnce

----------------------------------------------------------------------------
(* Type correctness *)

\* Inserting a row and moving another keeps the queue well typed.
LEMMA InsertType ==
    ASSUME TypeOK, NEW k \in {"chat", "tool_dispatch", "mcp_proxy"},
           NEW p \in Row \cup {None}, NEW t \in 0 .. MaxPosts, NEW r, NEW s \in Statuses,
           Insert(k, p, t, r, s)
    PROVE  /\ last' \in Row /\ last' = last + 1 /\ last' \in 0 .. MaxRows
           /\ kind' \in [Row -> Kinds]
           /\ status' \in [Row -> Statuses]
           /\ parent' \in [Row -> Row \cup {None}]
           /\ turn' \in [Row -> 0 .. MaxPosts]
           /\ \A q \in Row : q > last' <=> kind'[q] = "free"
<1>1. last' \in Row /\ last' = last + 1 /\ last' \in 0 .. MaxRows
  BY TurnLoopAssumption DEF TypeOK, Insert, Row
<1>2. \A q \in Row : q > last' <=> kind'[q] = "free"
  BY <1>1 DEF TypeOK, Insert, Row
<1> QED  BY <1>1, <1>2 DEF TypeOK, Insert, Kinds, Statuses

LEMMA ReplyType ==
    ASSUME TypeOK, NEW c \in Row, NEW ks, Reply(c, ks)
    PROVE  replies' \in [Row -> [Call -> Nat]]
BY DEF TypeOK, Reply

LEMMA SetStatusType ==
    ASSUME TypeOK, NEW r \in Row, NEW s \in Statuses, SetStatus(r, s)
    PROVE  /\ status' \in [Row -> Statuses]
           /\ UNCHANGED <<last, kind, parent, turn>>
BY DEF TypeOK, SetStatus

\* The row and an open outcome transaction leave the worker's hands together.
LEMMA ReleaseType ==
    ASSUME TypeOK, NEW w \in Worker, Release(w)
    PROVE  job' \in [Worker -> Row \cup {None}] /\ TxnTypeOK'
<1>1. 0 \in 0 .. MaxPosts  BY TurnLoopAssumption
<1> QED  BY <1>1 DEF TypeOK, TxnTypeOK, Release

\* A count adds the transaction's own message, or not.
LEMMA CountedType ==
    ASSUME TypeOK, NEW w \in Worker
    PROVE  Counted(w) \in Nat /\ Counted(w) \in {rounds, rounds + 1}
BY DEF TypeOK, Counted

\* A transaction that begins or counts shows nothing of itself yet.
LEMMA OutcomeType ==
    ASSUME TypeOK, NEW w \in Worker, ChatAnswers(w) \/ ChatCounts(w)
    PROVE  /\ TypeOK'
           /\ UNCHANGED <<last, kind, status, parent, turn, asked, replies, rounds, ran, child, job,
                          reaping, bridge, posts, cancelled, faults>>
<1>1. UNCHANGED <<last, kind, status, parent, turn, asked, replies, rounds, ran, child, job,
                  reaping, bridge, posts, cancelled, faults>>
  BY DEF ChatAnswers, ChatCounts, rowVars, msgVars, fanVars, envVars
<1>2. TxnTypeOK'
  BY DEF ChatAnswers, ChatCounts, TypeOK, TxnTypeOK
<1> QED  BY <1>1, <1>2 DEF TypeOK

----------------------------------------------------------------------------
(* Steps that insert no row and write no message *)

\* Such a step keeps the invariant when it makes no row active, reopens no
\* finished chat row and lets no dispatch wait before all its calls are handled.
LEMMA QuietStep ==
    ASSUME IInv, TypeOK', Holding', ClaimedOnce',
           UNCHANGED <<last, kind, parent, turn, asked, replies, posts>>,
           \A r \in Row : Active(r)' => Active(r),
           \A r \in Row : status'[r] = "free" <=> status[r] = "free",
           \A r \in Row : kind[r] = "chat" /\ status[r] = "done" /\ ~Held(r)
                            => status'[r] = "done" /\ ~Held(r)',
           \A r \in Row : r > last => ran'[r] = {} /\ \A k \in Call : child'[r][k] = None,
           \A d \in Row : kind[d] = "tool_dispatch" => Handled(d)' \subseteq asked[parent[d]],
           \A d \in Row : kind[d] = "tool_dispatch" /\ status'[d] = "waiting_for_tools"
                            => AllHandled(d)'
    PROVE  IInv'
<1>1. Fresh'  BY DEF IInv, Fresh
<1>2. OneDriver'  BY DEF IInv, OneDriver
<1>3. Links'  BY DEF IInv, Links
<1>4. Unanswered'  BY DEF IInv, Unanswered
<1>5. Continued'  BY DEF IInv, Continued
<1>6. OneContinuation'  BY DEF IInv, OneContinuation, Continuations
<1>7. ContinuationComplete'  BY DEF IInv, ContinuationComplete
<1>8. ReplyOnce'  BY DEF IInv, ReplyOnce
<1> QED  BY <1>1, <1>2, <1>3, <1>4, <1>5, <1>6, <1>7, <1>8 DEF IInv

----------------------------------------------------------------------------
(* Steps that close a dispatch and continue its turn *)

\* Whoever closes dispatch d -- its worker, a promotion or a reaper -- keeps
\* the invariant when it answers exactly the calls that were asked, moves d
\* out of every hand and enqueues one chat row.
LEMMA ContinueStep ==
    ASSUME IInv,
           NEW d \in Row, kind[d] = "tool_dispatch", Active(d),
           NEW s \in {"done", "error"},
           Reply(parent[d], asked[parent[d]]), Continue(d, s),
           UNCHANGED <<asked, rounds, ran, child, reaping, bridge, posts, cancelled>>,
           faults' \in 0 .. MaxFaults,
           job' \in [Worker -> Row \cup {None}], TxnTypeOK',
           \A w \in Worker : (job'[w] = job[w] /\ job[w] # d) \/ job'[w] = None
    PROVE  IInv'
<1> DEFINE n == last'
<1>0. TypeOK /\ parent[d] \in Row /\ kind[parent[d]] = "chat" /\ turn[d] \in 0 .. MaxPosts
      /\ parent[d] # d
  BY DEF IInv, Links, TypeOK
<1>1. /\ n \in Row /\ n = last + 1 /\ n \in 0 .. MaxRows
      /\ kind' \in [Row -> Kinds]
      /\ status' \in [Row -> Statuses]
      /\ parent' \in [Row -> Row \cup {None}]
      /\ turn' \in [Row -> 0 .. MaxPosts]
      /\ \A q \in Row : q > n <=> kind'[q] = "free"
  BY <1>0, InsertType DEF Continue, Statuses
<1>2. TypeOK'
  BY <1>0, <1>1, ReplyType DEF TypeOK
<1>3. /\ kind[n] = "free" /\ n # d
      /\ kind'[n] = "chat" /\ parent'[n] = d /\ turn'[n] = turn[d] /\ status'[n] = "pending"
      /\ status'[d] = s
  BY <1>0, <1>1 DEF Continue, Insert, TypeOK, Row
<1>4. \A q \in Row \ {n} : kind'[q] = kind[q] /\ parent'[q] = parent[q] /\ turn'[q] = turn[q]
                          /\ (q # d => status'[q] = status[q])
  BY <1>0, <1>1 DEF Continue, Insert, TypeOK
<1>5. \A q \in Row : Held(q)' => Held(q) /\ q # d
  BY DEF Held, TypeOK, None, Row
<1>6. \A q \in Row \ {n} : Active(q)' => Active(q) /\ q # d
  BY <1>3, <1>4, <1>5 DEF Active, Live
<1>7. \A c \in Row, k \in Call :
         replies'[c][k] = IF c = parent[d] /\ k \in asked[c] THEN replies[c][k] + 1
                          ELSE replies[c][k]
  BY <1>0 DEF Reply, TypeOK
<1>a. n > last /\ parent[d] <= last /\ n # parent[d] /\ d # None
  BY <1>0, <1>1, <1>3 DEF TypeOK, Row, None
<1>b. \A e \in Row : kind[e] = "tool_dispatch" /\ e # d => parent[e] # parent[d]
  BY DEF IInv, Links
<1>c. ~Active(parent[d])
  BY <1>0 DEF IInv, Links, Active, Live
<1>8. Fresh'
  <2> SUFFICES ASSUME NEW q \in Row
               PROVE /\ q > n => /\ status'[q] = "free" /\ parent'[q] = None
                                 /\ ran'[q] = {} /\ \A k \in Call : child'[q][k] = None
                                 /\ \A k \in Call : replies'[q][k] = 0
                     /\ q <= n => status'[q] # "free"
                     /\ turn'[q] <= posts'
    BY DEF Fresh
  <2>1. CASE q = n
    BY <2>1, <1>0, <1>1, <1>3 DEF IInv, Fresh, Row
  <2>2. CASE q = d
    BY <2>2, <1>0, <1>1, <1>3, <1>4 DEF IInv, Fresh, Row, TypeOK
  <2>3. CASE q # n /\ q # d
    <3>1. last \in Nat /\ q \in Nat /\ (q <= n => q <= last) /\ (q > n => q > last /\ q # parent[d])
      BY <2>3, <1>0, <1>1, <1>a DEF TypeOK, Row
    <3> QED  BY <2>3, <3>1, <1>4, <1>7 DEF IInv, Fresh
  <2> QED  BY <2>1, <2>2, <2>3
<1>9. Holding'
  BY <1>3, <1>4, <1>5 DEF IInv, Holding, Held, TypeOK, None, Row, Drivers
<1>10. ClaimedOnce'
  BY DEF IInv, ClaimedOnce
<1>11. OneDriver'
  BY <1>3, <1>4, <1>6 DEF IInv, OneDriver
<1>12. Links'
  BY <1>3, <1>4, <1>5 DEF IInv, Links, Handled, AllHandled
<1>13. Unanswered'
  <2>1. ASSUME NEW e \in Row, kind'[e] = "tool_dispatch", Active(e)', NEW k \in Call
        PROVE replies'[parent'[e]][k] = 0
    <3>1. e # n /\ e # d /\ Active(e) /\ kind[e] = "tool_dispatch" /\ parent'[e] = parent[e]
      BY <2>1, <1>3, <1>4, <1>6
    <3>2. parent[e] \in Row /\ parent[e] # parent[d]
      BY <3>1, <1>b DEF IInv, Links
    <3> QED  BY <3>1, <3>2, <1>7 DEF IInv, Unanswered
  <2>2. ASSUME NEW c \in Row, kind'[c] = "chat", Active(c)', NEW k \in Call
        PROVE replies'[c][k] = 0
    <3>1. CASE c = n
      BY <3>1, <1>1, <1>7, <1>a DEF IInv, Fresh
    <3>2. CASE c # n
      BY <3>2, <2>2, <1>4, <1>6, <1>7, <1>c DEF IInv, Unanswered
    <3> QED  BY <3>1, <3>2
  <2> QED  BY <2>1, <2>2 DEF Unanswered
<1>14. Continued'
  BY <1>3, <1>4, <1>5, <1>6 DEF IInv, Continued
<1>15. OneContinuation'
  <2> SUFFICES ASSUME NEW e \in Row, NEW q \in Row, NEW r \in Row,
                      kind'[q] = "chat", parent'[q] = e, kind'[r] = "chat", parent'[r] = e
               PROVE q = r
    BY DEF OneContinuation, Continuations
  <2>1. \A u \in Row : kind[u] = "chat" => parent[u] # d
    BY <1>a DEF IInv, Continued
  <2> QED  BY <2>1, <1>3, <1>4 DEF IInv, OneContinuation, Continuations
<1>16. ContinuationComplete'
  <2> SUFFICES ASSUME NEW r \in Row, kind'[r] = "chat", parent'[r] # None,
                      NEW k \in asked[parent'[parent'[r]]]
               PROVE replies'[parent'[parent'[r]]][k] = 1
    BY DEF ContinuationComplete
  <2>1. CASE r = n
    <3>1. parent'[parent'[r]] = parent[d] /\ k \in Call
      BY <2>1, <1>0, <1>3, <1>4 DEF TypeOK
    <3> QED  BY <3>1, <1>0, <1>7 DEF IInv, Unanswered
  <2>2. CASE r # n
    <3>1. /\ kind[r] = "chat" /\ parent'[r] = parent[r] /\ parent[r] \in Row /\ parent[r] # n
          /\ parent[r] # d /\ kind[parent[r]] = "tool_dispatch"
      BY <2>2, <1>3, <1>4 DEF IInv, Continued
    <3>2. parent'[parent'[r]] = parent[parent[r]] /\ parent[parent[r]] \in Row
          /\ parent[parent[r]] # parent[d] /\ k \in Call
      BY <3>1, <1>0, <1>4, <1>b DEF IInv, Links, TypeOK
    <3> QED  BY <3>1, <3>2, <1>7 DEF IInv, ContinuationComplete
  <2> QED  BY <2>1, <2>2
<1>17. ReplyOnce'
  BY <1>0, <1>7 DEF IInv, ReplyOnce, Unanswered
<1> QED
  BY <1>2, <1>8, <1>9, <1>10, <1>11, <1>12, <1>13, <1>14, <1>15, <1>16, <1>17 DEF IInv

----------------------------------------------------------------------------
(* Steps that insert a row other than a continuation *)

\* What the invariant says of one dispatch, and of one free row.
LEMMA Linked ==
    ASSUME IInv, NEW d \in Row, kind[d] = "tool_dispatch"
    PROVE  /\ parent[d] \in Row /\ kind[parent[d]] = "chat" /\ status[parent[d]] = "done"
           /\ \A v \in Worker : job[v] # parent[d]
           /\ \A e \in Row : kind[e] = "tool_dispatch" /\ parent[e] = parent[d] => e = d
BY DEF IInv, Links, Held

LEMMA Unused ==
    ASSUME IInv, NEW r \in Row, r > last
    PROVE  status[r] = "free" /\ parent[r] = None
BY DEF IInv, Fresh

\* What a new row leaves alone: facts the three inserting actions share.
LEMMA InsertFacts ==
    ASSUME IInv, NEW k \in {"chat", "tool_dispatch", "mcp_proxy"},
           NEW p \in Row \cup {None}, NEW t \in 0 .. MaxPosts, NEW r, NEW s \in Statuses,
           r \notin Row \/ kind[r] # "free",
           Insert(k, p, t, r, s)
    PROVE  /\ last' \in Row /\ last' = last + 1 /\ last \in Nat
           /\ kind[last'] = "free" /\ last' # r
           /\ kind'[last'] = k /\ parent'[last'] = p /\ turn'[last'] = t
           /\ status'[last'] = "pending"
           /\ ~Held(last')
           /\ \A q \in Row \ {last'} :
                 /\ kind'[q] = kind[q] /\ parent'[q] = parent[q] /\ turn'[q] = turn[q]
                 /\ status'[q] = IF q = r THEN s ELSE status[q]
           /\ \A q \in Row : q > last' => q > last
           /\ \A q \in Row : q <= last' => q <= last \/ q = last'
           /\ last' > last
<1>1. TypeOK  BY DEF IInv
<1>a. last' \in Row /\ last' = last + 1 /\ last' \in 0 .. MaxRows
  BY <1>1, InsertType
<1>2. last' \in Row /\ last' = last + 1 /\ last' \in 0 .. MaxRows /\ last \in Nat
  BY <1>1, <1>a DEF TypeOK
<1>3. kind[last'] = "free" /\ last' # r /\ last' > last
  BY <1>1, <1>2 DEF TypeOK, Row
<1>4. ~Held(last')
  BY <1>2, <1>3 DEF IInv, Holding, Held, Drivers, None, Row
<1>5. \A q \in Row : (q > last' => q > last) /\ (q <= last' => q <= last \/ q = last')
  BY <1>2 DEF Row
<1> QED  BY <1>1, <1>2, <1>3, <1>4, <1>5 DEF TypeOK, Insert

LEMMA PostStep == ASSUME IInv, Post PROVE IInv'
<1> DEFINE n == last'
<1>0. TypeOK /\ posts' \in 0 .. MaxPosts /\ posts' > posts /\ None \notin Row /\ posts \in Nat
  <2>1. TypeOK
    BY DEF IInv
  <2>2. posts' = posts + 1 /\ posts < MaxPosts /\ posts \in 0 .. MaxPosts /\ MaxPosts \in Nat
    BY <2>1, TurnLoopAssumption DEF Post, TypeOK
  <2> QED  BY <2>1, <2>2 DEF None, Row
<1>1. Insert("chat", None, posts', None, "free")  BY DEF Post
<1>2. /\ n \in Row /\ n = last + 1 /\ last \in Nat
      /\ kind[n] = "free" /\ n # None
      /\ kind'[n] = "chat" /\ parent'[n] = None /\ turn'[n] = posts'
      /\ status'[n] = "pending"
      /\ ~Held(n)
      /\ \A q \in Row \ {n} :
            /\ kind'[q] = kind[q] /\ parent'[q] = parent[q] /\ turn'[q] = turn[q]
            /\ status'[q] = status[q]
      /\ \A q \in Row : q > n => q > last
      /\ \A q \in Row : q <= n => q <= last \/ q = n
      /\ n > last
  BY <1>0, <1>1, InsertFacts DEF Statuses
<1>4. /\ UNCHANGED <<asked, replies, ran, child, job, since, verdict, reaping, bridge, faults>>
      /\ rounds' = 0 /\ cancelled' = FALSE
  BY DEF Post, fanVars, workVars
<1>3. TypeOK'
  <2>1. /\ last' \in 0 .. MaxRows /\ kind' \in [Row -> Kinds]
        /\ status' \in [Row -> Statuses]
        /\ parent' \in [Row -> Row \cup {None}]
        /\ turn' \in [Row -> 0 .. MaxPosts]
        /\ \A q \in Row : q > last' <=> kind'[q] = "free"
    BY <1>0, <1>1, InsertType DEF Statuses
  <2> QED  BY <2>1, <1>0, <1>4 DEF TypeOK, TxnTypeOK
<1>5. \A q \in Row \ {n} : Active(q)' <=> Active(q)
  BY <1>2, <1>4 DEF Active, Held
<1>6. \A q \in Row : Held(q)' <=> Held(q)
  BY <1>4 DEF Held
<1>7. \A q \in Row : turn[q] \in Nat /\ turn[q] <= posts
  BY <1>0 DEF IInv, Fresh, TypeOK
<1>8. Fresh'
  BY <1>0, <1>2, <1>4, <1>7 DEF IInv, Fresh
<1>9. Holding' /\ ClaimedOnce'
  <2>1. \A w \in Worker : job[w] # None => job[w] \in Row \ {n}
    BY <1>0, <1>2 DEF TypeOK, Held
  <2>2. \A q \in bridge : q \in Row /\ kind[q] = "mcp_proxy"
    BY <1>0 DEF IInv, Holding, TypeOK
  <2>3. n \notin bridge
    BY <2>2, <1>2
  <2>b. \A q \in bridge : kind'[q] = "mcp_proxy"
    BY <2>2, <2>3, <1>2
  <2> QED  BY <2>1, <2>b, <1>2, <1>4 DEF IInv, Holding, ClaimedOnce
<1>10. OneDriver'
  BY <1>0, <1>2, <1>5, <1>7 DEF IInv, OneDriver
<1>11. Links'
  <2> SUFFICES ASSUME NEW d \in Row, kind'[d] = "tool_dispatch"
               PROVE /\ parent'[d] \in Row /\ kind'[parent'[d]] = "chat"
                     /\ status'[parent'[d]] = "done" /\ ~Held(parent[d])'
                     /\ \A e \in Row : kind'[e] = "tool_dispatch" /\ parent'[e] = parent'[d] => e = d
                     /\ Handled(d)' \subseteq asked'[parent'[d]]
                     /\ status'[d] = "waiting_for_tools" => AllHandled(d)'
    BY DEF Links
  <2>1. d # n /\ kind[d] = "tool_dispatch" /\ parent'[d] = parent[d] /\ status'[d] = status[d]
    BY <1>2
  <2>2. /\ parent[d] \in Row /\ kind[parent[d]] = "chat" /\ status[parent[d]] = "done"
        /\ \A v \in Worker : job[v] # parent[d]
        /\ \A e \in Row : kind[e] = "tool_dispatch" /\ parent[e] = parent[d] => e = d
    BY <2>1, Linked
  <2>3. parent[d] # n
    BY <2>2, <1>2
  <2>4. kind'[parent[d]] = "chat" /\ status'[parent[d]] = "done"
    BY <2>2, <2>3, <1>2
  <2>5. \A e \in Row : kind'[e] = "tool_dispatch" /\ parent'[e] = parent[d] => e = d
    <3>1. \A e \in Row : kind'[e] = "tool_dispatch" => kind[e] = "tool_dispatch" /\ parent'[e] = parent[e]
      BY <1>2
    <3> QED  BY <3>1, <2>2
  <2>6. ~Held(parent[d])'
    BY <2>1, <2>2, <1>4 DEF Held
  <2>7. Handled(d) \subseteq asked[parent[d]] /\ (status[d] = "waiting_for_tools" => AllHandled(d))
    BY <2>1 DEF IInv, Links
  <2>8. Handled(d)' = Handled(d) /\ asked'[parent[d]] = asked[parent[d]]
    BY <1>4 DEF Handled
  <2>9. status'[d] = "waiting_for_tools" => AllHandled(d)'
    BY <2>1, <2>7, <2>8 DEF AllHandled
  <2> QED  BY <2>1, <2>2, <2>4, <2>5, <2>6, <2>7, <2>8, <2>9
<1>12. Unanswered'
  <2>1. \A k \in Call : replies[n][k] = 0
    BY <1>2 DEF IInv, Fresh
  <2>2. ASSUME NEW d \in Row, kind'[d] = "tool_dispatch", Active(d)', NEW k \in Call
        PROVE replies'[parent'[d]][k] = 0
    <3>1. d # n /\ kind[d] = "tool_dispatch" /\ parent'[d] = parent[d] /\ Active(d)
      BY <2>2, <1>2, <1>5
    <3> QED  BY <3>1, <1>4 DEF IInv, Unanswered
  <2>3. ASSUME NEW q \in Row, kind'[q] = "chat", Active(q)', NEW k \in Call
        PROVE replies'[q][k] = 0
    <3>1. CASE q = n
      BY <3>1, <2>1, <1>4
    <3>2. CASE q # n
      <4>1. kind[q] = "chat" /\ Active(q)
        BY <3>2, <2>3, <1>2, <1>5
      <4> QED  BY <4>1, <1>4 DEF IInv, Unanswered
    <3> QED  BY <3>1, <3>2
  <2> QED  BY <2>2, <2>3 DEF Unanswered
<1>13. Continued'
  <2>1. \A r \in Row : kind'[r] = "chat" /\ parent'[r] # None =>
          r # n /\ kind[r] = "chat" /\ parent'[r] = parent[r] /\ parent[r] \in Row \ {n}
    BY <1>2 DEF IInv, Continued
  <2>2. \A q \in Row \ {n} : ~Active(q) => ~Active(q)'
    BY <1>5
  <2>3. \A r \in Row : kind[r] = "chat" /\ parent[r] # None =>
          kind[parent[r]] = "tool_dispatch" /\ ~Active(parent[r])
    BY DEF IInv, Continued
  <2> SUFFICES ASSUME NEW r \in Row, kind'[r] = "chat", parent'[r] # None
               PROVE  /\ parent'[r] \in Row /\ kind'[parent'[r]] = "tool_dispatch"
                      /\ ~Active(parent[r])'
    BY DEF Continued
  <2>4. parent'[r] = parent[r] /\ parent[r] \in Row \ {n} /\ ~Active(parent[r])
        /\ kind'[parent[r]] = "tool_dispatch"
    <3>1. kind[r] = "chat" /\ parent'[r] = parent[r] /\ parent[r] \in Row \ {n} /\ parent[r] # None
      BY <2>1
    <3>2. kind[parent[r]] = "tool_dispatch" /\ ~Active(parent[r])
      BY <3>1, <2>3
    <3>3. kind'[parent[r]] = kind[parent[r]]
      BY <3>1, <1>2
    <3> QED  BY <3>1, <3>2, <3>3
  <2>5. status'[parent[r]] = status[parent[r]] /\ job' = job /\ kind[parent[r]] = "tool_dispatch"
    BY <2>4, <1>2, <1>4
  <2> QED  BY <2>4, <2>5 DEF Active, Held
<1>14. OneContinuation'
  BY <1>2, <1>0 DEF IInv, OneContinuation, Continuations
<1>15. ContinuationComplete'
  <2> SUFFICES ASSUME NEW r \in Row, kind'[r] = "chat", parent'[r] # None,
                      NEW k \in asked[parent'[parent'[r]]]
               PROVE replies[parent'[parent'[r]]][k] = 1
    BY <1>4 DEF ContinuationComplete
  <2>1. r # n /\ kind[r] = "chat" /\ parent'[r] = parent[r] /\ parent[r] \in Row \ {n}
    BY <1>2 DEF IInv, Continued
  <2>2. parent'[parent[r]] = parent[parent[r]]
    BY <2>1, <1>2
  <2>3. k \in asked[parent[parent[r]]]
    BY <2>1, <2>2
  <2>4. replies[parent[parent[r]]][k] = 1
    BY <2>1, <2>3 DEF IInv, ContinuationComplete
  <2> QED  BY <2>1, <2>2, <2>4
<1>16. ReplyOnce'
  BY <1>4 DEF IInv, ReplyOnce
<1> QED  BY <1>3, <1>8, <1>9, <1>10, <1>11, <1>12, <1>13, <1>14, <1>15, <1>16 DEF IInv

LEMMA ChatAsksStep == ASSUME IInv, NEW w \in Worker, ChatAsks(w) PROVE IInv'
<1> DEFINE n == last'
           c == job[w]
<1>0. TypeOK /\ c \in Row /\ kind[c] = "chat" /\ turn[c] \in 0 .. MaxPosts /\ None \notin Row
  BY DEF IInv, ChatAsks, Holds, TypeOK, None, Row
<1>1. Insert("tool_dispatch", c, turn[c], c, "done")  BY DEF ChatAsks
<1>2. /\ n \in Row /\ n = last + 1 /\ last \in Nat
      /\ kind[n] = "free" /\ n # c
      /\ kind'[n] = "tool_dispatch" /\ parent'[n] = c /\ turn'[n] = turn[c]
      /\ status'[n] = "pending"
      /\ ~Held(n)
      /\ \A q \in Row \ {n} :
            /\ kind'[q] = kind[q] /\ parent'[q] = parent[q] /\ turn'[q] = turn[q]
            /\ status'[q] = IF q = c THEN "done" ELSE status[q]
      /\ \A q \in Row : q > n => q > last
      /\ \A q \in Row : q <= n => q <= last \/ q = n
      /\ n > last
  BY <1>0, <1>1, InsertFacts DEF Statuses
<1>3. PICK ks \in (SUBSET Call) \ {{}} : asked' = [asked EXCEPT ![c] = ks]
  BY DEF ChatAsks
<1>4. UNCHANGED <<replies, ran, child, reaping, bridge, posts, cancelled, faults>>
      /\ rounds' \in Nat
  BY <1>0, CountedType DEF ChatAsks, fanVars, envVars
<1>5. /\ job' = [job EXCEPT ![w] = None] /\ job' \in [Worker -> Row \cup {None}]
      /\ TxnTypeOK'
  BY <1>0, ReleaseType DEF ChatAsks, Release
<1>6. TypeOK'
  <2>1. /\ last' \in 0 .. MaxRows /\ kind' \in [Row -> Kinds]
        /\ status' \in [Row -> Statuses]
        /\ parent' \in [Row -> Row \cup {None}]
        /\ turn' \in [Row -> 0 .. MaxPosts]
        /\ \A q \in Row : q > last' <=> kind'[q] = "free"
    BY <1>0, <1>1, InsertType DEF Statuses
  <2> QED  BY <2>1, <1>0, <1>3, <1>4, <1>5 DEF TypeOK
<1>7a. \A v \in Worker : job'[v] # c /\ (job'[v] = job[v] \/ job'[v] = None)
  BY <1>0, <1>5 DEF IInv, ClaimedOnce, TypeOK, None, Row
<1>7. \A q \in Row : Held(q)' => Held(q) /\ q # c
  BY <1>0, <1>5 DEF IInv, ClaimedOnce, Held, TypeOK, None, Row
<1>8. \A q \in Row \ {n} : Active(q)' => Active(q) /\ q # c
  BY <1>0, <1>2, <1>7 DEF Active, Live
<1>9. Active(c) /\ Held(c)
  BY <1>0 DEF Active, Held, Drivers
<1>10. Fresh'
  <2>1. \A q \in Row : turn[q] <= posts
    BY DEF IInv, Fresh
  <2>2. \A q \in Row : q > n => q > last /\ q # c /\ q # n
    BY <1>0, <1>2 DEF TypeOK, Row
  <2>3. \A q \in Row \ {n} : q <= n => status'[q] # "free"
    <3>1. \A q \in Row \ {n} : q <= n => q <= last
      BY <1>2
    <3>2. \A q \in Row : q <= last => status[q] # "free"
      BY DEF IInv, Fresh
    <3> QED  BY <3>1, <3>2, <1>2
  <2>4. \A q \in Row : q > n => status'[q] = "free" /\ parent'[q] = None
    <3>1. \A q \in Row : q > n => status[q] = "free" /\ parent[q] = None
      BY <2>2, Unused
    <3> QED  BY <3>1, <2>2, <1>2
  <2>5. \A q \in Row : q > n => ran'[q] = {} /\ \A k \in Call : child'[q][k] = None /\ replies'[q][k] = 0
    BY <2>2, <1>4 DEF IInv, Fresh
  <2>6. \A q \in Row : turn'[q] <= posts'
    BY <2>1, <1>0, <1>2, <1>4
  <2> QED  BY <2>3, <2>4, <2>5, <2>6, <1>2 DEF Fresh
<1>11. Holding' /\ ClaimedOnce'
  <2>1. \A v \in Worker : job'[v] # None => job'[v] = job[v] /\ job[v] \in Row /\ job[v] # c
    BY <1>0, <1>7a DEF TypeOK
  <2>2. \A v \in Worker : job[v] # n
    BY <1>2 DEF Held
  <2>b. \A q \in bridge : kind'[q] = "mcp_proxy"
    BY <1>0, <1>2 DEF IInv, Holding, TypeOK
  <2>3. \A v \in Worker : job'[v] # None =>
          kind'[job'[v]] \in Drivers /\ status'[job'[v]] \in {"in_progress", "error"}
    <3>1. \A v \in Worker : job[v] # None =>
            kind[job[v]] \in Drivers /\ status[job[v]] \in {"in_progress", "error"}
      BY DEF IInv, Holding
    <3>2. \A v \in Worker : job'[v] # None => job[v] \in Row \ {n} /\ job[v] # None
      BY <2>1, <2>2
    <3> SUFFICES ASSUME NEW v \in Worker, job'[v] # None
                 PROVE kind'[job'[v]] \in Drivers /\ status'[job'[v]] \in {"in_progress", "error"}
      OBVIOUS
    <3>3. job'[v] = job[v] /\ job[v] \in Row \ {n} /\ job[v] # c /\ job[v] # None
      BY <2>1, <3>2
    <3>4. kind'[job[v]] = kind[job[v]] /\ status'[job[v]] = status[job[v]]
      BY <3>3, <1>2
    <3> QED  BY <3>1, <3>3, <3>4
  <2>4. reaping' => \A v \in Worker : job'[v] = None
    BY <1>4, <1>7a DEF IInv, Holding
  <2>5. ClaimedOnce'
    BY <1>7a DEF IInv, ClaimedOnce
  <2> QED  BY <2>3, <2>4, <2>5, <2>b, <1>4 DEF Holding
<1>12. OneDriver'
  <2>1. ASSUME NEW q \in Row, Active(q)', q # n
        PROVE  Active(q) /\ q # c /\ turn'[q] = turn[q]
    BY <2>1, <1>2, <1>8
  <2>2. \A q \in Row : Active(q) /\ turn[q] = turn[c] => q = c
    BY <1>0, <1>9 DEF IInv, OneDriver
  <2>3. \A q, r \in Row : Active(q) /\ Active(r) /\ turn[q] = turn[r] => q = r
    BY DEF IInv, OneDriver
  <2>4. turn'[n] = turn[c]
    BY <1>2
  <2> SUFFICES ASSUME NEW q \in Row, NEW r \in Row, Active(q)', Active(r)', turn'[q] = turn'[r]
               PROVE  q = r
    BY DEF OneDriver
  <2>5. CASE q # n /\ r # n
    BY <2>1, <2>3, <2>5
  <2>6. CASE q = n \/ r = n
    BY <2>1, <2>2, <2>4, <2>6
  <2> QED  BY <2>5, <2>6
<1>13. \A d \in Row : kind[d] = "tool_dispatch" => parent[d] # c
  BY <1>9 DEF IInv, Links
<1>14. Links'
  <2> SUFFICES ASSUME NEW d \in Row, kind'[d] = "tool_dispatch"
               PROVE /\ parent'[d] \in Row /\ kind'[parent'[d]] = "chat"
                     /\ status'[parent'[d]] = "done" /\ ~Held(parent[d])'
                     /\ \A e \in Row : kind'[e] = "tool_dispatch" /\ parent'[e] = parent'[d] => e = d
                     /\ Handled(d)' \subseteq asked'[parent'[d]]
                     /\ status'[d] = "waiting_for_tools" => AllHandled(d)'
    BY DEF Links
  <2>1. CASE d = n
    <3>1. Handled(d)' = {}
      <4>1. d > last
        BY <2>1, <1>2
      <4> QED  BY <4>1, <1>4 DEF IInv, Fresh, Handled
    <3>2. parent'[n] = c /\ kind'[c] = "chat" /\ status'[c] = "done" /\ status'[n] = "pending"
      BY <1>0, <1>2
    <3>3. ~Held(parent[d])'
      BY <2>1, <3>2, <1>7a DEF Held
    <3>4. \A e \in Row : kind'[e] = "tool_dispatch" /\ parent'[e] = c => e = n
      BY <1>2, <1>13
    <3> QED  BY <2>1, <3>1, <3>2, <3>3, <3>4, <1>0
  <2>2. CASE d # n
    <3>1. /\ kind[d] = "tool_dispatch" /\ parent'[d] = parent[d] /\ parent[d] # c
          /\ parent[d] # n /\ d # c /\ parent[d] \in Row
      <4>1. kind[d] = "tool_dispatch" /\ parent'[d] = parent[d]
        BY <2>2, <1>2
      <4>2. parent[d] \in Row /\ kind[parent[d]] = "chat"
        BY <4>1 DEF IInv, Links
      <4>3. parent[d] # c
        BY <4>1, <1>13
      <4>4. parent[d] # n /\ d # c
        BY <4>1, <4>2, <1>0, <1>2
      <4> QED  BY <4>1, <4>2, <4>3, <4>4
    <3>2. asked'[parent[d]] = asked[parent[d]]
      BY <3>1, <1>3
    <3>3. /\ kind'[parent[d]] = "chat" /\ status'[parent[d]] = "done" /\ status'[d] = status[d]
          /\ \A v \in Worker : job[v] # parent[d]
      <4>1. /\ kind[parent[d]] = "chat" /\ status[parent[d]] = "done"
            /\ \A v \in Worker : job[v] # parent[d]
        BY <3>1, Linked
      <4> QED  BY <4>1, <3>1, <2>2, <1>2
    <3>4. ~Held(parent[d])'
      BY <3>1, <3>3, <1>0, <1>7a DEF Held
    <3>5. \A e \in Row : kind'[e] = "tool_dispatch" /\ parent'[e] = parent[d] => e = d
      <4>1. \A e \in Row : kind[e] = "tool_dispatch" /\ parent[e] = parent[d] => e = d
        BY <3>1, Linked
      <4>2. parent'[n] # parent[d]
        BY <3>1, <1>2
      <4>3. \A e \in Row \ {n} : kind'[e] = kind[e] /\ parent'[e] = parent[e]
        BY <1>2
      <4> QED  BY <4>1, <4>2, <4>3
    <3>6. Handled(d) \subseteq asked[parent[d]] /\ (status[d] = "waiting_for_tools" => AllHandled(d))
      BY <3>1 DEF IInv, Links
    <3> QED  BY <3>1, <3>2, <3>3, <3>4, <3>5, <3>6, <1>4 DEF Handled, AllHandled
  <2> QED  BY <2>1, <2>2
<1>15. Unanswered'
  <2>1. \A k \in Call : replies[c][k] = 0
    BY <1>0, <1>9 DEF IInv, Unanswered
  <2> QED  BY <2>1, <1>2, <1>4, <1>8 DEF IInv, Unanswered
<1>16. Continued'
  <2> SUFFICES ASSUME NEW r \in Row, kind'[r] = "chat", parent'[r] # None
               PROVE  /\ parent'[r] \in Row /\ kind'[parent'[r]] = "tool_dispatch"
                      /\ ~Active(parent[r])'
    BY DEF Continued
  <2>1. r # n /\ kind[r] = "chat" /\ parent'[r] = parent[r] /\ parent[r] # None
    BY <1>2
  <2>2. parent[r] \in Row /\ kind[parent[r]] = "tool_dispatch" /\ ~Active(parent[r])
    BY <2>1 DEF IInv, Continued
  <2>3. /\ parent[r] # n /\ parent[r] # c /\ kind'[parent[r]] = "tool_dispatch"
        /\ status'[parent[r]] = status[parent[r]]
    BY <2>2, <1>0, <1>2
  <2> QED  BY <2>1, <2>2, <2>3, <1>0, <1>7a DEF Active, Held
<1>17. OneContinuation'
  <2>1. \A r \in Row : kind'[r] = "chat" => kind[r] = "chat" /\ parent'[r] = parent[r]
    BY <1>2
  <2> QED  BY <2>1 DEF IInv, OneContinuation, Continuations
<1>18. ContinuationComplete'
  <2> SUFFICES ASSUME NEW r \in Row, kind'[r] = "chat", parent'[r] # None,
                      NEW k \in asked'[parent'[parent'[r]]]
               PROVE replies'[parent'[parent'[r]]][k] = 1
    BY DEF ContinuationComplete
  <2>1. /\ r # n /\ kind[r] = "chat" /\ parent'[r] = parent[r] /\ parent[r] \in Row
        /\ parent[r] # n /\ kind[parent[r]] = "tool_dispatch"
    BY <1>2 DEF IInv, Continued
  <2>2. parent'[parent'[r]] = parent[parent[r]] /\ parent[parent[r]] # c
    BY <2>1, <1>2, <1>13
  <2>3. parent[parent[r]] \in Row
    BY <2>1 DEF IInv, Links
  <2>4. k \in asked[parent[parent[r]]]
    BY <2>1, <2>2, <2>3, <1>3
  <2> QED  BY <2>1, <2>2, <2>4, <1>4 DEF IInv, ContinuationComplete
<1>19. ReplyOnce'
  BY <1>4 DEF IInv, ReplyOnce
<1> QED
  BY <1>6, <1>10, <1>11, <1>12, <1>14, <1>15, <1>16, <1>17, <1>18, <1>19 DEF IInv

LEMMA EnqueueChildStep == ASSUME IInv, NEW w \in Worker, EnqueueChild(w) PROVE IInv'
<1> DEFINE n == last'
           d == job[w]
<1>0. TypeOK /\ d \in Row /\ kind[d] = "tool_dispatch" /\ turn[d] \in 0 .. MaxPosts /\ None \notin Row
  BY DEF IInv, EnqueueChild, Holds, TypeOK, None, Row
<1>1. Insert("mcp_proxy", None, turn[d], None, "free")  BY DEF EnqueueChild
<1>2. /\ n \in Row /\ n = last + 1 /\ last \in Nat
      /\ kind[n] = "free" /\ n # d
      /\ kind'[n] = "mcp_proxy" /\ parent'[n] = None /\ turn'[n] = turn[d]
      /\ status'[n] = "pending"
      /\ ~Held(n)
      /\ \A q \in Row \ {n} :
            /\ kind'[q] = kind[q] /\ parent'[q] = parent[q] /\ turn'[q] = turn[q]
            /\ status'[q] = status[q]
      /\ \A q \in Row : q > n => q > last
      /\ \A q \in Row : q <= n => q <= last \/ q = n
      /\ n > last
  BY <1>0, <1>1, InsertFacts DEF Statuses
<1>3. PICK k \in asked[parent[d]] \cap Proxied : child' = [child EXCEPT ![d][k] = n]
  BY DEF EnqueueChild
<1>4. UNCHANGED <<asked, replies, rounds, ran, job, since, verdict, reaping, bridge, posts,
                  cancelled, faults>>
  BY DEF EnqueueChild, msgVars, envVars, workVars
<1>5. parent[d] \in Row /\ k \in asked[parent[d]] /\ k \in Call /\ n # None
  BY <1>0, <1>2, <1>3 DEF IInv, Links, TypeOK
<1>6. TypeOK'
  <2>1. /\ last' \in 0 .. MaxRows /\ kind' \in [Row -> Kinds]
        /\ status' \in [Row -> Statuses]
        /\ parent' \in [Row -> Row \cup {None}]
        /\ turn' \in [Row -> 0 .. MaxPosts]
        /\ \A q \in Row : q > last' <=> kind'[q] = "free"
    BY <1>0, <1>1, InsertType DEF Statuses
  <2>2. child' \in [Row -> [Call -> Row \cup {None}]]
    BY <1>0, <1>2, <1>3, <1>5 DEF TypeOK
  <2> QED  BY <2>1, <2>2, <1>0, <1>4 DEF TypeOK, TxnTypeOK
<1>7. \A q \in Row : q # d => child'[q] = child[q]
  BY <1>3
<1>8. \A l \in Call : child'[d][l] = IF l = k THEN n ELSE child[d][l]
  BY <1>0, <1>3, <1>5 DEF TypeOK
<1>9. \A v \in Worker : job[v] # n
  BY <1>2 DEF Held
<1>10. Fresh'
  <2>1. \A q \in Row : q > n => q > last /\ q # d /\ q # n
    BY <1>0, <1>2 DEF TypeOK, Row
  <2>b. \A q \in Row : q <= last => status[q] # "free"
    BY DEF IInv, Fresh
  <2>2. \A q \in Row \ {n} : q <= n => status'[q] # "free"
    BY <2>b, <1>2
  <2>3. \A q \in Row : q > n => status'[q] = "free" /\ parent'[q] = None
    BY <2>1, <1>2 DEF IInv, Fresh
  <2>4. \A q \in Row : q > n => ran'[q] = {} /\ \A l \in Call : child'[q][l] = None /\ replies'[q][l] = 0
    BY <2>1, <1>4, <1>7 DEF IInv, Fresh
  <2>a. \A q \in Row : turn[q] <= posts
    BY DEF IInv, Fresh
  <2>5. \A q \in Row : turn'[q] <= posts'
    BY <2>a, <1>0, <1>2, <1>4
  <2> QED  BY <2>2, <2>3, <2>4, <2>5, <1>2 DEF Fresh
<1>11. Holding' /\ ClaimedOnce'
  <2>1. \A v \in Worker : job[v] # None => job[v] \in Row \ {n}
    BY <1>0, <1>9 DEF TypeOK
  <2>2. \A q \in bridge : q \in Row /\ kind[q] = "mcp_proxy"
    BY <1>0 DEF IInv, Holding, TypeOK
  <2>3. n \notin bridge
    BY <2>2, <1>2
  <2>b. \A q \in bridge : kind'[q] = "mcp_proxy"
    BY <2>2, <2>3, <1>2
  <2> QED  BY <2>1, <2>b, <1>2, <1>4 DEF IInv, Holding, ClaimedOnce
<1>12. \A q \in Row \ {n} : Active(q)' <=> Active(q)
  BY <1>2, <1>4 DEF Active, Held
<1>13. ASSUME NEW q \in Row, Active(q)' PROVE q # n /\ Active(q)
  <2>1. q # n
    BY <1>2, <1>13 DEF Active, Drivers
  <2> QED  BY <2>1, <1>12, <1>13
<1>14. OneDriver'
  BY <1>2, <1>13 DEF IInv, OneDriver
<1>15. Links'
  <2> SUFFICES ASSUME NEW e \in Row, kind'[e] = "tool_dispatch"
               PROVE /\ parent'[e] \in Row /\ kind'[parent'[e]] = "chat"
                     /\ status'[parent'[e]] = "done" /\ ~Held(parent[e])'
                     /\ \A f \in Row : kind'[f] = "tool_dispatch" /\ parent'[f] = parent'[e] => f = e
                     /\ Handled(e)' \subseteq asked'[parent'[e]]
                     /\ status'[e] = "waiting_for_tools" => AllHandled(e)'
    BY DEF Links
  <2>1. /\ e # n /\ kind[e] = "tool_dispatch" /\ parent'[e] = parent[e] /\ status'[e] = status[e]
        /\ parent[e] \in Row /\ parent[e] # n
    BY <1>2 DEF IInv, Links
  <2>2. /\ kind'[parent[e]] = "chat" /\ status'[parent[e]] = "done"
        /\ \A v \in Worker : job[v] # parent[e]
    <3>1. /\ kind[parent[e]] = "chat" /\ status[parent[e]] = "done"
          /\ \A v \in Worker : job[v] # parent[e]
      BY <2>1, Linked
    <3> QED  BY <3>1, <2>1, <1>2
  <2>3. ~Held(parent[e])'
    BY <2>1, <2>2, <1>4 DEF Held
  <2>4. \A f \in Row : kind'[f] = "tool_dispatch" /\ parent'[f] = parent[e] => f = e
    <3>1. \A f \in Row : kind'[f] = "tool_dispatch" => kind[f] = "tool_dispatch" /\ parent'[f] = parent[f]
      BY <1>2
    <3>2. \A f \in Row : kind[f] = "tool_dispatch" /\ parent[f] = parent[e] => f = e
      BY <2>1, Linked
    <3> QED  BY <3>1, <3>2
  <2>5. Handled(e) \subseteq asked[parent[e]] /\ (status[e] = "waiting_for_tools" => AllHandled(e))
    BY <2>1 DEF IInv, Links
  <2>6. Handled(e)' \subseteq asked[parent[e]] /\ Handled(e) \subseteq Handled(e)'
    <3>1. CASE e # d
      BY <3>1, <2>5, <1>4, <1>7 DEF Handled
    <3>2. CASE e = d
      BY <3>2, <2>5, <1>2, <1>4, <1>5, <1>8 DEF Handled
    <3> QED  BY <3>1, <3>2
  <2>7. status'[e] = "waiting_for_tools" => AllHandled(e)'
    BY <2>1, <2>5, <2>6, <1>4 DEF AllHandled
  <2> QED  BY <2>1, <2>2, <2>3, <2>4, <2>6, <2>7, <1>4
<1>16. Unanswered'
  <2>1. \A e \in Row : kind'[e] = "tool_dispatch" =>
          e # n /\ kind[e] = "tool_dispatch" /\ parent'[e] = parent[e]
    BY <1>2
  <2>2. \A e \in Row : kind'[e] = "chat" => e # n /\ kind[e] = "chat"
    BY <1>2
  <2> QED  BY <2>1, <2>2, <1>4, <1>12 DEF IInv, Unanswered
<1>17. \A r \in Row : kind'[r] = "chat" => r # n /\ kind[r] = "chat" /\ parent'[r] = parent[r]
  BY <1>2
<1>18. \A r \in Row : kind[r] = "chat" /\ parent[r] # None =>
          /\ parent[r] \in Row \ {n} /\ kind[parent[r]] = "tool_dispatch"
          /\ parent'[parent[r]] = parent[parent[r]]
  BY <1>2 DEF IInv, Continued
<1>19. Continued'
  <2> SUFFICES ASSUME NEW r \in Row, kind'[r] = "chat", parent'[r] # None
               PROVE  /\ parent'[r] \in Row /\ kind'[parent'[r]] = "tool_dispatch"
                      /\ ~Active(parent[r])'
    BY DEF Continued
  <2>1. /\ r # n /\ kind[r] = "chat" /\ parent'[r] = parent[r]
        /\ parent[r] \in Row \ {n} /\ kind[parent[r]] = "tool_dispatch"
    BY <1>17, <1>18
  <2>2. ~Active(parent[r])
    BY <2>1 DEF IInv, Continued
  <2>3. kind'[parent[r]] = kind[parent[r]] /\ status'[parent[r]] = status[parent[r]]
    BY <2>1, <1>2
  <2> QED  BY <2>1, <2>2, <2>3, <1>4 DEF Active, Held
<1>20. OneContinuation'
  BY <1>17 DEF IInv, OneContinuation, Continuations
<1>21. ContinuationComplete'
  <2> SUFFICES ASSUME NEW r \in Row, kind'[r] = "chat", parent'[r] # None,
                      NEW l \in asked'[parent'[parent'[r]]]
               PROVE replies'[parent'[parent'[r]]][l] = 1
    BY DEF ContinuationComplete
  <2> QED  BY <1>4, <1>17, <1>18 DEF IInv, ContinuationComplete
<1>22. ReplyOnce'
  BY <1>4 DEF IInv, ReplyOnce
<1> QED
  BY <1>6, <1>10, <1>11, <1>14, <1>15, <1>16, <1>19, <1>20, <1>21, <1>22 DEF IInv

----------------------------------------------------------------------------
(* The steps that insert nothing and write no message, by QuietStep *)

LEMMA ClaimStep == ASSUME Calm, IInv, NEW w \in Worker, Claim(w) PROVE IInv'
<1>1. PICK r \in Row : /\ kind[r] \in Drivers /\ status[r] = "pending"
                       /\ status' = [status EXCEPT ![r] = "in_progress"]
                       /\ UNCHANGED <<last, kind, parent, turn>>
                       /\ job' = [job EXCEPT ![w] = r]
  BY DEF Claim, Claimable, SetStatus
<1>2. UNCHANGED <<asked, replies, rounds, ran, child, since, verdict, reaping, bridge, posts,
                  cancelled, faults>>
      /\ ~reaping
  BY DEF Claim, msgVars, fanVars, envVars, Running, Calm
<1>3. TypeOK  BY DEF IInv
<1>4. TypeOK'
  BY <1>1, <1>2, <1>3 DEF TypeOK, Statuses, TxnTypeOK
<1>5. \A v \in Worker : job'[v] = IF v = w THEN r ELSE job[v]
  BY <1>1, <1>3 DEF TypeOK
<1>6. \A q \in Row : status'[q] = IF q = r THEN "in_progress" ELSE status[q]
  BY <1>1, <1>3 DEF TypeOK
<1>7. \A v \in Worker : job[v] # r
  BY <1>1 DEF IInv, Holding, None, Row
<1>8. Holding' /\ ClaimedOnce'
  <2>1. \A v \in Worker : job[v] # None => job[v] \in Row
    BY <1>3 DEF TypeOK
  <2> QED  BY <2>1, <1>1, <1>2, <1>5, <1>6, <1>7 DEF IInv, Holding, ClaimedOnce
<1>9. ASSUME NEW q \in Row, Active(q)' PROVE Active(q)
  BY <1>1, <1>5, <1>6, <1>9 DEF Active, Held, Live
<1>10. ASSUME NEW q \in Row, status[q] = "done", ~Held(q) PROVE status'[q] = "done" /\ ~Held(q)'
  BY <1>1, <1>5, <1>6, <1>10 DEF Held
<1>11. \A q \in Row : status'[q] = "free" <=> status[q] = "free"
  BY <1>1, <1>6
<1>12. \A q \in Row : q > last => ran'[q] = {} /\ \A k \in Call : child'[q][k] = None
  BY <1>2 DEF IInv, Fresh
<1>13. \A d \in Row : kind[d] = "tool_dispatch" => Handled(d)' \subseteq asked[parent[d]]
  BY <1>2 DEF IInv, Links, Handled
<1>14. \A d \in Row : kind[d] = "tool_dispatch" /\ status'[d] = "waiting_for_tools" => AllHandled(d)'
  BY <1>1, <1>2, <1>6 DEF IInv, Links, Handled, AllHandled
<1> QED
  BY <1>1, <1>2, <1>4, <1>8, <1>9, <1>10, <1>11, <1>12, <1>13, <1>14, QuietStep

\* A step that moves one row to done, error or waiting and takes it out of
\* its worker's hands; no reply is written and nothing is forgotten.
LEMMA CloseStep ==
    ASSUME IInv,
           NEW r \in Row, Active(r),
           NEW s \in {"done", "error", "waiting_for_tools"},
           s = "waiting_for_tools" => kind[r] = "tool_dispatch" /\ AllHandled(r),
           SetStatus(r, s),
           UNCHANGED <<asked, replies, ran, child, reaping, bridge, posts, cancelled>>,
           rounds' \in Nat, faults' \in 0 .. MaxFaults,
           job' \in [Worker -> Row \cup {None}], TxnTypeOK',
           \A w \in Worker : (job'[w] = job[w] /\ job[w] # r) \/ job'[w] = None
    PROVE  IInv'
<1>1. TypeOK  BY DEF IInv
<1>2. TypeOK'
  BY <1>1 DEF TypeOK, SetStatus, Statuses
<1>3. UNCHANGED <<last, kind, parent, turn>>
  BY DEF SetStatus
<1>4. \A q \in Row : status'[q] = IF q = r THEN s ELSE status[q]
  BY <1>1 DEF TypeOK, SetStatus
<1>5. \A w \in Worker : job'[w] # None => job'[w] = job[w] /\ job[w] # r /\ job[w] \in Row
  BY <1>1 DEF TypeOK
<1>6. Holding' /\ ClaimedOnce'
  BY <1>3, <1>4, <1>5 DEF IInv, Holding, ClaimedOnce
<1>7. ASSUME NEW q \in Row, Active(q)' PROVE Active(q)
  BY <1>3, <1>4, <1>5, <1>7 DEF Active, Held, None, Row
<1>8. kind[r] # "free" /\ status[r] # "free" /\ (status[r] = "done" => Held(r))
  BY <1>1 DEF Active, Drivers, Live, Held, IInv, Fresh, TypeOK, Row
<1>9. ASSUME NEW q \in Row, status[q] = "done", ~Held(q) PROVE status'[q] = "done" /\ ~Held(q)'
  <2>1. q # r  BY <1>8, <1>9
  <2> QED  BY <2>1, <1>4, <1>5, <1>9 DEF Held, None, Row
<1>10. \A q \in Row : status'[q] = "free" <=> status[q] = "free"
  BY <1>4, <1>8
<1>11. \A q \in Row : q > last => ran'[q] = {} /\ \A k \in Call : child'[q][k] = None
  BY DEF IInv, Fresh
<1>12. \A d \in Row : kind[d] = "tool_dispatch" => Handled(d)' \subseteq asked[parent[d]]
  BY DEF IInv, Links, Handled
<1>13. ASSUME NEW d \in Row, kind[d] = "tool_dispatch", status'[d] = "waiting_for_tools"
       PROVE AllHandled(d)'
  <2>1. AllHandled(d)
    BY <1>4, <1>13 DEF IInv, Links
  <2> QED  BY <2>1, <1>3 DEF AllHandled, Handled
<1> QED
  BY <1>2, <1>3, <1>6, <1>7, <1>9, <1>10, <1>11, <1>12, <1>13, QuietStep

\* What Release does to the hands, for the row the worker held.
LEMMA ReleaseFacts ==
    ASSUME IInv, NEW w \in Worker, job[w] # None, Release(w)
    PROVE  /\ job[w] \in Row /\ Active(job[w])
           /\ job' \in [Worker -> Row \cup {None}] /\ TxnTypeOK'
           /\ \A v \in Worker : (job'[v] = job[v] /\ job[v] # job[w]) \/ job'[v] = None
<1>1. TypeOK /\ job[w] \in Row  BY DEF IInv, TypeOK
<1>2. Active(job[w])  BY <1>1 DEF IInv, Holding, Active, Held
<1>3. job' = [job EXCEPT ![w] = None]  BY DEF Release
<1>4. job' \in [Worker -> Row \cup {None}] /\ TxnTypeOK'  BY <1>1, ReleaseType
<1>5. \A v \in Worker : v # w => job[v] # job[w]
  BY <1>1 DEF IInv, ClaimedOnce
<1> QED  BY <1>1, <1>2, <1>3, <1>4, <1>5 DEF TypeOK

LEMMA WorkerClosesStep ==
    ASSUME IInv, NEW w \in Worker, ChatStops(w) \/ ChatFails(w) \/ DispatchWaits(w)
    PROVE  IInv'
<1>0. TypeOK  BY DEF IInv
<1>1. job[w] # None /\ Release(w)
  BY DEF ChatStops, ChatFails, DispatchWaits, Holds
<1>2. /\ UNCHANGED <<asked, replies, ran, child, reaping, bridge, posts, cancelled, faults>>
      /\ rounds' = rounds \/ rounds' = Counted(w)
  BY DEF ChatStops, ChatFails, DispatchWaits, msgVars, fanVars, envVars
<1>3. rounds' \in Nat /\ faults' \in 0 .. MaxFaults
  BY <1>0, <1>2, CountedType DEF TypeOK
<1>4. \E s \in {"done", "error", "waiting_for_tools"} :
        /\ SetStatus(job[w], s)
        /\ s = "waiting_for_tools" => kind[job[w]] = "tool_dispatch" /\ AllHandled(job[w])
  BY DEF ChatStops, ChatFails, DispatchWaits, Holds
<1> QED  BY <1>1, <1>2, <1>3, <1>4, ReleaseFacts, CloseStep

LEMMA PromoteRaisesStep == ASSUME IInv, PromoteRaises PROVE IInv'
<1>0. TypeOK  BY DEF IInv
<1>1. PICK d \in Row : kind[d] = "tool_dispatch" /\ status[d] = "waiting_for_tools"
                       /\ SetStatus(d, "error")
  BY DEF PromoteRaises, Due, Waiting
<1>2. /\ UNCHANGED <<asked, replies, rounds, ran, child, job, since, verdict, reaping, bridge,
                     posts, cancelled>>
      /\ faults' \in 0 .. MaxFaults
  BY <1>0, TurnLoopAssumption DEF PromoteRaises, Fault, msgVars, fanVars, TypeOK, workVars
<1>3. Active(d)  BY <1>1 DEF Active, Drivers, Live
<1>4. \A w \in Worker : job[w] # d
  BY <1>1 DEF IInv, Holding, None, Row
<1>5. rounds' \in Nat /\ job' \in [Worker -> Row \cup {None}] /\ TxnTypeOK'
  BY <1>0, <1>2 DEF TypeOK, TxnTypeOK
<1> QED  BY <1>1, <1>2, <1>3, <1>4, <1>5, CloseStep

LEMMA RunCallStep == ASSUME IInv, NEW w \in Worker, RunCall(w) PROVE IInv'
<1> DEFINE d == job[w]
<1>0. TypeOK /\ d \in Row /\ kind[d] = "tool_dispatch" /\ parent[d] \in Row
  BY DEF IInv, RunCall, Holds, TypeOK, Links
<1>1. PICK k \in asked[parent[d]] \ Handled(d) : ran' = [ran EXCEPT ![d] = @ \cup {k}]
  BY DEF RunCall
<1>2. UNCHANGED <<last, kind, status, parent, turn, asked, replies, rounds, child, job, since,
                  verdict, reaping, bridge, posts, cancelled, faults>>
  BY DEF RunCall, rowVars, msgVars, envVars, workVars
<1>3. k \in Call /\ k \in asked[parent[d]]  BY <1>0, <1>1 DEF TypeOK
<1>4. \A q \in Row : ran'[q] = IF q = d THEN ran[q] \cup {k} ELSE ran[q]
  BY <1>0, <1>1 DEF TypeOK
<1>5. TypeOK'  BY <1>0, <1>1, <1>2, <1>3 DEF TypeOK, TxnTypeOK
<1>6. Holding' /\ ClaimedOnce'  BY <1>2 DEF IInv, Holding, ClaimedOnce
<1>7. d <= last  BY <1>0 DEF TypeOK, Row
<1>8. \A q \in Row : q > last => ran'[q] = {} /\ \A l \in Call : child'[q][l] = None
  <2>1. \A q \in Row : q > last => q # d  BY <1>0, <1>7 DEF TypeOK, Row
  <2>2. \A q \in Row : q > last => ran[q] = {}  BY DEF IInv, Fresh
  <2>3. \A q \in Row : q > last => \A l \in Call : child'[q][l] = None
    BY <1>2 DEF IInv, Fresh
  <2> QED  BY <2>1, <2>2, <2>3, <1>4
<1>9. \A e \in Row : Handled(e)' \subseteq Handled(e) \cup (IF e = d THEN {k} ELSE {})
                     /\ Handled(e) \subseteq Handled(e)'
  BY <1>2, <1>4 DEF Handled
<1>10. \A e \in Row : kind[e] = "tool_dispatch" => Handled(e)' \subseteq asked[parent[e]]
  BY <1>3, <1>9 DEF IInv, Links
<1>11. ASSUME NEW e \in Row, kind[e] = "tool_dispatch", status'[e] = "waiting_for_tools"
       PROVE AllHandled(e)'
  <2>1. AllHandled(e)  BY <1>2, <1>11 DEF IInv, Links
  <2> QED  BY <2>1, <1>2, <1>9, <1>11 DEF AllHandled
<1>12. \A q \in Row : Active(q)' => Active(q)  BY <1>2 DEF Active, Held
<1>13. \A q \in Row : ~Held(q) => ~Held(q)'  BY <1>2 DEF Held
<1> QED
  BY <1>2, <1>5, <1>6, <1>8, <1>10, <1>11, <1>12, <1>13, QuietStep

\* Steps that leave every row as it is and give no row to anyone.
LEMMA HandsStep ==
    ASSUME IInv, TypeOK',
           UNCHANGED <<last, kind, status, parent, turn, asked, replies, ran, child, job, posts>>,
           reaping' => \A w \in Worker : job[w] = None,
           bridge' \subseteq bridge
    PROVE  IInv'
<1>1. Holding' /\ ClaimedOnce'  BY DEF IInv, Holding, ClaimedOnce
<1>2. \A q \in Row : Active(q)' => Active(q)  BY DEF Active, Held
<1>3. \A q \in Row : ~Held(q) => ~Held(q)'  BY DEF Held
<1>4. \A q \in Row : q > last => ran'[q] = {} /\ \A k \in Call : child'[q][k] = None
  BY DEF IInv, Fresh
<1>5. \A e \in Row : kind[e] = "tool_dispatch" => Handled(e)' \subseteq asked[parent[e]]
  BY DEF IInv, Links, Handled
<1>6. \A e \in Row : kind[e] = "tool_dispatch" /\ status'[e] = "waiting_for_tools" => AllHandled(e)'
  BY DEF IInv, Links, AllHandled, Handled
<1> QED  BY <1>1, <1>2, <1>3, <1>4, <1>5, <1>6, QuietStep

LEMMA ReapEndsStep ==
    ASSUME IInv, StartupReapEnds \/ StartupReapRaises \/ BridgeLoses
    PROVE  IInv'
<1>0. TypeOK  BY DEF IInv
<1>1. UNCHANGED <<last, kind, status, parent, turn, asked, replies, rounds, ran, child, job,
                  since, verdict, posts, cancelled>>
  BY DEF StartupReapEnds, StartupReapRaises, BridgeLoses, Fault, rowVars, msgVars, fanVars, envVars, workVars
<1>a. faults' \in 0 .. MaxFaults
  BY <1>0, TurnLoopAssumption
     DEF StartupReapEnds, StartupReapRaises, BridgeLoses, Fault, envVars, TypeOK
<1>b. bridge' \subseteq bridge
  BY DEF StartupReapEnds, StartupReapRaises, BridgeLoses
<1>c. reaping' = FALSE \/ reaping' = reaping
  BY DEF StartupReapEnds, StartupReapRaises, BridgeLoses
<1>2. TypeOK'  BY <1>0, <1>1, <1>a, <1>b, <1>c DEF TypeOK, TxnTypeOK
<1>3. reaping' => \A w \in Worker : job[w] = None
  BY <1>c DEF IInv, Holding
<1> QED  BY <1>1, <1>2, <1>3, <1>b, HandsStep

LEMMA OutcomeStep ==
    ASSUME IInv, NEW w \in Worker, ChatAnswers(w) \/ ChatCounts(w)
    PROVE  IInv'
<1>1. /\ TypeOK'
      /\ UNCHANGED <<last, kind, status, parent, turn, asked, replies, ran, child, job, reaping,
                     bridge, posts>>
  BY OutcomeType DEF IInv
<1>2. reaping' => \A v \in Worker : job[v] = None  BY <1>1 DEF IInv, Holding
<1> QED  BY <1>1, <1>2, HandsStep

\* Steps that only move mcp_proxy rows, which no background worker holds.
LEMMA ProxyStep ==
    ASSUME IInv, TypeOK',
           UNCHANGED <<last, kind, parent, turn, asked, replies, ran, child, job, reaping, posts>>,
           \A r \in Row : status'[r] = status[r]
                          \/ (kind[r] = "mcp_proxy" /\ status'[r] # "free"),
           \A r \in bridge' : kind[r] = "mcp_proxy"
    PROVE  IInv'
<1>0. TypeOK  BY DEF IInv
<1>1. Holding' /\ ClaimedOnce'
  <2>1. \A w \in Worker : job[w] # None => job[w] \in Row  BY <1>0 DEF TypeOK
  <2>2. \A w \in Worker : job[w] # None => status'[job[w]] = status[job[w]]
    BY <2>1 DEF IInv, Holding, Drivers
  <2> QED  BY <2>2 DEF IInv, Holding, ClaimedOnce
<1>2. \A q \in Row : Active(q)' => Active(q)  BY DEF Active, Held, Drivers
<1>3. \A q \in Row : ~Held(q) => ~Held(q)'  BY DEF Held
<1>4. \A q \in Row : q > last => ran'[q] = {} /\ \A k \in Call : child'[q][k] = None
  BY DEF IInv, Fresh
<1>5. \A e \in Row : kind[e] = "tool_dispatch" => Handled(e)' \subseteq asked[parent[e]]
  BY DEF IInv, Links, Handled
<1>6. \A e \in Row : kind[e] = "tool_dispatch" /\ status'[e] = "waiting_for_tools" => AllHandled(e)'
  BY DEF IInv, Links, AllHandled, Handled
<1>7. \A r \in Row : kind[r] = "mcp_proxy" => status[r] # "free"
  BY <1>0 DEF TypeOK, IInv, Fresh, Row
<1>8. \A r \in Row : status'[r] = "free" <=> status[r] = "free"
  BY <1>7
<1> QED  BY <1>1, <1>2, <1>3, <1>4, <1>5, <1>6, <1>8, QuietStep

LEMMA BridgeStep ==
    ASSUME IInv, BridgeClaim \/ BridgeAnswers \/ BridgeRestarts
    PROVE  IInv'
<1>0. TypeOK /\ (\A r \in bridge : kind[r] = "mcp_proxy" /\ r \in Row)
  BY DEF IInv, Holding, TypeOK
<1>1. /\ UNCHANGED <<last, kind, parent, turn, asked, replies, rounds, ran, child, job, since,
                     verdict, reaping, posts, cancelled>>
      /\ faults' \in 0 .. MaxFaults
  BY <1>0, TurnLoopAssumption
     DEF BridgeClaim, BridgeAnswers, BridgeRestarts, Fault, SetStatus, msgVars, fanVars,
         envVars, TypeOK, workVars
<1>2. /\ status' \in [Row -> Statuses]
      /\ bridge' \subseteq Row
      /\ \A r \in Row : status'[r] = status[r] \/ (kind[r] = "mcp_proxy" /\ status'[r] # "free")
      /\ \A r \in bridge' : kind[r] = "mcp_proxy"
  <2>1. CASE BridgeClaim
    <3>1. PICK r \in Row : /\ kind[r] = "mcp_proxy"
                           /\ status' = [status EXCEPT ![r] = "in_progress"]
                           /\ bridge' = bridge \cup {r}
      BY <2>1 DEF BridgeClaim, SetStatus
    <3>2. \A q \in Row : status'[q] = IF q = r THEN "in_progress" ELSE status[q]
      BY <3>1, <1>0 DEF TypeOK
    <3>3. status' \in [Row -> Statuses]
      BY <3>1, <1>0 DEF TypeOK, Statuses
    <3>4. bridge' \subseteq Row /\ \A q \in bridge' : kind[q] = "mcp_proxy"
      BY <3>1, <1>0 DEF TypeOK
    <3>5. ASSUME NEW q \in Row, status'[q] # status[q]
          PROVE  kind[q] = "mcp_proxy" /\ status'[q] # "free"
      BY <3>1, <3>2, <3>5, <1>0
    <3> QED  BY <3>3, <3>4, <3>5
  <2>2. CASE BridgeAnswers
    <3>1. PICK r \in bridge, s \in {"done", "error"} :
            status' = [status EXCEPT ![r] = s] /\ bridge' = bridge \ {r}
      BY <2>2 DEF BridgeAnswers, SetStatus
    <3>2. \A q \in Row : status'[q] = IF q = r THEN s ELSE status[q]
      BY <3>1, <1>0 DEF TypeOK
    <3>3. status' \in [Row -> Statuses]
      BY <3>1, <1>0 DEF TypeOK, Statuses
    <3>4. bridge' \subseteq Row /\ \A q \in bridge' : kind[q] = "mcp_proxy"
      BY <3>1, <1>0 DEF TypeOK
    <3>5. ASSUME NEW q \in Row, status'[q] # status[q]
          PROVE  kind[q] = "mcp_proxy" /\ status'[q] # "free"
      BY <3>1, <3>2, <3>5, <1>0
    <3> QED  BY <3>3, <3>4, <3>5
  <2>3. CASE BridgeRestarts
    <3>1. /\ status' = [r \in Row |-> IF kind[r] = "mcp_proxy" /\ status[r] = "in_progress"
                                      THEN "error" ELSE status[r]]
          /\ bridge' = {}
      BY <2>3 DEF BridgeRestarts, StaleProxy
    <3>2. \A q \in Row : status'[q] = IF kind[q] = "mcp_proxy" /\ status[q] = "in_progress"
                                      THEN "error" ELSE status[q]
      BY <3>1, <1>0 DEF TypeOK
    <3>3. status' \in [Row -> Statuses]
      BY <3>1, <1>0 DEF TypeOK, Statuses
    <3>4. bridge' \subseteq Row /\ \A q \in bridge' : kind[q] = "mcp_proxy"
      BY <3>1, <1>0 DEF TypeOK
    <3>5. ASSUME NEW q \in Row, status'[q] # status[q]
          PROVE  kind[q] = "mcp_proxy" /\ status'[q] # "free"
      BY <3>1, <3>2, <3>5, <1>0
    <3> QED  BY <3>3, <3>4, <3>5
  <2> QED  BY <2>1, <2>2, <2>3
<1>3. TypeOK'  BY <1>0, <1>1, <1>2 DEF TypeOK, TxnTypeOK
<1> QED  BY <1>1, <1>2, <1>3, ProxyStep

LEMMA CancelStep == ASSUME IInv, Cancel PROVE IInv'
<1>0. TypeOK  BY DEF IInv
<1>1. UNCHANGED <<last, kind, parent, turn, asked, replies, rounds, ran, child, job, since,
                  verdict, reaping, bridge, posts>>
  BY DEF Cancel, msgVars, fanVars, workVars
<1>2. \A q \in Row : status'[q] = IF kind[q] \in Drivers /\ status[q] \in Live THEN "error"
                                  ELSE status[q]
  BY DEF Cancel
<1>3. status' \in [Row -> Statuses]
  BY <1>0 DEF Cancel, TypeOK, Statuses
<1>4. cancelled' \in BOOLEAN /\ faults' \in 0 .. MaxFaults
  BY <1>0, TurnLoopAssumption DEF Cancel, TypeOK
<1>5. TypeOK'  BY <1>0, <1>1, <1>3, <1>4 DEF TypeOK, TxnTypeOK
<1>6. Holding' /\ ClaimedOnce'
  <2>1. \A w \in Worker : job[w] # None => job[w] \in Row  BY <1>0 DEF TypeOK
  <2>2. \A w \in Worker : job[w] # None => status'[job[w]] \in {"in_progress", "error"}
    BY <2>1, <1>2 DEF IInv, Holding
  <2> QED  BY <2>2, <1>1 DEF IInv, Holding, ClaimedOnce
<1>7. \A q \in Row : Active(q)' => Active(q)
  BY <1>1, <1>2 DEF Active, Held, Live
<1>8. \A q \in Row : status[q] = "done" /\ ~Held(q) => status'[q] = "done" /\ ~Held(q)'
  BY <1>1, <1>2 DEF Held, Live
<1>9. \A q \in Row : status'[q] = "free" <=> status[q] = "free"
  BY <1>2 DEF Live
<1>10. \A q \in Row : q > last => ran'[q] = {} /\ \A k \in Call : child'[q][k] = None
  BY <1>1 DEF IInv, Fresh
<1>11. \A e \in Row : kind[e] = "tool_dispatch" => Handled(e)' \subseteq asked[parent[e]]
  BY <1>1 DEF IInv, Links, Handled
<1>12. \A e \in Row : kind[e] = "tool_dispatch" /\ status'[e] = "waiting_for_tools" => AllHandled(e)'
  BY <1>1, <1>2 DEF IInv, Links, AllHandled, Handled
<1> QED
  BY <1>1, <1>5, <1>6, <1>7, <1>8, <1>9, <1>10, <1>11, <1>12, QuietStep

\* Workers die: what they knew of the rows in R is gone, the rows stay.
LEMMA ForgetStep ==
    ASSUME IInv, NEW R, Forget(R),
           \A r \in R \cap Row : status[r] # "waiting_for_tools",
           UNCHANGED <<last, kind, status, parent, turn, asked, replies, rounds, bridge, posts,
                       cancelled>>,
           faults' \in 0 .. MaxFaults, reaping' \in BOOLEAN,
           job' \in [Worker -> Row \cup {None}], TxnTypeOK',
           \A w \in Worker : job'[w] = job[w] \/ job'[w] = None,
           reaping' => \A w \in Worker : job'[w] = None
    PROVE  IInv'
<1>0. TypeOK  BY DEF IInv
<1>1. ASSUME NEW q \in Row
      PROVE  /\ q \in R => ran'[q] = {} /\ child'[q] = [k \in Call |-> None]
             /\ q \notin R => ran'[q] = ran[q] /\ child'[q] = child[q]
  <2>1. ran'[q] = IF q \in R THEN {} ELSE ran[q]
    BY Zenon DEF Forget
  <2>2. child'[q] = IF q \in R THEN [k \in Call |-> None] ELSE child[q]
    BY Zenon DEF Forget
  <2> QED  BY <2>1, <2>2
<1>2. ran' \in [Row -> SUBSET Call] /\ child' \in [Row -> [Call -> Row \cup {None}]]
  BY <1>0 DEF Forget, TypeOK
<1>3. TypeOK'  BY <1>0, <1>2 DEF TypeOK
<1>4. Holding' /\ ClaimedOnce'  BY DEF IInv, Holding, ClaimedOnce
<1>5. ASSUME NEW q \in Row, Held(q)' PROVE Held(q)
  BY <1>5 DEF Held, None, Row
<1>6. ASSUME NEW q \in Row, Active(q)' PROVE Active(q)
  BY <1>5, <1>6 DEF Active
<1>7. \A q \in Row : ran'[q] = ran[q] \/ ran'[q] = {}
  BY <1>1
<1>8. \A q \in Row, k \in Call : child'[q][k] = child[q][k] \/ child'[q][k] = None
  <2> SUFFICES ASSUME NEW q \in Row, NEW k \in Call
               PROVE child'[q][k] = child[q][k] \/ child'[q][k] = None
    OBVIOUS
  <2> QED  BY <1>1
<1>9. \A q \in Row : q > last => ran'[q] = {} /\ \A k \in Call : child'[q][k] = None
  BY <1>7, <1>8 DEF IInv, Fresh
<1>10. \A e \in Row : Handled(e)' \subseteq Handled(e)
  BY <1>7, <1>8 DEF Handled
<1>11. \A e \in Row : kind[e] = "tool_dispatch" => Handled(e)' \subseteq asked[parent[e]]
  BY <1>10 DEF IInv, Links
<1>12. ASSUME NEW e \in Row, kind[e] = "tool_dispatch", status'[e] = "waiting_for_tools"
       PROVE AllHandled(e)'
  <2>1. e \notin R /\ AllHandled(e)  BY <1>12 DEF IInv, Links
  <2>2. ran'[e] = ran[e] /\ child'[e] = child[e]  BY <2>1, <1>1
  <2> QED  BY <2>1, <2>2 DEF AllHandled, Handled
<1> QED
  BY <1>3, <1>4, <1>5, <1>6, <1>9, <1>11, <1>12, QuietStep

LEMMA CrashStep ==
    ASSUME IInv, (\E w \in Worker : WorkerCrash(w)) \/ ServerRestart
    PROVE  IInv'
<1>0. TypeOK  BY DEF IInv
<1>1. CASE \E w \in Worker : WorkerCrash(w)
  <2>1. PICK w \in Worker : WorkerCrash(w)  BY <1>1
  <2>2. Release(w) /\ job' = [job EXCEPT ![w] = None] /\ job[w] # None
    BY <2>1 DEF WorkerCrash, Release, Idle
  <2>3. /\ job' \in [Worker -> Row \cup {None}] /\ TxnTypeOK'
        /\ \A v \in Worker : job'[v] = job[v] \/ job'[v] = None
    BY <2>2, <1>0, ReleaseType DEF TypeOK
  <2>4. \A r \in {job[w]} \cap Row : status[r] # "waiting_for_tools"
    BY <2>2 DEF IInv, Holding
  <2>5. /\ UNCHANGED <<last, kind, status, parent, turn, asked, replies, rounds, bridge, posts,
                      cancelled, reaping>>
        /\ faults' \in 0 .. MaxFaults
    BY <2>1, <1>0, TurnLoopAssumption DEF WorkerCrash, Fault, rowVars, msgVars, TypeOK
  <2>6. reaping' \in BOOLEAN /\ (reaping' => \A v \in Worker : job'[v] = None)
    BY <2>3, <2>5, <1>0 DEF IInv, Holding, TypeOK
  <2> QED  BY <2>1, <2>3, <2>4, <2>5, <2>6, ForgetStep DEF WorkerCrash
<1>2. CASE ServerRestart
  <2>1. /\ job' = [w \in Worker |-> None] /\ reaping' = TRUE
        /\ since' = [w \in Worker |-> 0] /\ verdict' = [w \in Worker |-> "none"]
    BY <1>2 DEF ServerRestart
  <2>2. /\ job' \in [Worker -> Row \cup {None}] /\ TxnTypeOK'
        /\ \A v \in Worker : job'[v] = None
    BY <2>1, TurnLoopAssumption DEF TxnTypeOK
  <2>3. \A r \in {job[w] : w \in Worker} \cap Row : status[r] # "waiting_for_tools"
    BY DEF IInv, Holding, None, Row
  <2>4. /\ UNCHANGED <<last, kind, status, parent, turn, asked, replies, rounds, bridge, posts,
                      cancelled>>
        /\ faults' \in 0 .. MaxFaults
    BY <1>2, <1>0, TurnLoopAssumption DEF ServerRestart, Fault, rowVars, msgVars, TypeOK
  <2> QED  BY <1>2, <2>1, <2>2, <2>3, <2>4, ForgetStep DEF ServerRestart
<1> QED  BY <1>1, <1>2

----------------------------------------------------------------------------
(* The steps that close a dispatch, by ContinueStep *)

\* A dispatch with every call handled answers exactly what was asked.
LEMMA HandledIsAsked ==
    ASSUME IInv, NEW d \in Row, kind[d] = "tool_dispatch", AllHandled(d)
    PROVE  Handled(d) = asked[parent[d]]
BY DEF IInv, Links, AllHandled

\* While a dispatch is active nothing has been answered, so that synthesizing
\* the missing replies answers exactly what was asked.
LEMMA MissingIsAsked ==
    ASSUME IInv, NEW d \in Row, kind[d] = "tool_dispatch", Active(d),
           SynthesizeMissing(parent[d])
    PROVE  Reply(parent[d], asked[parent[d]])
<1>1. parent[d] \in Row /\ asked[parent[d]] \subseteq Call
  BY DEF IInv, Links, TypeOK
<1>2. {k \in asked[parent[d]] : replies[parent[d]][k] = 0} = asked[parent[d]]
  BY <1>1 DEF IInv, Unanswered
<1> QED  BY <1>2 DEF SynthesizeMissing

LEMMA DispatchClosesStep ==
    ASSUME IInv, NEW w \in Worker, DispatchDone(w) \/ DispatchFails(w)
    PROVE  IInv'
<1> DEFINE d == job[w]
<1>0. TypeOK /\ d # None /\ kind[d] = "tool_dispatch" /\ Release(w)
  BY DEF IInv, DispatchDone, DispatchFails, Holds
<1>1. /\ d \in Row /\ Active(d)
      /\ job' \in [Worker -> Row \cup {None}] /\ TxnTypeOK'
      /\ \A v \in Worker : (job'[v] = job[v] /\ job[v] # d) \/ job'[v] = None
  BY <1>0, ReleaseFacts
<1>2. UNCHANGED <<asked, rounds, ran, child, reaping, bridge, posts, cancelled, faults>>
  BY DEF DispatchDone, DispatchFails, fanVars, envVars
<1>3. faults' \in 0 .. MaxFaults  BY <1>0, <1>2 DEF TypeOK
<1>4. CASE DispatchDone(w)
  <2>1. \A k \in Call : child[d][k] = None
    BY <1>4 DEF DispatchDone, Children
  <2>2. Handled(d) = ran[d]
    BY <2>1 DEF Handled
  <2>3. Handled(d) = asked[parent[d]]
    BY <1>0, <1>1, <1>4, HandledIsAsked DEF DispatchDone
  <2>4. Reply(parent[d], asked[parent[d]]) /\ Continue(d, "done")
    BY <1>4, <2>2, <2>3 DEF DispatchDone
  <2> QED  BY <1>0, <1>1, <1>2, <1>3, <2>4, ContinueStep
<1>5. CASE DispatchFails(w)
  <2>1. Reply(parent[d], asked[parent[d]]) /\ Continue(d, "error")
    BY <1>0, <1>1, <1>5, MissingIsAsked DEF DispatchFails
  <2> QED  BY <1>0, <1>1, <1>2, <1>3, <2>1, ContinueStep
<1> QED  BY <1>4, <1>5

LEMMA PromoteStep == ASSUME IInv, Promote PROVE IInv'
<1>0. TypeOK  BY DEF IInv
<1>1. PICK d \in Row : /\ kind[d] = "tool_dispatch" /\ status[d] = "waiting_for_tools"
                       /\ Reply(parent[d], Handled(d)) /\ Continue(d, "done")
  BY DEF Promote, Due, Waiting, FinalMsgs, Resume
<1>2. UNCHANGED <<asked, rounds, ran, child, job, since, verdict, reaping, bridge, posts,
                  cancelled, faults>>
  BY DEF Promote, fanVars, envVars, workVars
<1>3. Active(d)  BY <1>1 DEF Active, Drivers, Live
<1>4. AllHandled(d)  BY <1>1 DEF IInv, Links
<1>5. Reply(parent[d], asked[parent[d]])  BY <1>1, <1>4, HandledIsAsked
<1>6. \A w \in Worker : job[w] # d
  BY <1>1 DEF IInv, Holding, None, Row
<1>7. job' \in [Worker -> Row \cup {None}] /\ TxnTypeOK' /\ faults' \in 0 .. MaxFaults
  BY <1>0, <1>2 DEF TypeOK, TxnTypeOK
<1> QED  BY <1>1, <1>2, <1>3, <1>5, <1>6, <1>7, ContinueStep

\* Either reaper, on a row in progress that nobody holds.
LEMMA ReapStep ==
    ASSUME IInv, NEW r \in Row, status[r] = "in_progress", \A w \in Worker : job[w] # r,
           Reap(r),
           UNCHANGED <<asked, rounds, ran, child, job, since, verdict, reaping, bridge, posts,
                       cancelled, faults>>
    PROVE  IInv'
<1>0. TypeOK  BY DEF IInv
<1>1. /\ rounds' \in Nat /\ faults' \in 0 .. MaxFaults
      /\ job' \in [Worker -> Row \cup {None}] /\ TxnTypeOK'
  BY <1>0 DEF TypeOK, TxnTypeOK
<1>2. kind[r] \in Drivers => Active(r)  BY DEF Active, Live
<1>3. CASE kind[r] = "tool_dispatch"
  <2>1. SynthesizeMissing(parent[r]) /\ Continue(r, "error")
    BY <1>3 DEF Reap
  <2>2. Reply(parent[r], asked[parent[r]])
    BY <1>2, <1>3, <2>1, MissingIsAsked DEF Drivers
  <2> QED  BY <1>1, <1>2, <1>3, <2>1, <2>2, ContinueStep DEF Drivers
<1>4. CASE kind[r] # "tool_dispatch"
  <2>1. kind[r] = "chat" /\ SetStatus(r, "error") /\ UNCHANGED replies
    BY <1>4 DEF Reap
  <2> QED  BY <1>1, <1>2, <2>1, CloseStep DEF Drivers
<1> QED  BY <1>3, <1>4

LEMMA ReapersStep == ASSUME IInv, StartupReap \/ PeriodicReap PROVE IInv'
<1>1. UNCHANGED <<asked, rounds, ran, child, job, since, verdict, reaping, bridge, posts,
                  cancelled, faults>>
  BY DEF StartupReap, PeriodicReap, fanVars, envVars, workVars
<1>2. PICK r \in Row : status[r] = "in_progress" /\ Reap(r) /\ (reaping \/ ~Held(r))
  BY DEF StartupReap, PeriodicReap, Abandoned
<1>3. \A w \in Worker : job[w] # r
  BY <1>2 DEF IInv, Holding, Held, None, Row
<1> QED  BY <1>1, <1>2, <1>3, ReapStep

----------------------------------------------------------------------------
(* The theorems *)

LEMMA InitIInv == Init => IInv
<1> SUFFICES ASSUME Init PROVE IInv  OBVIOUS
<1>1. TypeOK
  <2>1. /\ kind \in [Row -> Kinds] /\ status \in [Row -> Statuses]
        /\ parent \in [Row -> Row \cup {None}] /\ turn \in [Row -> 0 .. MaxPosts]
        /\ job \in [Worker -> Row \cup {None}]
    BY TurnLoopAssumption DEF Init, Kinds, Statuses
  <2>c. TxnTypeOK
    BY TurnLoopAssumption DEF Init, TxnTypeOK
  <2>2. /\ asked \in [Row -> SUBSET Call] /\ ran \in [Row -> SUBSET Call]
    BY DEF Init
  <2>a. replies \in [Row -> [Call -> Nat]]
    BY DEF Init
  <2>b. child \in [Row -> [Call -> Row \cup {None}]]
    BY DEF Init
  <2>3. /\ last \in 0 .. MaxRows /\ rounds \in Nat /\ posts \in 0 .. MaxPosts
        /\ faults \in 0 .. MaxFaults
        /\ reaping = FALSE /\ cancelled = FALSE /\ bridge \subseteq Row
    BY TurnLoopAssumption DEF Init
  <2>4. \A r \in Row : r > last <=> kind[r] = "free"
    BY DEF Init, Row
  <2> QED  BY <2>1, <2>2, <2>a, <2>b, <2>c, <2>3, <2>4 DEF TypeOK
<1>2. /\ \A r \in Row : kind[r] = "free" /\ status[r] = "free" /\ parent[r] = None /\ turn[r] = 0
                       /\ ran[r] = {} /\ r > last
      /\ \A r \in Row, k \in Call : child[r][k] = None /\ replies[r][k] = 0
      /\ \A w \in Worker : job[w] = None
      /\ posts = 0 /\ reaping = FALSE /\ bridge = {} /\ last = 0
  BY DEF Init, Row
<1>3. Fresh
  <2>1. \A r \in Row : ~(r <= last) /\ turn[r] <= posts  BY <1>2 DEF Row
  <2> QED  BY <1>2, <2>1 DEF Fresh
<1>4. Holding /\ ClaimedOnce  BY <1>2 DEF Holding, ClaimedOnce
<1>5. OneDriver  BY <1>2 DEF OneDriver, Active, Drivers
<1>6. Links /\ Continued /\ ContinuationComplete
  BY <1>2 DEF Links, Continued, ContinuationComplete
<1>7. Unanswered  BY <1>2 DEF Unanswered
<1>8. OneContinuation  BY <1>2 DEF OneContinuation, Continuations
<1>9. ReplyOnce  BY <1>2 DEF ReplyOnce
<1> QED  BY <1>1, <1>3, <1>4, <1>5, <1>6, <1>7, <1>8, <1>9 DEF IInv

LEMMA StutterStep == ASSUME IInv, UNCHANGED vars PROVE IInv'
<1>0. TypeOK  BY DEF IInv
<1>1. UNCHANGED <<last, kind, status, parent, turn, asked, replies, rounds, ran, child, job,
                  since, verdict, reaping, bridge, posts, cancelled, faults>>
  BY DEF vars, rowVars, msgVars, fanVars, envVars, workVars
<1>2. TypeOK'  BY <1>0, <1>1 DEF TypeOK, TxnTypeOK
<1>3. reaping' => \A w \in Worker : job[w] = None  BY <1>1 DEF IInv, Holding
<1> QED  BY <1>1, <1>2, <1>3, HandsStep

LEMMA NextIInv == ASSUME Calm, IInv, [Next]_vars PROVE IInv'
<1>1. CASE Post  BY <1>1, PostStep
<1>2. CASE Cancel  BY <1>2, CancelStep
<1>3. ASSUME NEW w \in Worker, WorkerStep(w) \/ WorkerCrash(w) PROVE IInv'
  <2>1. CASE Claim(w)  BY <2>1, ClaimStep
  <2>2. CASE ChatAsks(w)  BY <2>2, ChatAsksStep
  <2>3. CASE ChatStops(w) \/ ChatFails(w) \/ DispatchWaits(w)  BY <2>3, WorkerClosesStep
  <2>4. CASE RunCall(w)  BY <2>4, RunCallStep
  <2>5. CASE EnqueueChild(w)  BY <2>5, EnqueueChildStep
  <2>6. CASE DispatchDone(w) \/ DispatchFails(w)  BY <2>6, DispatchClosesStep
  <2>7. CASE WorkerCrash(w)  BY <2>7, CrashStep
  <2>8. CASE ChatAnswers(w) \/ ChatCounts(w)  BY <2>8, OutcomeStep
  <2> QED  BY <1>3, <2>1, <2>2, <2>3, <2>4, <2>5, <2>6, <2>7, <2>8 DEF WorkerStep
<1>4. CASE Promote  BY <1>4, PromoteStep
<1>5. CASE PromoteRaises  BY <1>5, PromoteRaisesStep
<1>6. CASE StartupReap \/ PeriodicReap  BY <1>6, ReapersStep
<1>7. CASE StartupReapRaises \/ StartupReapEnds \/ BridgeLoses  BY <1>7, ReapEndsStep
<1>8. CASE BridgeClaim \/ BridgeAnswers \/ BridgeRestarts  BY <1>8, BridgeStep
<1>9. CASE ServerRestart  BY <1>9, CrashStep
<1>10. CASE LateReap \/ LeaderCrash  BY <1>10 DEF LateReap, LeaderCrash, Fault, Calm
<1>11. CASE UNCHANGED vars  BY <1>11, StutterStep
<1> QED
  BY <1>1, <1>2, <1>3, <1>4, <1>5, <1>6, <1>7, <1>8, <1>9, <1>10, <1>11 DEF Next

LEMMA Invariance == ASSUME Calm PROVE Spec => []IInv
<1>1. IInv /\ [Next]_vars => IInv'  BY NextIInv
<1> QED  BY InitIInv, <1>1, PTL DEF Spec

\* As long as the leader reaps no row a worker still holds, one user message
\* never has two model/tool loops running for it.
THEOREM SingleLoop == ASSUME Calm PROVE Spec => []OneDriver
BY Invariance, PTL DEF IInv

\* Every continuation the workers, the promotions or the reapers enqueue
\* carries exactly one reply for each tool call it continues.
THEOREM CompleteReplies == ASSUME Calm PROVE Spec => []AnsweredOnce
BY Invariance, PTL DEF IInv, AnsweredOnce

\* A dispatch is never continued twice.
THEOREM SingleContinuation == ASSUME Calm PROVE Spec => []OneContinuation
BY Invariance, PTL DEF IInv

----------------------------------------------------------------------------
(* How a dispatch ends: with a continuation *)

\* What DispatchContinues asks of every closed dispatch, and the turn that
\* every driving row belongs to.
Ended ==
    \A d \in Row :
        /\ kind[d] = "tool_dispatch"
        /\ \/ status[d] = "done"
           \/ (status[d] = "error" /\ Faults \cap {"cap", "cancel"} = {})
        => \E r \in Row : kind[r] = "chat" /\ parent[r] = d
OfATurn == \A r \in Row : kind[r] \in Drivers => turn[r] # 0

\* A row keeps what it is, to whom it belongs and what it continues.
RowsKept ==
    \A r \in Row : kind[r] # "free" =>
        kind'[r] = kind[r] /\ parent'[r] = parent[r] /\ turn'[r] = turn[r]

LEMMA InsertKeeps ==
    ASSUME TypeOK, NEW k \in {"chat", "tool_dispatch", "mcp_proxy"},
           NEW p \in Row \cup {None}, NEW t \in 0 .. MaxPosts, NEW r, NEW s \in Statuses,
           r \notin Row \/ kind[r] # "free", Insert(k, p, t, r, s)
    PROVE  /\ RowsKept /\ last' \in Row /\ kind[last'] = "free" /\ last' # r
           /\ kind'[last'] = k /\ parent'[last'] = p /\ turn'[last'] = t
           /\ status'[last'] = "pending"
           /\ \A q \in Row \ {last'} :
                 /\ kind'[q] = kind[q] /\ turn'[q] = turn[q]
                 /\ status'[q] = IF q = r THEN s ELSE status[q]
<1>1. last' \in Row /\ last' = last + 1
  BY InsertType
<1>2. kind[last'] = "free" /\ last' # r
  BY <1>1 DEF TypeOK, Row
<1> QED  BY <1>1, <1>2 DEF TypeOK, Insert, RowsKept

\* A dispatch that ends in this step, or was over before, has its chat.
LEMMA EndedStep ==
    ASSUME Ended, OfATurn, RowsKept,
           \A r \in Row : kind[r] = "free" /\ kind'[r] \in Drivers => turn'[r] # 0,
           \A d \in Row : kind'[d] = "tool_dispatch" /\ status'[d] \in {"done", "error"} =>
               \/ kind[d] = "tool_dispatch" /\ status[d] = status'[d]
               \/ \E n \in Row : kind'[n] = "chat" /\ parent'[n] = d
               \/ status'[d] = "error" /\ Faults \cap {"cap", "cancel"} # {}
    PROVE  (Ended /\ OfATurn)'
<1>1. OfATurn'
  BY DEF OfATurn, RowsKept, Drivers
<1>2. ASSUME NEW d \in Row, kind'[d] = "tool_dispatch",
             \/ status'[d] = "done"
             \/ (status'[d] = "error" /\ Faults \cap {"cap", "cancel"} = {})
      PROVE  \E r \in Row : kind'[r] = "chat" /\ parent'[r] = d
  <2>1. CASE \E n \in Row : kind'[n] = "chat" /\ parent'[n] = d
    BY <2>1
  <2>2. CASE kind[d] = "tool_dispatch" /\ status[d] = status'[d]
    <3>1. PICK r \in Row : kind[r] = "chat" /\ parent[r] = d
      BY <1>2, <2>2 DEF Ended
    <3> QED  BY <3>1 DEF RowsKept
  <2> QED  BY <1>2, <2>1, <2>2
<1> QED  BY <1>1, <1>2 DEF Ended

LEMMA ContinueEnds ==
    ASSUME IInv, Ended, OfATurn, NEW d \in Row, kind[d] = "tool_dispatch",
           NEW s \in {"done", "error"}, Continue(d, s)
    PROVE  (Ended /\ OfATurn)'
<1>1. TypeOK /\ turn[d] \in 0 .. MaxPosts /\ turn[d] # 0 /\ s \in Statuses
  BY DEF IInv, TypeOK, OfATurn, Drivers, Statuses
<1>2. /\ RowsKept /\ last' \in Row /\ kind'[last'] = "chat" /\ parent'[last'] = d
      /\ turn'[last'] = turn[d]
      /\ \A q \in Row \ {last'} :
            /\ kind'[q] = kind[q]
            /\ status'[q] = IF q = d THEN s ELSE status[q]
  BY <1>1, InsertKeeps DEF Continue
<1>3. \A r \in Row : kind[r] = "free" /\ kind'[r] \in Drivers => turn'[r] # 0
  BY <1>1, <1>2 DEF Drivers
<1>4. ASSUME NEW q \in Row, kind'[q] = "tool_dispatch", status'[q] \in {"done", "error"}
      PROVE  \/ kind[q] = "tool_dispatch" /\ status[q] = status'[q]
             \/ \E n \in Row : kind'[n] = "chat" /\ parent'[n] = q
  <2>1. q # last'
    BY <1>2, <1>4
  <2> QED  BY <1>2, <1>4, <2>1
<1> QED  BY <1>2, <1>3, <1>4, EndedStep

\* No row comes, and a dispatch that closes does so by a cap or a cancellation.
LEMMA NoRowEnds ==
    ASSUME Ended, OfATurn, UNCHANGED <<kind, parent, turn>>,
           \A d \in Row : kind[d] = "tool_dispatch" =>
               \/ status'[d] = status[d] \/ status'[d] \notin {"done", "error"}
               \/ status'[d] = "error" /\ Faults \cap {"cap", "cancel"} # {}
    PROVE  (Ended /\ OfATurn)'
<1>1. RowsKept
  BY DEF RowsKept
<1> QED  BY <1>1, EndedStep DEF Drivers

LEMMA InsertEnds ==
    ASSUME IInv, Ended, OfATurn, Post \/ \E w \in Worker : ChatAsks(w) \/ EnqueueChild(w)
    PROVE  (Ended /\ OfATurn)'
<1>1. PICK k \in {"chat", "tool_dispatch", "mcp_proxy"}, p \in Row \cup {None},
           t \in 0 .. MaxPosts, r \in Row \cup {None}, s \in Statuses :
        /\ Insert(k, p, t, r, s) /\ (k \in Drivers => t # 0)
        /\ r # None => kind[r] = "chat"
  <2>1. CASE Post
    <3>1. posts' \in 0 .. MaxPosts /\ posts' # 0
      BY <2>1, TurnLoopAssumption DEF Post, IInv, TypeOK
    <3> QED  BY <2>1, <3>1 DEF Post, Statuses
  <2>2. ASSUME NEW w \in Worker, ChatAsks(w) \/ EnqueueChild(w)
        PROVE  job[w] \in Row /\ turn[job[w]] \in 0 .. MaxPosts /\ kind[job[w]] \in Drivers
               /\ turn[job[w]] # 0
    BY <2>2 DEF ChatAsks, EnqueueChild, Holds, IInv, TypeOK, Drivers, OfATurn
  <2>3. ASSUME NEW w \in Worker, ChatAsks(w)
        PROVE  Insert("tool_dispatch", job[w], turn[job[w]], job[w], "done") /\ kind[job[w]] = "chat"
    BY <2>3 DEF ChatAsks, Holds
  <2>4. ASSUME NEW w \in Worker, EnqueueChild(w)
        PROVE  Insert("mcp_proxy", None, turn[job[w]], None, "free")
    BY <2>4 DEF EnqueueChild
  <2> QED  BY <2>1, <2>2, <2>3, <2>4 DEF Statuses, Drivers
<1>2. r \notin Row \/ kind[r] # "free"
  BY <1>1 DEF None, Row
<1>3. /\ RowsKept /\ last' \in Row /\ kind'[last'] = k /\ turn'[last'] = t /\ last' # r
      /\ status'[last'] = "pending"
      /\ \A q \in Row \ {last'} :
            /\ kind'[q] = kind[q]
            /\ status'[q] = IF q = r THEN s ELSE status[q]
  <2>1. TypeOK
    BY DEF IInv
  <2> QED  BY <1>1, <1>2, <2>1, InsertKeeps
<1>4. ASSUME NEW d \in Row, kind'[d] = "tool_dispatch", status'[d] \in {"done", "error"}
      PROVE  kind[d] = "tool_dispatch" /\ status[d] = status'[d]
  BY <1>1, <1>3, <1>4, TurnLoopAssumption DEF Row, None
<1>5. \A q \in Row : kind[q] = "free" /\ kind'[q] \in Drivers => turn'[q] # 0
  BY <1>1, <1>3 DEF Drivers
<1> QED  BY <1>3, <1>4, <1>5, EndedStep

LEMMA NextEnds == ASSUME IInv, Ended, OfATurn, [Next]_vars PROVE (Ended /\ OfATurn)'
<1>0. TypeOK
  BY DEF IInv
<1>1. CASE Post \/ \E w \in Worker : ChatAsks(w) \/ EnqueueChild(w)
  BY <1>1, InsertEnds
<1>2. ASSUME NEW w \in Worker, DispatchDone(w) \/ DispatchFails(w) PROVE (Ended /\ OfATurn)'
  <2>1. job[w] \in Row /\ kind[job[w]] = "tool_dispatch"
    BY <1>0, <1>2 DEF DispatchDone, DispatchFails, Holds, TypeOK
  <2>2. PICK s \in {"done", "error"} : Continue(job[w], s)
    BY <1>2 DEF DispatchDone, DispatchFails
  <2> QED  BY <2>1, <2>2, ContinueEnds
<1>3. CASE Promote
  <2>1. PICK d \in Row : kind[d] = "tool_dispatch" /\ Continue(d, "done")
    BY <1>3 DEF Promote, Due, Waiting, Resume
  <2> QED  BY <2>1, ContinueEnds
<1>4. CASE StartupReap \/ PeriodicReap \/ LateReap
  <2>1. PICK r \in Row : Reap(r)
    BY <1>4 DEF StartupReap, PeriodicReap, LateReap
  <2>2. CASE kind[r] = "tool_dispatch"
    BY <2>1, <2>2, ContinueEnds DEF Reap
  <2>3. CASE kind[r] # "tool_dispatch"
    <3>1. status' = [status EXCEPT ![r] = "error"] /\ UNCHANGED <<kind, parent, turn>>
      BY <2>1, <2>3 DEF Reap, SetStatus
    <3> QED  BY <1>0, <2>3, <3>1, NoRowEnds DEF TypeOK
  <2> QED  BY <2>2, <2>3
<1>5. ASSUME NEW w \in Worker, ChatStops(w) \/ ChatFails(w) PROVE (Ended /\ OfATurn)'
  <2>1. PICK s \in {"done", "error"} :
          /\ kind[job[w]] = "chat" /\ status' = [status EXCEPT ![job[w]] = s]
          /\ UNCHANGED <<kind, parent, turn>>
    BY <1>5 DEF ChatStops, ChatFails, Holds, SetStatus
  <2> QED  BY <1>0, <2>1, NoRowEnds DEF TypeOK
<1>6. ASSUME NEW w \in Worker, Claim(w) \/ DispatchWaits(w) PROVE (Ended /\ OfATurn)'
  <2>1. PICK r \in Row, s \in {"in_progress", "waiting_for_tools"} :
          status' = [status EXCEPT ![r] = s] /\ UNCHANGED <<kind, parent, turn>>
    BY <1>0, <1>6 DEF Claim, DispatchWaits, Holds, SetStatus, TypeOK
  <2> QED  BY <1>0, <2>1, NoRowEnds DEF TypeOK
<1>7. CASE PromoteRaises \/ Cancel
  <2>1. Faults \cap {"cap", "cancel"} # {} /\ UNCHANGED <<kind, parent, turn>>
    BY <1>7 DEF PromoteRaises, Cancel, Fault, SetStatus
  <2>2. \A d \in Row : status'[d] = status[d] \/ status'[d] = "error"
    BY <1>0, <1>7 DEF PromoteRaises, Cancel, SetStatus, TypeOK
  <2> QED  BY <2>1, <2>2, NoRowEnds
<1>8. CASE BridgeClaim \/ BridgeAnswers \/ BridgeRestarts
  <2>1. UNCHANGED <<kind, parent, turn>>
    BY <1>8 DEF BridgeClaim, BridgeAnswers, BridgeRestarts, SetStatus
  <2>2. ASSUME NEW d \in Row, kind[d] = "tool_dispatch" PROVE status'[d] = status[d]
    <3>1. CASE BridgeClaim
      BY <1>0, <2>2, <3>1 DEF BridgeClaim, SetStatus, TypeOK
    <3>2. CASE BridgeAnswers
      <4>1. PICK r \in bridge, s \in {"done", "error"} : status' = [status EXCEPT ![r] = s]
        BY <3>2 DEF BridgeAnswers, SetStatus
      <4>2. r # d
        BY <2>2 DEF IInv, Holding
      <4> QED  BY <1>0, <4>1, <4>2 DEF TypeOK
    <3>3. CASE BridgeRestarts
      BY <1>0, <2>2, <3>3 DEF BridgeRestarts, StaleProxy
    <3> QED  BY <1>8, <3>1, <3>2, <3>3
  <2> QED  BY <2>1, <2>2, NoRowEnds
<1>9. ASSUME \/ StartupReapRaises \/ StartupReapEnds \/ BridgeLoses \/ LeaderCrash \/ ServerRestart
             \/ (\E w \in Worker : RunCall(w) \/ WorkerCrash(w) \/ ChatAnswers(w) \/ ChatCounts(w))
             \/ UNCHANGED vars
      PROVE  (Ended /\ OfATurn)'
  <2>1. UNCHANGED <<kind, status, parent, turn>>
    BY <1>9 DEF StartupReapRaises, StartupReapEnds, BridgeLoses, LeaderCrash, ServerRestart,
                RunCall, WorkerCrash, ChatAnswers, ChatCounts, vars, rowVars
  <2> QED  BY <2>1, NoRowEnds
<1> QED
  BY <1>1, <1>2, <1>3, <1>4, <1>5, <1>6, <1>7, <1>8, <1>9 DEF Next, WorkerStep

LEMMA EndsInvariance == ASSUME Calm PROVE Spec => [](IInv /\ Ended /\ OfATurn)
<1>1. Init => Ended /\ OfATurn
  BY DEF Init, Ended, OfATurn, Drivers
<1>2. IInv /\ (Ended /\ OfATurn) /\ [Next]_vars => (Ended /\ OfATurn)'
  BY NextEnds
<1>3. Spec => []IInv
  BY Invariance
<1> QED  BY <1>1, <1>2, <1>3, PTL DEF Spec

\* A closed dispatch continued its turn exactly once, and without a spend cap
\* or a cancellation so did one that ended in error: no turn stalls half way.
THEOREM TurnsGoOn == ASSUME Calm PROVE Spec => []DispatchContinues
<1>1. IInv /\ Ended => DispatchContinues
  BY DEF IInv, Ended, DispatchContinues, Continuations
<1> QED  BY <1>1, EndsInvariance, PTL

----------------------------------------------------------------------------
(* What is over stays over *)

\* Without cancellations, the rows that workers and the bridge hold are in
\* progress: nobody closed them behind their backs.
InHand ==
    /\ \A w \in Worker : job[w] # None => status[job[w]] = "in_progress"
    /\ \A r \in bridge : status[r] = "in_progress"

OverStays == \A r \in Row : status[r] \in {"done", "error"} => status'[r] = status[r]

\* Only rows of R move, and none that is over; whoever holds a row holds one
\* that did not move, or that is in progress now.
LEMMA RowsMove ==
    ASSUME IInv, InHand, NEW R,
           \A r \in Row : r \in R => status[r] \notin {"done", "error"},
           \A r \in Row : r \notin R => status'[r] = status[r],
           \A w \in Worker : job'[w] # None =>
               (job'[w] = job[w] /\ job[w] \notin R) \/ status'[job'[w]] = "in_progress",
           \A r \in bridge' : (r \in bridge /\ r \notin R) \/ status'[r] = "in_progress"
    PROVE  InHand' /\ OverStays
<1>1. /\ \A w \in Worker : job[w] # None => job[w] \in Row
      /\ bridge \subseteq Row
  BY DEF IInv, TypeOK
<1> QED  BY <1>1 DEF InHand, OverStays

\* A row is inserted, and r moves out of the hands of its worker.
LEMMA InsertMoves ==
    ASSUME IInv, InHand, NEW k \in {"chat", "tool_dispatch", "mcp_proxy"},
           NEW p \in Row \cup {None}, NEW t \in 0 .. MaxPosts,
           NEW r, r \in Row => kind[r] \in Drivers /\ status[r] \in Live,
           NEW s \in Statuses,
           Insert(k, p, t, r, s), UNCHANGED bridge,
           \A w \in Worker : job'[w] # None => job'[w] = job[w] /\ job[w] # r
    PROVE  InHand' /\ OverStays
<1>1. r \notin Row \/ kind[r] # "free"
  BY DEF Drivers
<1>2. /\ last' \in Row /\ last' = last + 1 /\ last \in Nat /\ kind[last'] = "free"
      /\ ~Held(last') /\ last' > last
      /\ \A q \in Row \ {last'} : status'[q] = IF q = r THEN s ELSE status[q]
  BY <1>1, InsertFacts
<1>3. status[last'] = "free"
  BY <1>2, Unused
<1>4. /\ \A w \in Worker : job[w] # last'
      /\ last' \notin bridge /\ r \notin bridge \cap Row /\ bridge \subseteq Row
  BY <1>2 DEF Held, IInv, Holding, TypeOK, Drivers
<1>5. \A w \in Worker : job'[w] # None => job'[w] = job[w] /\ job[w] \notin {last', r}
  BY <1>4
<1>6. \A q \in bridge' : q \in bridge /\ q \notin {last', r}
  BY <1>4
<1>7. \A q \in Row : q \in {last', r} => status[q] \notin {"done", "error"}
  BY <1>3 DEF Live
<1>8. \A q \in Row : q \notin {last', r} => status'[q] = status[q]
  BY <1>2
<1> QED  BY <1>5, <1>6, <1>7, <1>8, RowsMove

\* A live driving row moves, and nobody holds it any more.
LEMMA OneMoves ==
    ASSUME IInv, InHand, NEW r \in Row, kind[r] \in Drivers, status[r] \in Live, NEW s,
           SetStatus(r, s), UNCHANGED bridge,
           \A w \in Worker : job'[w] # None => job'[w] = job[w] /\ job[w] # r
    PROVE  InHand' /\ OverStays
<1>1. /\ \A q \in Row : q \notin {r} => status'[q] = status[q]
      /\ \A q \in Row : q \in {r} => status[q] \notin {"done", "error"}
  BY DEF SetStatus, IInv, TypeOK, Live
<1>2. \A q \in bridge' : q \in bridge /\ q \notin {r}
  BY DEF IInv, Holding, Drivers
<1>3. \A w \in Worker : job'[w] # None => job'[w] = job[w] /\ job[w] \notin {r}
  OBVIOUS
<1> QED  BY <1>1, <1>2, <1>3, RowsMove

\* No status changes and nobody gets a row.
LEMMA NothingMoves ==
    ASSUME IInv, InHand, UNCHANGED status, bridge' \subseteq bridge,
           \A w \in Worker : job'[w] # None => job'[w] = job[w]
    PROVE  InHand' /\ OverStays
BY DEF InHand, OverStays, IInv, TypeOK

LEMMA LetGo ==
    ASSUME IInv, InHand, NEW w \in Worker, job[w] # None, Release(w)
    PROVE  /\ job[w] \in Row /\ kind[job[w]] \in Drivers /\ status[job[w]] \in Live
           /\ \A v \in Worker : job'[v] # None => job'[v] = job[v] /\ job[v] # job[w]
BY ReleaseFacts DEF Active, InHand, Live

LEMMA WorkerMoves ==
    ASSUME Calm, IInv, InHand, NEW w \in Worker, WorkerStep(w) \/ WorkerCrash(w)
    PROVE  InHand' /\ OverStays
<1>0. TypeOK /\ \A r \in Row : turn[r] \in 0 .. MaxPosts
  BY DEF IInv, TypeOK
<1>1. CASE Claim(w)
  <2>1. PICK r \in Row : /\ kind[r] \in Drivers /\ status[r] = "pending"
                         /\ status' = [status EXCEPT ![r] = "in_progress"]
                         /\ job' = [job EXCEPT ![w] = r]
    BY <1>1 DEF Claim, Claimable, SetStatus
  <2>2. status'[r] = "in_progress" /\ \A q \in Row \ {r} : status'[q] = status[q]
    BY <1>0, <2>1 DEF TypeOK
  <2>3. job'[w] = r /\ \A v \in Worker \ {w} : job'[v] = job[v]
    BY <1>0, <2>1 DEF TypeOK
  <2>4. bridge' = bridge /\ r \notin bridge
    BY <1>1, <2>1 DEF Claim, InHand
  <2>5. \A v \in Worker : job'[v] # None =>
            (job'[v] = job[v] /\ job[v] \notin {r}) \/ status'[job'[v]] = "in_progress"
    BY <2>2, <2>3
  <2>6. /\ \A q \in Row : q \notin {r} => status'[q] = status[q]
        /\ \A q \in Row : q \in {r} => status[q] \notin {"done", "error"}
    BY <2>1, <2>2
  <2>7. \A q \in bridge' : q \in bridge /\ q \notin {r}
    BY <2>4
  <2> QED  BY <2>5, <2>6, <2>7, RowsMove
<1>2. CASE ChatAsks(w)
  <2>1. /\ job[w] # None /\ Release(w) /\ UNCHANGED bridge /\ "done" \in Statuses
        /\ Insert("tool_dispatch", job[w], turn[job[w]], job[w], "done")
    BY <1>2 DEF ChatAsks, Holds, Statuses
  <2> QED  BY <1>0, <2>1, LetGo, InsertMoves
<1>3. CASE ChatStops(w) \/ ChatFails(w) \/ DispatchWaits(w)
  <2>1. /\ job[w] # None /\ Release(w) /\ UNCHANGED bridge
        /\ \E s \in {"done", "error", "waiting_for_tools"} : SetStatus(job[w], s)
    BY <1>3 DEF ChatStops, ChatFails, DispatchWaits, Holds
  <2> QED  BY <2>1, LetGo, OneMoves
<1>4. CASE RunCall(w)
  <2>1. UNCHANGED <<status, job, bridge>>
    BY <1>4 DEF RunCall, rowVars, workVars
  <2> QED  BY <2>1, NothingMoves
<1>5. CASE EnqueueChild(w)
  <2>1. /\ job[w] \in Row /\ UNCHANGED <<job, bridge>> /\ None \notin Row /\ "free" \in Statuses
        /\ Insert("mcp_proxy", None, turn[job[w]], None, "free")
    BY <1>0, <1>5 DEF EnqueueChild, Holds, TypeOK, None, Row, Statuses, workVars
  <2> QED  BY <1>0, <2>1, InsertMoves
<1>6. CASE DispatchDone(w) \/ DispatchFails(w)
  <2>1. PICK s \in {"done", "error"} :
          /\ job[w] # None /\ Release(w) /\ UNCHANGED bridge /\ s \in Statuses
          /\ Insert("chat", job[w], turn[job[w]], job[w], s)
    BY <1>6 DEF DispatchDone, DispatchFails, Holds, Continue, Statuses
  <2> QED  BY <1>0, <2>1, LetGo, InsertMoves
<1>7. CASE WorkerCrash(w)
  <2>1. UNCHANGED <<status, bridge>> /\ job[w] # None /\ Release(w)
    BY <1>7 DEF WorkerCrash, Idle, rowVars
  <2> QED  BY <2>1, LetGo, NothingMoves
<1>8. CASE ChatAnswers(w) \/ ChatCounts(w)
  <2>1. UNCHANGED <<status, job, bridge>>
    BY <1>0, <1>8, OutcomeType
  <2> QED  BY <2>1, NothingMoves
<1> QED  BY <1>1, <1>2, <1>3, <1>4, <1>5, <1>6, <1>7, <1>8 DEF WorkerStep

LEMMA ReaperMoves ==
    ASSUME IInv, InHand, NEW r \in Row, Reap(r), status[r] = "in_progress",
           \A w \in Worker : job[w] # r, UNCHANGED <<job, bridge>>
    PROVE  InHand' /\ OverStays
<1>0. turn[r] \in 0 .. MaxPosts /\ status[r] \in Live /\ "error" \in Statuses
  BY DEF IInv, TypeOK, Live, Statuses
<1>1. CASE kind[r] = "tool_dispatch"
  <2>1. Insert("chat", r, turn[r], r, "error") /\ kind[r] \in Drivers
    BY <1>1 DEF Reap, Continue, Drivers
  <2> QED  BY <1>0, <2>1, InsertMoves
<1>2. CASE kind[r] # "tool_dispatch"
  <2>1. SetStatus(r, "error") /\ kind[r] \in Drivers
    BY <1>2 DEF Reap, Drivers
  <2> QED  BY <1>0, <2>1, OneMoves
<1> QED  BY <1>1, <1>2

LEMMA BridgeMoves ==
    ASSUME IInv, InHand, BridgeClaim \/ BridgeAnswers \/ BridgeRestarts
    PROVE  InHand' /\ OverStays
<1>0. /\ TypeOK /\ UNCHANGED job
      /\ \A w \in Worker : job[w] # None => job[w] \in Row /\ kind[job[w]] # "mcp_proxy"
  BY DEF IInv, Holding, TypeOK, Drivers, BridgeClaim, BridgeAnswers, BridgeRestarts, workVars
<1>1. CASE BridgeClaim \/ BridgeAnswers
  <2>1. PICK r \in Row, s \in {"in_progress", "done", "error"} :
          /\ kind[r] = "mcp_proxy" /\ status[r] \in {"pending", "in_progress"}
          /\ status' = [status EXCEPT ![r] = s]
          /\ bridge' = bridge \ {r} \/ (bridge' = bridge \cup {r} /\ s = "in_progress")
    BY <1>0, <1>1 DEF BridgeClaim, BridgeAnswers, SetStatus, InHand, IInv, Holding, TypeOK
  <2>2. status'[r] = s /\ \A q \in Row \ {r} : status'[q] = status[q]
    BY <1>0, <2>1 DEF TypeOK
  <2>3. \A q \in bridge' : (q \in bridge /\ q \notin {r}) \/ status'[q] = "in_progress"
    BY <2>1, <2>2
  <2> QED  BY <1>0, <2>1, <2>2, <2>3, RowsMove
<1>2. CASE BridgeRestarts
  <2> DEFINE R == {r \in Row : StaleProxy(r)}
  <2>1. bridge' = {} /\ \A q \in Row : q \notin R => status'[q] = status[q]
    BY <1>2 DEF BridgeRestarts
  <2>2. \A q \in R : status[q] = "in_progress" /\ kind[q] = "mcp_proxy"
    BY DEF StaleProxy
  <2> HIDE DEF R
  <2> QED  BY <1>0, <2>1, <2>2, RowsMove
<1> QED  BY <1>1, <1>2

LEMMA NextMoves ==
    ASSUME Calm, "cancel" \notin Faults, IInv, InHand, [Next]_vars
    PROVE  InHand' /\ OverStays
<1>0. TypeOK
  BY DEF IInv
<1>1. CASE Post
  <2>1. /\ Insert("chat", None, posts', None, "free") /\ UNCHANGED <<job, bridge>>
        /\ posts' \in 0 .. MaxPosts /\ None \notin Row /\ "free" \in Statuses
        /\ \A w \in Worker : job[w] # None => job[w] \in Row
    BY <1>0, <1>1, TurnLoopAssumption DEF Post, TypeOK, None, Row, Statuses, workVars
  <2> QED  BY <2>1, InsertMoves
<1>2. CASE \E w \in Worker : WorkerStep(w) \/ WorkerCrash(w)
  BY <1>2, WorkerMoves
<1>3. CASE Promote \/ PromoteRaises
  <2>1. PICK d \in Row : /\ kind[d] = "tool_dispatch" /\ status[d] = "waiting_for_tools"
                         /\ Continue(d, "done") \/ SetStatus(d, "error")
    BY <1>3 DEF Promote, PromoteRaises, Due, Waiting, Resume
  <2>2. UNCHANGED <<job, bridge>>
    BY <1>3 DEF Promote, PromoteRaises, workVars
  <2>3. /\ kind[d] \in Drivers /\ status[d] \in Live /\ turn[d] \in 0 .. MaxPosts
        /\ "done" \in Statuses
    <3>1. turn[d] \in 0 .. MaxPosts
      BY <1>0 DEF TypeOK
    <3> QED  BY <2>1, <3>1 DEF Drivers, Live, Statuses
  <2>6. d # None /\ \A w \in Worker : job[w] # d
    BY <2>1 DEF InHand, None, Row
  <2>4. CASE Continue(d, "done")
    BY <2>2, <2>3, <2>4, <2>6, InsertMoves DEF Continue
  <2>5. CASE SetStatus(d, "error")
    BY <2>2, <2>3, <2>5, <2>6, OneMoves
  <2> QED  BY <2>1, <2>4, <2>5
<1>4. CASE StartupReap \/ PeriodicReap
  <2>1. UNCHANGED <<job, bridge>>
    BY <1>4 DEF StartupReap, PeriodicReap, workVars
  <2>2. PICK r \in Row : status[r] = "in_progress" /\ Reap(r) /\ (reaping \/ ~Held(r))
    BY <1>4 DEF StartupReap, PeriodicReap, Abandoned
  <2>3. \A w \in Worker : job[w] # r
    BY <2>2 DEF IInv, Holding, Held, None, Row
  <2> QED  BY <2>1, <2>2, <2>3, ReaperMoves
<1>5. CASE StartupReapRaises \/ StartupReapEnds \/ BridgeLoses \/ UNCHANGED vars
  <2>1. UNCHANGED <<status, job>> /\ bridge' \subseteq bridge
    BY <1>5 DEF StartupReapRaises, StartupReapEnds, BridgeLoses, vars, rowVars, workVars
  <2> QED  BY <2>1, NothingMoves
<1>6. CASE BridgeClaim \/ BridgeAnswers \/ BridgeRestarts
  BY <1>6, BridgeMoves
<1>7. CASE ServerRestart
  <2>1. UNCHANGED <<status, bridge>> /\ \A w \in Worker : job'[w] = None
    BY <1>7 DEF ServerRestart, rowVars
  <2> QED  BY <2>1, NothingMoves
<1>8. CASE LateReap \/ LeaderCrash \/ Cancel
  BY <1>8 DEF LateReap, LeaderCrash, Cancel, Fault, Calm
<1> QED
  BY <1>1, <1>2, <1>3, <1>4, <1>5, <1>6, <1>7, <1>8 DEF Next

\* A row that reached done or error is never written again: no reaper,
\* promotion, bridge or worker acts on a row that another one closed. A
\* cancellation closes rows that workers hold, and they then write over it.
THEOREM RowsStayOver == ASSUME Calm, "cancel" \notin Faults PROVE Spec => TerminalStays
<1>1. Init => InHand
  BY DEF Init, InHand
<1>2. IInv /\ InHand /\ [Next]_vars => InHand' /\ OverStays
  BY NextMoves
<1>3. OverStays <=> \A r \in Row : status[r] \in {"done", "error"} => status'[r] = status[r]
  BY DEF OverStays
<1>4. IInv /\ InHand /\ [Next]_vars
        => [\A r \in Row : status[r] \in {"done", "error"} => status'[r] = status[r]]_vars
  BY <1>2, <1>3
<1>5. Spec => []IInv
  BY Invariance
<1> QED  BY <1>1, <1>2, <1>4, <1>5, PTL DEF Spec, TerminalStays

----------------------------------------------------------------------------
(* The loop implements the plain turn of module Turn *)

\* With one user message at most, at most one row drives the loop.
OneActive == \A r, s \in Row : Active(r) /\ Active(s) => r = s

LEMMA OneActiveHolds ==
    MaxPosts <= 1 /\ IInv /\ OfATurn => OneActive
<1> SUFFICES ASSUME MaxPosts <= 1, IInv, OfATurn, NEW r \in Row, NEW s \in Row,
                    Active(r), Active(s)
             PROVE  r = s
  BY DEF OneActive
<1>1. kind[r] \in Drivers /\ kind[s] \in Drivers
  BY DEF Active
<1>2. turn[r] # 0 /\ turn[s] # 0 /\ turn[r] \in 0 .. MaxPosts /\ turn[s] \in 0 .. MaxPosts
  BY <1>1 DEF IInv, TypeOK, OfATurn
<1>3. turn[r] = turn[s]
  BY <1>2, TurnLoopAssumption
<1> QED  BY <1>3 DEF IInv, OneDriver

\* Who the turn waits for, before and after a step.
LEMMA PhaseIs ==
    /\ ~(\E r \in Row : Active(r)) => Phase = "idle"
    /\ \A r \in Row : Active(r) /\ kind[r] = "chat" => Phase = "model"
    /\ OneActive => \A r \in Row : Active(r) /\ kind[r] = "tool_dispatch" => Phase = "tools"
BY DEF Phase, OneActive

LEMMA PhaseBecomes ==
    /\ ~(\E r \in Row : Active(r)') => Phase' = "idle"
    /\ \A r \in Row : Active(r)' /\ kind'[r] = "chat" => Phase' = "model"
    /\ OneActive' => \A r \in Row : Active(r)' /\ kind'[r] = "tool_dispatch" => Phase' = "tools"
BY DEF Phase, OneActive

\* A step that activates no row ends the turn, refuses to go on or stutters.
LEMMA QuietTurn ==
    ASSUME OneActive, OneActive', rounds' = rounds, posts' = posts,
           \A r \in Row : Active(r)' => Active(r) /\ kind'[r] = kind[r]
    PROVE  [Contract!Next]_(Contract!vars)
<1>1. CASE ~ \E r \in Row : Active(r)
  <2>1. Phase = "idle" /\ Phase' = "idle"
    BY <1>1, PhaseIs, PhaseBecomes
  <2> QED  BY <2>1 DEF Contract!vars
<1>2. ASSUME NEW r \in Row, Active(r), kind[r] = "chat"
      PROVE  [Contract!Next]_(Contract!vars)
  <2>1. Phase = "model"
    BY <1>2, PhaseIs
  <2>2. CASE Active(r)'
    <3>1. Phase' = "model"
      BY <1>2, <2>2, PhaseBecomes
    <3> QED  BY <2>1, <3>1 DEF Contract!vars
  <2>3. CASE ~Active(r)'
    <3>1. \A q \in Row : ~Active(q)'
      BY <1>2, <2>3 DEF OneActive
    <3>2. Phase' = "idle"
      BY <3>1, PhaseBecomes
    <3> QED  BY <2>1, <3>2 DEF Contract!Next, Contract!End
  <2> QED  BY <2>2, <2>3
<1>3. ASSUME NEW r \in Row, Active(r), kind[r] = "tool_dispatch"
      PROVE  [Contract!Next]_(Contract!vars)
  <2>1. Phase = "tools"
    BY <1>3, PhaseIs
  <2>2. CASE Active(r)'
    <3>1. Phase' = "tools"
      BY <1>3, <2>2, PhaseBecomes
    <3> QED  BY <2>1, <3>1 DEF Contract!vars
  <2>3. CASE ~Active(r)'
    <3>1. \A q \in Row : ~Active(q)'
      BY <1>3, <2>3 DEF OneActive
    <3>2. Phase' = "idle"
      BY <3>1, PhaseBecomes
    <3> QED  BY <2>1, <3>2 DEF Contract!Next, Contract!Refuse
  <2> QED  BY <2>2, <2>3
<1> QED  BY <1>1, <1>2, <1>3 DEF Active, Drivers

\* The turn of an active dispatch goes back to the model.
LEMMA ContinueTurn ==
    ASSUME IInv, OneActive, OneActive', rounds' = rounds, posts' = posts,
           NEW d \in Row, kind[d] = "tool_dispatch", Active(d),
           NEW s \in {"done", "error"}, Continue(d, s)
    PROVE  Contract!Next
<1>1. TypeOK /\ turn[d] \in 0 .. MaxPosts /\ s \in Statuses
  BY DEF IInv, TypeOK, Statuses
<1>2. PICK n \in Row : kind'[n] = "chat" /\ status'[n] = "pending"
  BY <1>1, InsertKeeps DEF Continue
<1>3. Active(n)'
  BY <1>2 DEF Active, Drivers, Live
<1>4. Phase = "tools" /\ Phase' = "model"
  BY <1>2, <1>3, PhaseIs, PhaseBecomes
<1> QED  BY <1>4 DEF Contract!Next, Contract!Resume

\* A user message finds no loop running.
LEMMA PostTurn == ASSUME MaxPosts <= 1, IInv, OfATurn, Post PROVE Contract!Next
<1>1. TypeOK /\ posts = 0 /\ posts' = 1 /\ 1 \in 0 .. MaxPosts
  BY TurnLoopAssumption DEF IInv, TypeOK, Post
<1>2. ASSUME NEW r \in Row, Active(r) PROVE FALSE
  <2>1. turn[r] # 0
    BY <1>2 DEF Active, OfATurn
  <2>2. turn[r] <= posts /\ turn[r] \in Nat
    BY TurnLoopAssumption DEF IInv, Fresh, TypeOK
  <2> QED  BY <1>1, <2>1, <2>2
<1>3. PICK n \in Row : kind'[n] = "chat" /\ status'[n] = "pending"
  <2>1. /\ Insert("chat", None, posts', None, "free") /\ posts' \in 0 .. MaxPosts
        /\ None \notin Row /\ "free" \in Statuses
    BY <1>1 DEF Post, None, Row, Statuses
  <2> QED  BY <1>1, <2>1, InsertKeeps
<1>4. Phase = "idle" /\ Phase' = "model"
  <2>1. Active(n)'
    BY <1>3 DEF Active, Drivers, Live
  <2> QED  BY <1>2, <1>3, <2>1, PhaseIs, PhaseBecomes
<1> QED  BY <1>1, <1>4 DEF Post, Contract!Next, Contract!Ask

\* No row changes its kind, a live driver was active before, and whoever holds
\* a row held it before or holds one that was active.
LEMMA NoRowTurn ==
    ASSUME TypeOK, OneActive, OneActive', rounds' = rounds, posts' = posts, kind' = kind,
           \A r \in Row : kind[r] \in Drivers /\ status'[r] \in Live => Active(r),
           \A w \in Worker : job'[w] # None => job'[w] = job[w] \/ Active(job'[w])
    PROVE  [Contract!Next]_(Contract!vars)
<1>1. \A r \in Row : Held(r)' => Held(r) \/ Active(r)
  BY DEF Held, None, Row
<1>2. \A r \in Row : Active(r)' => Active(r) /\ kind'[r] = kind[r]
  BY <1>1 DEF Active
<1> QED  BY <1>2, QuietTurn

\* What an open outcome transaction knows, when only one can be open: it began
\* in this turn, for a chat row still held, and the budget it saw is the one left.
Verdicts ==
    /\ \A w \in Worker : since[w] # 0 =>
         since[w] = posts /\ job[w] # None /\ kind[job[w]] = "chat"
    /\ \A w \in Worker : verdict[w] # "none" => since[w] # 0
    /\ \A w \in Worker : verdict[w] = "within" => rounds + 1 < Steps

\* No worker's transaction moves on, though it may be gone.
LEMMA QuietVerdicts ==
    ASSUME TypeOK, Verdicts, UNCHANGED <<rounds, posts>>,
           \A r \in Row : kind[r] = "chat" => kind'[r] = "chat",
           \A w \in Worker : \/ UNCHANGED <<job[w], since[w], verdict[w]>>
                             \/ since'[w] = 0 /\ verdict'[w] = "none"
    PROVE  Verdicts'
<1>1. ASSUME NEW w \in Worker, since'[w] # 0
      PROVE  since'[w] = posts' /\ job'[w] # None /\ kind'[job'[w]] = "chat"
  <2>1. UNCHANGED <<job[w], since[w], verdict[w]>> /\ job[w] \in Row \cup {None}
    BY <1>1 DEF TypeOK
  <2> QED  BY <1>1, <2>1 DEF Verdicts
<1>2. ASSUME NEW w \in Worker, verdict'[w] # "none" PROVE since'[w] # 0
  BY <1>2 DEF Verdicts
<1>3. ASSUME NEW w \in Worker, verdict'[w] = "within" PROVE rounds' + 1 < Steps
  BY <1>3 DEF Verdicts
<1> QED  BY <1>1, <1>2, <1>3 DEF Verdicts

LEMMA NoneOpen ==
    (\A w \in Worker : since'[w] = 0 /\ verdict'[w] = "none") => Verdicts'
BY DEF Verdicts

\* The row of the only driver is in one worker's hands.
LEMMA OthersIdle ==
    ASSUME IInv, OneActive, Verdicts, NEW w \in Worker, job[w] # None
    PROVE  \A v \in Worker \ {w} : since[v] = 0 /\ verdict[v] = "none"
<1> SUFFICES ASSUME NEW v \in Worker, v # w, since[v] # 0 PROVE FALSE
  BY DEF Verdicts
<1>1. job[v] \in Row /\ job[w] \in Row /\ job[v] # None
  BY DEF IInv, TypeOK, Verdicts
<1>2. Active(job[v]) /\ Active(job[w])
  BY <1>1 DEF IInv, Holding, Active, Held
<1>3. job[v] = job[w]
  BY <1>1, <1>2 DEF OneActive
<1> QED  BY <1>1, <1>3 DEF IInv, ClaimedOnce

LEMMA WorkerVerdicts ==
    ASSUME IInv, OneActive, Verdicts, NEW w \in Worker, WorkerStep(w) \/ WorkerCrash(w)
    PROVE  Verdicts'
<1>0. /\ TypeOK /\ TxnTypeOK
      /\ job[w] # None => job[w] \in Row /\ kind[job[w]] \in Drivers
      /\ \A r \in Row : turn[r] \in 0 .. MaxPosts
  BY DEF IInv, TypeOK, Holding
<1>1. CASE Claim(w)
  <2>1. /\ since[w] = 0 /\ verdict[w] = "none" /\ UNCHANGED <<kind, since, verdict, rounds, posts>>
        /\ \A v \in Worker \ {w} : job'[v] = job[v]
    BY <1>0, <1>1 DEF Claim, SetStatus, Verdicts, Idle, TypeOK, msgVars, envVars
  <2> QED  BY <1>0, <2>1, QuietVerdicts
<1>2. CASE ChatAnswers(w)
  <2>1. /\ job[w] # None /\ kind[job[w]] = "chat"
        /\ since' = [since EXCEPT ![w] = posts] /\ since[w] = 0
        /\ UNCHANGED <<kind, job, verdict, rounds, posts>>
    BY <1>2 DEF ChatAnswers, Holds, rowVars, msgVars, envVars
  <2>2. verdict[w] = "none" /\ \A v \in Worker \ {w} : since[v] = 0 /\ verdict[v] = "none"
    BY <2>1, OthersIdle DEF Verdicts
  <2> QED  BY <1>0, <2>1, <2>2 DEF Verdicts, TxnTypeOK
<1>3. CASE ChatCounts(w)
  <2>1. /\ since[w] # 0
        /\ verdict' = [verdict EXCEPT ![w] = IF WithinBudget(w) THEN "within" ELSE "spent"]
        /\ UNCHANGED <<kind, job, since, rounds, posts>>
    BY <1>3 DEF ChatCounts, rowVars, msgVars, envVars
  <2>2. since[w] = posts
    BY <2>1 DEF Verdicts
  <2>3. WithinBudget(w) => rounds + 1 < Steps
    BY <2>2 DEF WithinBudget, Counted
  <2> QED  BY <1>0, <2>1, <2>3 DEF Verdicts, TxnTypeOK
<1>4. CASE ChatAsks(w) \/ ChatStops(w)
  <2>1. /\ job[w] # None
        /\ since' = [since EXCEPT ![w] = 0] /\ verdict' = [verdict EXCEPT ![w] = "none"]
    BY <1>4 DEF ChatAsks, ChatStops, Holds, Release
  <2>2. \A v \in Worker \ {w} : since[v] = 0 /\ verdict[v] = "none"
    BY <2>1, OthersIdle
  <2> QED  BY <1>0, <2>1, <2>2, NoneOpen DEF TxnTypeOK
<1>5. CASE ChatFails(w) \/ DispatchWaits(w) \/ WorkerCrash(w)
  <2>1. UNCHANGED <<kind, rounds, posts>> /\ Release(w)
    BY <1>5 DEF ChatFails, DispatchWaits, WorkerCrash, Fault, SetStatus, rowVars, msgVars, envVars
  <2> QED  BY <1>0, <2>1, QuietVerdicts DEF Release, TypeOK, TxnTypeOK
<1>6. CASE RunCall(w)
  <2>1. UNCHANGED <<kind, rounds, posts, job, since, verdict>>
    BY <1>6 DEF RunCall, rowVars, msgVars, envVars, workVars
  <2> QED  BY <1>0, <2>1, QuietVerdicts
<1>7. CASE EnqueueChild(w)
  <2>1. /\ job[w] # None /\ UNCHANGED <<rounds, posts, job, since, verdict>>
        /\ None \notin Row /\ None \in Row \cup {None} /\ "free" \in Statuses
        /\ Insert("mcp_proxy", None, turn[job[w]], None, "free")
    BY <1>7 DEF EnqueueChild, Holds, msgVars, envVars, None, Row, Statuses, workVars
  <2>2. RowsKept
    BY <1>0, <2>1, InsertKeeps
  <2> QED  BY <1>0, <2>1, <2>2, QuietVerdicts DEF RowsKept
<1>8. CASE DispatchDone(w) \/ DispatchFails(w)
  <2>1. PICK s \in {"done", "error"} : /\ job[w] # None /\ kind[job[w]] = "tool_dispatch"
                                       /\ Continue(job[w], s) /\ Release(w)
                                       /\ rounds' = rounds /\ posts' = posts
    BY <1>8 DEF DispatchDone, DispatchFails, Holds, envVars
  <2>2. RowsKept
    BY <1>0, <2>1, InsertKeeps DEF Continue, Statuses
  <2> QED  BY <1>0, <2>1, <2>2, QuietVerdicts DEF RowsKept, Release, TypeOK, TxnTypeOK
<1> QED  BY <1>1, <1>2, <1>3, <1>4, <1>5, <1>6, <1>7, <1>8 DEF WorkerStep

LEMMA VerdictsHold ==
    ASSUME Calm, MaxPosts <= 1, IInv, OneActive, Verdicts, [Next]_vars
    PROVE  Verdicts'
<1>0. TypeOK /\ TxnTypeOK /\ \A r \in Row : turn[r] \in 0 .. MaxPosts
  BY DEF IInv, TypeOK
<1>1. CASE Post
  <2>1. posts = 0 /\ UNCHANGED <<since, verdict>>
    BY <1>0, <1>1, TurnLoopAssumption DEF Post, TypeOK, workVars
  <2> QED  BY <2>1, NoneOpen DEF Verdicts
<1>2. CASE \E w \in Worker : WorkerStep(w) \/ WorkerCrash(w)
  BY <1>2, WorkerVerdicts
<1>3. CASE Promote \/ StartupReap \/ PeriodicReap
  <2>1. UNCHANGED <<rounds, posts, job, since, verdict>>
    BY <1>3 DEF Promote, StartupReap, PeriodicReap, envVars, workVars
  <2>2. \A r \in Row : kind[r] = "chat" => kind'[r] = "chat"
    <3>1. PICK d \in Row, s \in {"done", "error"} :
                (kind[d] = "tool_dispatch" /\ Continue(d, s)) \/ SetStatus(d, s)
      BY <1>3 DEF Promote, Due, Waiting, Resume, StartupReap, PeriodicReap, Reap
    <3>2. CASE SetStatus(d, s)
      BY <3>2 DEF SetStatus
    <3>3. CASE kind[d] = "tool_dispatch" /\ Continue(d, s)
      BY <1>0, <3>3, InsertKeeps DEF Continue, Statuses, RowsKept
    <3> QED  BY <3>1, <3>2, <3>3
  <2> QED  BY <1>0, <2>1, <2>2, QuietVerdicts
<1>4. CASE PromoteRaises \/ Cancel \/ StartupReapRaises \/ StartupReapEnds
           \/ BridgeClaim \/ BridgeAnswers \/ BridgeLoses \/ BridgeRestarts \/ UNCHANGED vars
  <2>1. UNCHANGED <<kind, rounds, posts, job, since, verdict>>
    BY <1>4 DEF PromoteRaises, Cancel, StartupReapRaises, StartupReapEnds, BridgeClaim,
                BridgeAnswers, BridgeLoses, BridgeRestarts, SetStatus, Fault, vars, rowVars,
                msgVars, envVars, workVars
  <2> QED  BY <1>0, <2>1, QuietVerdicts
<1>5. CASE ServerRestart
  BY <1>0, <1>5, NoneOpen DEF ServerRestart
<1>6. CASE LateReap \/ LeaderCrash
  BY <1>6 DEF LateReap, LeaderCrash, Fault, Calm
<1> QED  BY <1>1, <1>2, <1>3, <1>4, <1>5, <1>6 DEF Next

LEMMA WorkerTurn ==
    ASSUME IInv, OneActive, OneActive', Verdicts, NEW w \in Worker,
           WorkerStep(w) \/ WorkerCrash(w)
    PROVE  [Contract!Next]_(Contract!vars)
<1>0. /\ TypeOK
      /\ job[w] # None => /\ job[w] \in Row /\ Held(job[w])
                          /\ kind[job[w]] \in Drivers /\ Active(job[w])
      /\ \A r \in Row : turn[r] \in 0 .. MaxPosts
  BY DEF IInv, TypeOK, Held, Holding, Active
<1>1. CASE Claim(w)
  <2>1. PICK r \in Row : /\ Active(r) /\ kind' = kind /\ rounds' = rounds /\ posts' = posts
                         /\ status' = [status EXCEPT ![r] = "in_progress"]
                         /\ job' = [job EXCEPT ![w] = r]
    BY <1>1 DEF Claim, Claimable, SetStatus, Active, Live, msgVars, envVars
  <2> QED  BY <1>0, <2>1, NoRowTurn DEF Active, TypeOK
<1>2. CASE ChatAsks(w)
  <2>1. /\ job[w] # None /\ kind[job[w]] = "chat" /\ "done" \in Statuses
        /\ rounds' = Counted(w) /\ verdict[w] = "within" /\ posts' = posts
        /\ Insert("tool_dispatch", job[w], turn[job[w]], job[w], "done")
    BY <1>2 DEF ChatAsks, Holds, envVars, Statuses
  <2>5. rounds' = rounds + 1 /\ rounds + 1 < Steps
    BY <2>1 DEF Verdicts, Counted
  <2>2. PICK n \in Row : kind'[n] = "tool_dispatch" /\ status'[n] = "pending"
    BY <1>0, <2>1, InsertKeeps DEF Drivers
  <2>3. Active(n)'
    BY <2>2 DEF Active, Drivers, Live
  <2>4. Phase = "model" /\ Phase' = "tools"
    BY <1>0, <2>1, <2>2, <2>3, PhaseIs, PhaseBecomes
  <2> QED  BY <2>1, <2>4, <2>5 DEF Contract!Next, Contract!CallTools
<1>3. CASE ChatStops(w)
  <2>1. /\ job[w] # None /\ kind[job[w]] = "chat" /\ kind' = kind
        /\ rounds' = Counted(w) /\ posts' = posts
        /\ status' = [status EXCEPT ![job[w]] = "done"] /\ job' = [job EXCEPT ![w] = None]
    BY <1>3 DEF ChatStops, Holds, SetStatus, Release, envVars
  <2>2. ASSUME NEW r \in Row PROVE ~Active(r)'
    <3>1. r # job[w] => ~Active(r)
      BY <1>0, <2>1 DEF OneActive
    <3>2. \A v \in Worker : v # w => job[v] # job[w]
      BY <2>1 DEF IInv, ClaimedOnce
    <3>3. Held(r)' => Held(r) /\ r # job[w]
      BY <1>0, <2>1, <3>2 DEF Held, TypeOK, None, Row
    <3>4. status'[r] \in Live => status[r] \in Live /\ r # job[w]
      BY <1>0, <2>1 DEF TypeOK, Live
    <3> QED  BY <2>1, <3>1, <3>3, <3>4 DEF Active
  <2>3. Phase = "model" /\ Phase' = "idle"
    BY <1>0, <2>1, <2>2, PhaseIs, PhaseBecomes
  <2> QED  BY <1>0, <2>1, <2>3, CountedType DEF Contract!Next, Contract!End
<1>4. CASE ChatFails(w) \/ DispatchWaits(w)
  <2>1. PICK s : /\ job[w] # None /\ kind' = kind /\ rounds' = rounds /\ posts' = posts
                 /\ status' = [status EXCEPT ![job[w]] = s]
                 /\ job' = [job EXCEPT ![w] = None]
    BY <1>4 DEF ChatFails, DispatchWaits, Holds, SetStatus, Release, envVars, msgVars
  <2> QED  BY <1>0, <2>1, NoRowTurn DEF Active, TypeOK
<1>5. CASE RunCall(w)
  BY <1>0, <1>5, NoRowTurn DEF RunCall, rowVars, msgVars, envVars, Active, workVars
<1>6. CASE EnqueueChild(w)
  <2>1. /\ job[w] # None /\ UNCHANGED job /\ rounds' = rounds /\ posts' = posts
        /\ None \notin Row /\ None \in Row \cup {None} /\ "free" \in Statuses
        /\ Insert("mcp_proxy", None, turn[job[w]], None, "free")
    BY <1>6 DEF EnqueueChild, Holds, msgVars, envVars, None, Row, Statuses, workVars
  <2>2. PICK n \in Row : /\ kind'[n] = "mcp_proxy"
                         /\ \A q \in Row \ {n} : /\ kind'[q] = kind[q]
                                                 /\ status'[q] = status[q]
    BY <1>0, <2>1, InsertKeeps
  <2>3. \A r \in Row : Held(r)' <=> Held(r)
    BY <2>1 DEF Held
  <2>4. \A r \in Row : Active(r)' => Active(r) /\ kind'[r] = kind[r]
    BY <2>2, <2>3 DEF Active, Drivers
  <2> QED  BY <2>1, <2>4, QuietTurn
<1>7. CASE DispatchDone(w) \/ DispatchFails(w)
  <2>1. PICK s \in {"done", "error"} : /\ job[w] # None /\ kind[job[w]] = "tool_dispatch"
                                       /\ Continue(job[w], s)
                                       /\ rounds' = rounds /\ posts' = posts
    BY <1>7 DEF DispatchDone, DispatchFails, Holds, envVars
  <2> QED  BY <1>0, <2>1, ContinueTurn
<1>8. CASE WorkerCrash(w)
  <2>1. /\ UNCHANGED <<kind, status, rounds, posts>> /\ job' = [job EXCEPT ![w] = None]
    BY <1>8 DEF WorkerCrash, Fault, Release, rowVars, msgVars
  <2> QED  BY <1>0, <2>1, NoRowTurn DEF TypeOK, Active
<1>9. CASE ChatAnswers(w) \/ ChatCounts(w)
  <2>1. UNCHANGED <<kind, status, rounds, posts, job>>
    BY <1>0, <1>9, OutcomeType
  <2> QED  BY <1>0, <2>1, NoRowTurn DEF Active
<1> QED  BY <1>1, <1>2, <1>3, <1>4, <1>5, <1>6, <1>7, <1>8, <1>9 DEF WorkerStep

LEMMA NextTurn ==
    ASSUME Calm, MaxPosts <= 1, IInv, OfATurn, OneActive, OneActive', Verdicts, [Next]_vars
    PROVE  [Contract!Next]_(Contract!vars)
<1>0. TypeOK
  BY DEF IInv
<1>1. CASE Post
  BY <1>1, PostTurn
<1>2. CASE \E w \in Worker : WorkerStep(w) \/ WorkerCrash(w)
  BY <1>2, WorkerTurn
<1>3. CASE Promote
  <2>1. PICK d \in Row : /\ kind[d] = "tool_dispatch" /\ status[d] = "waiting_for_tools"
                         /\ Continue(d, "done") /\ rounds' = rounds /\ posts' = posts
    BY <1>3 DEF Promote, Due, Waiting, Resume, envVars
  <2>2. Active(d)
    BY <2>1 DEF Active, Drivers, Live
  <2> QED  BY <2>1, <2>2, ContinueTurn
<1>4. CASE StartupReap \/ PeriodicReap
  <2>1. PICK r \in Row : /\ status[r] = "in_progress" /\ Reap(r)
                         /\ UNCHANGED <<job, rounds, posts>>
    BY <1>4 DEF StartupReap, PeriodicReap, Abandoned, envVars, workVars
  <2>2. CASE kind[r] = "tool_dispatch"
    <3>1. Continue(r, "error") /\ Active(r)
      BY <2>1, <2>2 DEF Reap, Active, Drivers, Live
    <3> QED  BY <2>1, <2>2, <3>1, ContinueTurn
  <2>3. CASE kind[r] # "tool_dispatch"
    <3>1. status' = [status EXCEPT ![r] = "error"] /\ kind' = kind
      BY <2>1, <2>3 DEF Reap, SetStatus
    <3> QED  BY <1>0, <2>1, <3>1, NoRowTurn DEF TypeOK, Active, Live
  <2> QED  BY <2>2, <2>3
<1>5. CASE PromoteRaises
  <2>1. PICK d \in Row : /\ status' = [status EXCEPT ![d] = "error"] /\ kind' = kind
                         /\ UNCHANGED <<job, rounds, posts>>
    BY <1>5 DEF PromoteRaises, SetStatus, Fault, msgVars, workVars
  <2> QED  BY <1>0, <2>1, NoRowTurn DEF TypeOK, Active, Live
<1>6. CASE Cancel
  <2>1. /\ UNCHANGED <<kind, job, rounds, posts>>
        /\ \A r \in Row : status'[r] = status[r] \/ status'[r] = "error"
    BY <1>6 DEF Cancel, msgVars, workVars
  <2> QED  BY <1>0, <2>1, NoRowTurn DEF Active, Live
<1>7. CASE BridgeClaim \/ BridgeAnswers \/ BridgeRestarts
  <2>1. UNCHANGED <<kind, job, rounds, posts>>
    BY <1>7 DEF BridgeClaim, BridgeAnswers, BridgeRestarts, SetStatus, Fault, msgVars, envVars, workVars
  <2>2. ASSUME NEW r \in Row, kind[r] \in Drivers PROVE status'[r] = status[r]
    <3>0. kind[r] # "mcp_proxy"
      BY <2>2 DEF Drivers
    <3>1. CASE BridgeClaim
      BY <1>0, <3>0, <3>1 DEF BridgeClaim, SetStatus, TypeOK
    <3>2. CASE BridgeAnswers
      <4>1. PICK q \in bridge, s \in {"done", "error"} : status' = [status EXCEPT ![q] = s]
        BY <3>2 DEF BridgeAnswers, SetStatus
      <4>2. q # r
        BY <3>0 DEF IInv, Holding
      <4> QED  BY <1>0, <4>1, <4>2 DEF TypeOK
    <3>3. CASE BridgeRestarts
      BY <1>0, <3>0, <3>3 DEF BridgeRestarts, StaleProxy
    <3> QED  BY <1>7, <3>1, <3>2, <3>3
  <2> QED  BY <1>0, <2>1, <2>2, NoRowTurn DEF Active
<1>8. CASE StartupReapRaises \/ StartupReapEnds \/ BridgeLoses \/ UNCHANGED vars
  <2>1. UNCHANGED <<kind, status, job, rounds, posts>>
    BY <1>8 DEF StartupReapRaises, StartupReapEnds, BridgeLoses, Fault, vars, rowVars, msgVars,
                envVars, workVars
  <2> QED  BY <1>0, <2>1, NoRowTurn DEF Active
<1>9. CASE ServerRestart
  <2>1. UNCHANGED <<kind, status, rounds, posts>> /\ \A w \in Worker : job'[w] = None
    BY <1>9 DEF ServerRestart, Fault, rowVars, msgVars
  <2> QED  BY <1>0, <2>1, NoRowTurn DEF Active
<1>10. CASE LateReap \/ LeaderCrash
  BY <1>10 DEF LateReap, LeaderCrash, Fault, Calm
<1> QED
  BY <1>1, <1>2, <1>3, <1>4, <1>5, <1>6, <1>7, <1>8, <1>9, <1>10 DEF Next

\* For one user message, the rows, workers, bridge and reapers together take
\* only the steps of the plain turn of module Turn, whichever of them crash.
THEOREM LoopImplementsTurn == ASSUME Calm, MaxPosts <= 1 PROVE Spec => ImplementsTurn
<1>1. Init => Contract!Init
  <2>1. Init => \A r \in Row : ~Active(r)
    BY DEF Init, Active, Drivers
  <2>2. Init => Phase = "idle"
    BY <2>1, PhaseIs
  <2> QED  BY <2>2 DEF Init, Contract!Init
<1>2. IInv /\ OfATurn => OneActive
  BY OneActiveHolds
<1>3. Init => Verdicts
  BY DEF Init, Verdicts
<1>4. IInv /\ OneActive /\ Verdicts /\ [Next]_vars => Verdicts'
  BY VerdictsHold
<1>5. IInv /\ OfATurn /\ OneActive /\ OneActive' /\ Verdicts /\ [Next]_vars
        => [Contract!Next]_(Contract!vars)
  BY NextTurn
<1> QED  BY <1>1, <1>2, <1>3, <1>4, <1>5, EndsInvariance, PTL DEF Spec, ImplementsTurn, Contract!Spec
==============================================================================
