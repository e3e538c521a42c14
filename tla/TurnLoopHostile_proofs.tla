------------------------ MODULE TurnLoopHostile_proofs ------------------------
(***************************************************************************)
(* What TurnLoop keeps under every fault, a leader that restarts alone and   *)
(* a reaper that takes running dispatches included: the shape of the queue,  *)
(* and one owner for each claimed row, and the step budget.                  *)
(***************************************************************************)
EXTENDS TurnLoop_proofs, FiniteSetTheorems

----------------------------------------------------------------------------
(* The inductive invariant *)

\* The row a worker holds was claimed: it is no longer pending, and no fault
\* makes it so again.
Owned ==
    /\ \A w \in Worker : job[w] # None =>
         /\ kind[job[w]] \in Drivers
         /\ status[job[w]] \notin {"free", "pending"}
    /\ ClaimedOnce

\* A tool_dispatch row hangs under some row.
Parented == \A d \in Row : kind[d] = "tool_dispatch" => parent[d] \in Row

HInv == TypeOK /\ Owned /\ Parented

----------------------------------------------------------------------------
(* Steps that insert no row *)

LEMMA QuietHostile ==
    ASSUME HInv, TypeOK', UNCHANGED <<kind, parent>>,
           \A w \in Worker : job'[w] = job[w] \/ job'[w] = None,
           \A q \in Row : status[q] \notin {"free", "pending"}
                            => status'[q] \notin {"free", "pending"}
    PROVE  HInv'
<1>1. \A w \in Worker : job'[w] # None => job'[w] = job[w] /\ job[w] \in Row
  BY DEF HInv, TypeOK
<1>2. Owned'
  BY <1>1 DEF HInv, Owned, ClaimedOnce
<1>3. Parented'
  BY DEF HInv, Parented
<1> QED  BY <1>2, <1>3 DEF HInv

\* One row moves on, perhaps out of its worker's hands.
LEMMA MoveHostile ==
    ASSUME HInv, NEW r \in Row, NEW s \in Statuses \ {"free", "pending"}, SetStatus(r, s),
           UNCHANGED <<asked, replies, ran, child, reaping, posts, cancelled>>,
           rounds' \in Nat, faults' \in 0 .. MaxFaults, bridge' \subseteq Row,
           job' \in [Worker -> Row \cup {None}], TxnTypeOK',
           \A w \in Worker : job'[w] = job[w] \/ job'[w] = None
    PROVE  HInv'
<1>1. status' \in [Row -> Statuses] /\ UNCHANGED <<last, kind, parent, turn>>
  BY SetStatusType DEF HInv
<1>2. TypeOK'  BY <1>1 DEF HInv, TypeOK
<1>3. \A q \in Row : status'[q] = IF q = r THEN s ELSE status[q]
  BY DEF HInv, TypeOK, SetStatus
<1> QED  BY <1>1, <1>2, <1>3, QuietHostile

LEMMA ReleaseHostile ==
    ASSUME HInv, NEW w \in Worker, Release(w)
    PROVE  /\ job' \in [Worker -> Row \cup {None}] /\ TxnTypeOK'
           /\ \A v \in Worker : job'[v] = job[v] \/ job'[v] = None
BY ReleaseType DEF HInv, TypeOK, Release

----------------------------------------------------------------------------
(* Steps that insert one *)

LEMMA InsertHostile ==
    ASSUME HInv, TypeOK', NEW k \in {"chat", "tool_dispatch", "mcp_proxy"},
           NEW p \in Row \cup {None}, NEW t \in 0 .. MaxPosts, NEW r, NEW s \in Statuses,
           Insert(k, p, t, r, s),
           k = "tool_dispatch" => p \in Row,
           r \in Row => s \notin {"free", "pending"},
           \A w \in Worker : job'[w] = job[w] \/ job'[w] = None
    PROVE  HInv'
<1> DEFINE n == last'
<1>1. n \in Row /\ n = last + 1 /\ kind[n] = "free"
  <2>1. n \in Row /\ n = last + 1
    BY InsertType DEF HInv
  <2> QED  BY <2>1 DEF HInv, TypeOK, Row
<1>2. \A q \in Row : /\ kind'[q] = IF q = n THEN k ELSE kind[q]
                     /\ parent'[q] = IF q = n THEN p ELSE parent[q]
                     /\ status'[q] = IF q = n THEN "pending" ELSE IF q = r THEN s ELSE status[q]
  BY <1>1 DEF HInv, TypeOK, Insert
<1>3. \A w \in Worker : job'[w] # None => job'[w] = job[w] /\ job[w] \in Row
  BY DEF HInv, TypeOK
<1>4. Owned'
  <2>1. ASSUME NEW w \in Worker, job'[w] # None
        PROVE kind'[job'[w]] \in Drivers /\ status'[job'[w]] \notin {"free", "pending"}
    <3>1. /\ job'[w] = job[w] /\ job[w] \in Row /\ kind[job[w]] \in Drivers
          /\ status[job[w]] \notin {"free", "pending"}
      BY <2>1, <1>3 DEF HInv, Owned
    <3>2. job[w] # n
      BY <3>1, <1>1 DEF Drivers
    <3> QED  BY <3>1, <3>2, <1>2
  <2>2. ClaimedOnce'
    BY <1>3 DEF HInv, Owned, ClaimedOnce
  <2> QED  BY <2>1, <2>2 DEF Owned
<1>5. Parented'
  BY <1>2 DEF HInv, Parented
<1> QED  BY <1>4, <1>5 DEF HInv

\* Whoever closes dispatch d and continues its turn.
LEMMA ContinueHostile ==
    ASSUME HInv, NEW d \in Row, kind[d] = "tool_dispatch", NEW s \in {"done", "error"},
           NEW ks, Reply(parent[d], ks), Continue(d, s),
           UNCHANGED <<asked, rounds, ran, child, reaping, bridge, posts, cancelled>>,
           faults' \in 0 .. MaxFaults,
           job' \in [Worker -> Row \cup {None}], TxnTypeOK',
           \A w \in Worker : job'[w] = job[w] \/ job'[w] = None
    PROVE  HInv'
<1>1. TypeOK /\ parent[d] \in Row /\ turn[d] \in 0 .. MaxPosts /\ s \in Statuses
  BY DEF HInv, Parented, TypeOK, Statuses
<1>2. Insert("chat", d, turn[d], d, s)  BY DEF Continue
<1>3. replies' \in [Row -> [Call -> Nat]]  BY <1>1, ReplyType
<1>4. /\ last' \in 0 .. MaxRows /\ kind' \in [Row -> Kinds] /\ status' \in [Row -> Statuses]
      /\ parent' \in [Row -> Row \cup {None}] /\ turn' \in [Row -> 0 .. MaxPosts]
      /\ \A q \in Row : q > last' <=> kind'[q] = "free"
  BY <1>1, <1>2, InsertType
<1>5. TypeOK'  BY <1>1, <1>3, <1>4 DEF TypeOK
<1> QED  BY <1>1, <1>2, <1>5, InsertHostile

LEMMA PostHostile == ASSUME HInv, Post PROVE HInv'
<1>1. TypeOK /\ posts' \in 0 .. MaxPosts /\ None \notin Row /\ "free" \in Statuses
  BY TurnLoopAssumption DEF HInv, TypeOK, Post, None, Row, Statuses
<1>2. Insert("chat", None, posts', None, "free")  BY DEF Post
<1>3. /\ last' \in 0 .. MaxRows /\ kind' \in [Row -> Kinds] /\ status' \in [Row -> Statuses]
      /\ parent' \in [Row -> Row \cup {None}] /\ turn' \in [Row -> 0 .. MaxPosts]
      /\ \A q \in Row : q > last' <=> kind'[q] = "free"
  BY <1>1, <1>2, InsertType
<1>4. /\ UNCHANGED <<asked, replies, ran, child, job, since, verdict, reaping, bridge, faults>>
      /\ rounds' = 0 /\ cancelled' = FALSE
  BY DEF Post, fanVars, workVars
<1>5. TypeOK'  BY <1>1, <1>3, <1>4 DEF TypeOK, TxnTypeOK
<1> QED  BY <1>1, <1>2, <1>4, <1>5, InsertHostile

LEMMA ChatAsksHostile == ASSUME HInv, NEW w \in Worker, ChatAsks(w) PROVE HInv'
<1> DEFINE c == job[w]
<1>1. TypeOK /\ c \in Row /\ turn[c] \in 0 .. MaxPosts /\ "done" \in Statuses
  BY DEF HInv, TypeOK, ChatAsks, Holds, Statuses
<1>2. Insert("tool_dispatch", c, turn[c], c, "done") /\ Release(w)  BY DEF ChatAsks
<1>3. /\ last' \in 0 .. MaxRows /\ kind' \in [Row -> Kinds] /\ status' \in [Row -> Statuses]
      /\ parent' \in [Row -> Row \cup {None}] /\ turn' \in [Row -> 0 .. MaxPosts]
      /\ \A q \in Row : q > last' <=> kind'[q] = "free"
  BY <1>1, <1>2, InsertType
<1>4. /\ UNCHANGED <<replies, ran, child, reaping, bridge, posts, cancelled, faults>>
      /\ rounds' \in Nat
      /\ asked' \in [Row -> SUBSET Call]
  BY <1>1, CountedType DEF ChatAsks, fanVars, envVars, TypeOK
<1>5. /\ job' \in [Worker -> Row \cup {None}] /\ TxnTypeOK'
      /\ \A v \in Worker : job'[v] = job[v] \/ job'[v] = None
  BY <1>2, ReleaseHostile
<1>6. TypeOK'  BY <1>1, <1>3, <1>4, <1>5 DEF TypeOK
<1> QED  BY <1>1, <1>2, <1>5, <1>6, InsertHostile

LEMMA EnqueueChildHostile == ASSUME HInv, NEW w \in Worker, EnqueueChild(w) PROVE HInv'
<1> DEFINE d == job[w]
<1>1. /\ TypeOK /\ d \in Row /\ turn[d] \in 0 .. MaxPosts /\ parent[d] \in Row
      /\ None \notin Row /\ "free" \in Statuses
  BY DEF HInv, TypeOK, Parented, EnqueueChild, Holds, None, Row, Statuses
<1>2. Insert("mcp_proxy", None, turn[d], None, "free")  BY DEF EnqueueChild
<1>3. /\ last' \in 0 .. MaxRows /\ kind' \in [Row -> Kinds] /\ status' \in [Row -> Statuses]
      /\ parent' \in [Row -> Row \cup {None}] /\ turn' \in [Row -> 0 .. MaxPosts]
      /\ \A q \in Row : q > last' <=> kind'[q] = "free"
      /\ last' \in Row
  BY <1>1, <1>2, InsertType
<1>4. UNCHANGED <<asked, replies, rounds, ran, job, since, verdict, reaping, bridge, posts,
                  cancelled, faults>>
  BY DEF EnqueueChild, msgVars, envVars, workVars
<1>5. PICK k \in asked[parent[d]] : child' = [child EXCEPT ![d][k] = last']
  BY DEF EnqueueChild
<1>6. child' \in [Row -> [Call -> Row \cup {None}]]
  BY <1>1, <1>3, <1>5 DEF TypeOK
<1>7. TypeOK'  BY <1>1, <1>3, <1>4, <1>6 DEF TypeOK, TxnTypeOK
<1> QED  BY <1>1, <1>2, <1>4, <1>7, InsertHostile

----------------------------------------------------------------------------
(* The actions *)

LEMMA ClaimHostile == ASSUME HInv, NEW w \in Worker, Claim(w) PROVE HInv'
<1>1. PICK r \in Row : /\ kind[r] \in Drivers /\ status[r] = "pending"
                       /\ status' = [status EXCEPT ![r] = "in_progress"]
                       /\ UNCHANGED <<last, kind, parent, turn>>
                       /\ job' = [job EXCEPT ![w] = r]
  BY DEF Claim, Claimable, SetStatus
<1>2. UNCHANGED <<asked, replies, rounds, ran, child, since, verdict, reaping, bridge, posts,
                  cancelled, faults>>
  BY DEF Claim, msgVars, fanVars, envVars
<1>3. TypeOK'  BY <1>1, <1>2 DEF HInv, TypeOK, TxnTypeOK, Statuses
<1>4. \A v \in Worker : job'[v] = IF v = w THEN r ELSE job[v]
  BY <1>1 DEF HInv, TypeOK
<1>5. \A q \in Row : status'[q] = IF q = r THEN "in_progress" ELSE status[q]
  BY <1>1 DEF HInv, TypeOK
<1>6. \A v \in Worker : job[v] # r
  BY <1>1 DEF HInv, Owned, None, Row
<1>7. Owned'
  <2>1. \A v \in Worker : job[v] # None => job[v] \in Row  BY DEF HInv, TypeOK
  <2>2. ClaimedOnce'  BY <1>4, <1>6 DEF HInv, Owned, ClaimedOnce
  <2> QED  BY <2>1, <2>2, <1>1, <1>4, <1>5 DEF HInv, Owned
<1>8. Parented'  BY <1>1 DEF HInv, Parented
<1> QED  BY <1>3, <1>7, <1>8 DEF HInv

LEMMA WorkerClosesHostile ==
    ASSUME HInv, NEW w \in Worker, ChatStops(w) \/ ChatFails(w) \/ DispatchWaits(w)
    PROVE  HInv'
<1>1. TypeOK /\ job[w] \in Row /\ Release(w)
  BY DEF HInv, TypeOK, ChatStops, ChatFails, DispatchWaits, Holds
<1>2. /\ UNCHANGED <<asked, replies, ran, child, reaping, bridge, posts, cancelled, faults>>
      /\ rounds' = rounds \/ rounds' = rounds + 1
  BY <1>1, CountedType DEF ChatStops, ChatFails, DispatchWaits, msgVars, fanVars, envVars
<1>3. rounds' \in Nat /\ faults' \in 0 .. MaxFaults /\ bridge' \subseteq Row
  BY <1>1, <1>2 DEF TypeOK
<1>4. PICK s \in Statuses \ {"free", "pending"} : SetStatus(job[w], s)
  BY DEF ChatStops, ChatFails, DispatchWaits, Statuses
<1> QED  BY <1>1, <1>2, <1>3, <1>4, ReleaseHostile, MoveHostile

LEMMA RunCallHostile == ASSUME HInv, NEW w \in Worker, RunCall(w) PROVE HInv'
<1> DEFINE d == job[w]
<1>1. TypeOK /\ d \in Row /\ parent[d] \in Row
  BY DEF HInv, Parented, RunCall, Holds, TypeOK
<1>2. PICK k \in asked[parent[d]] : ran' = [ran EXCEPT ![d] = @ \cup {k}]
  BY DEF RunCall
<1>3. UNCHANGED <<last, kind, status, parent, turn, asked, replies, rounds, child, job, since,
                  verdict, reaping, bridge, posts, cancelled, faults>>
  BY DEF RunCall, rowVars, msgVars, envVars, workVars
<1>4. TypeOK'  BY <1>1, <1>2, <1>3 DEF TypeOK, TxnTypeOK
<1> QED  BY <1>3, <1>4, QuietHostile

LEMMA DispatchClosesHostile ==
    ASSUME HInv, NEW w \in Worker, DispatchDone(w) \/ DispatchFails(w)
    PROVE  HInv'
<1> DEFINE d == job[w]
<1>1. TypeOK /\ d \in Row /\ kind[d] = "tool_dispatch" /\ Release(w)
  BY DEF HInv, TypeOK, DispatchDone, DispatchFails, Holds
<1>2. UNCHANGED <<asked, rounds, ran, child, reaping, bridge, posts, cancelled, faults>>
  BY DEF DispatchDone, DispatchFails, fanVars, envVars
<1>3. faults' \in 0 .. MaxFaults  BY <1>1, <1>2 DEF TypeOK
<1>4. /\ job' \in [Worker -> Row \cup {None}] /\ TxnTypeOK'
      /\ \A v \in Worker : job'[v] = job[v] \/ job'[v] = None
  BY <1>1, ReleaseHostile
<1>5. PICK s \in {"done", "error"} : Continue(d, s) /\ \E ks : Reply(parent[d], ks)
  BY DEF DispatchDone, DispatchFails, SynthesizeMissing
<1> QED  BY <1>1, <1>2, <1>3, <1>4, <1>5, ContinueHostile

LEMMA PromoteHostile == ASSUME HInv, Promote PROVE HInv'
<1>1. TypeOK  BY DEF HInv
<1>2. PICK d \in Row : /\ kind[d] = "tool_dispatch"
                       /\ Reply(parent[d], Handled(d)) /\ Continue(d, "done")
  BY DEF Promote, Due, Waiting, FinalMsgs, Resume
<1>3. UNCHANGED <<asked, rounds, ran, child, job, since, verdict, reaping, bridge, posts,
                  cancelled, faults>>
  BY DEF Promote, fanVars, envVars, workVars
<1>4. job' \in [Worker -> Row \cup {None}] /\ TxnTypeOK' /\ faults' \in 0 .. MaxFaults
  BY <1>1, <1>3 DEF TypeOK, TxnTypeOK
<1> QED  BY <1>2, <1>3, <1>4, ContinueHostile

LEMMA PromoteRaisesHostile == ASSUME HInv, PromoteRaises PROVE HInv'
<1>1. TypeOK /\ "error" \in Statuses \ {"free", "pending"}  BY DEF HInv, Statuses
<1>2. PICK d \in Row : SetStatus(d, "error")  BY DEF PromoteRaises
<1>3. /\ UNCHANGED <<asked, replies, rounds, ran, child, job, since, verdict, reaping, bridge,
                     posts, cancelled>>
      /\ faults' \in 0 .. MaxFaults
  BY <1>1, TurnLoopAssumption DEF PromoteRaises, Fault, msgVars, fanVars, workVars, TypeOK
<1>4. rounds' \in Nat /\ bridge' \subseteq Row /\ job' \in [Worker -> Row \cup {None}] /\ TxnTypeOK'
  BY <1>1, <1>3 DEF TypeOK, TxnTypeOK
<1> QED  BY <1>1, <1>2, <1>3, <1>4, MoveHostile

LEMMA ReapHostile ==
    ASSUME HInv, StartupReap \/ PeriodicReap \/ LateReap
    PROVE  HInv'
<1>1. TypeOK /\ "error" \in Statuses \ {"free", "pending"}  BY DEF HInv, Statuses
<1>2. PICK r \in Row : Reap(r)  BY DEF StartupReap, PeriodicReap, LateReap
<1>3. /\ UNCHANGED <<asked, rounds, ran, child, job, since, verdict, reaping, bridge, posts,
                     cancelled>>
      /\ faults' \in 0 .. MaxFaults
  BY <1>1, TurnLoopAssumption
     DEF StartupReap, PeriodicReap, LateReap, Fault, fanVars, envVars, workVars, TypeOK
<1>4. rounds' \in Nat /\ bridge' \subseteq Row /\ job' \in [Worker -> Row \cup {None}] /\ TxnTypeOK'
  BY <1>1, <1>3 DEF TypeOK, TxnTypeOK
<1>5. CASE kind[r] = "tool_dispatch"
  <2>1. Continue(r, "error") /\ \E ks : Reply(parent[r], ks)
    BY <1>2, <1>5 DEF Reap, SynthesizeMissing
  <2> QED  BY <1>3, <1>4, <1>5, <2>1, ContinueHostile
<1>6. CASE kind[r] # "tool_dispatch"
  <2>1. SetStatus(r, "error") /\ UNCHANGED replies  BY <1>2, <1>6 DEF Reap
  <2> QED  BY <1>1, <1>3, <1>4, <2>1, MoveHostile
<1> QED  BY <1>5, <1>6

\* Steps that leave every row as it is.
LEMMA RowsStayHostile ==
    ASSUME HInv, StartupReapEnds \/ StartupReapRaises \/ BridgeLoses
    PROVE  HInv'
<1>1. UNCHANGED <<last, kind, status, parent, turn, asked, replies, rounds, ran, child, job,
                  since, verdict, posts, cancelled>>
  BY DEF StartupReapEnds, StartupReapRaises, BridgeLoses, Fault, rowVars, msgVars, fanVars, envVars,
         workVars
<1>2. faults' \in 0 .. MaxFaults /\ bridge' \subseteq Row
  <2>1. /\ (faults' = faults \/ (faults < MaxFaults /\ faults' = faults + 1))
        /\ (bridge' = bridge \/ \E r \in bridge : bridge' = bridge \ {r})
    BY DEF StartupReapEnds, StartupReapRaises, BridgeLoses, Fault, envVars
  <2> QED  BY <2>1, TurnLoopAssumption DEF HInv, TypeOK
<1>3. reaping' \in BOOLEAN
  BY DEF StartupReapEnds, StartupReapRaises, BridgeLoses, HInv, TypeOK
<1>4. TypeOK'  BY <1>1, <1>2, <1>3 DEF HInv, TypeOK, TxnTypeOK
<1> QED  BY <1>1, <1>4, QuietHostile

LEMMA BridgeHostile ==
    ASSUME HInv, BridgeClaim \/ BridgeAnswers
    PROVE  HInv'
<1>1. TypeOK  BY DEF HInv
<1>2. UNCHANGED <<asked, replies, rounds, ran, child, job, since, verdict, reaping, posts,
                  cancelled, faults>>
  BY DEF BridgeClaim, BridgeAnswers, msgVars, fanVars, envVars, workVars
<1>3. PICK r \in Row, s \in Statuses \ {"free", "pending"} :
        SetStatus(r, s) /\ bridge' \subseteq Row
  BY <1>1 DEF BridgeClaim, BridgeAnswers, TypeOK, Statuses
<1>4. /\ rounds' \in Nat /\ faults' \in 0 .. MaxFaults
      /\ job' \in [Worker -> Row \cup {None}] /\ TxnTypeOK'
  BY <1>1, <1>2 DEF TypeOK, TxnTypeOK
<1> QED  BY <1>2, <1>3, <1>4, MoveHostile

\* Several rows become errors at once.
LEMMA ErrorsHostile ==
    ASSUME HInv, BridgeRestarts \/ Cancel
    PROVE  HInv'
<1>1. TypeOK  BY DEF HInv
<1>2. UNCHANGED <<last, kind, parent, turn, asked, replies, rounds, ran, child, job, since,
                  verdict, reaping, posts>>
  BY DEF BridgeRestarts, Cancel, msgVars, fanVars, Fault, workVars
<1>3. /\ faults' \in 0 .. MaxFaults /\ bridge' \subseteq Row /\ cancelled' \in BOOLEAN
  <2>1. faults < MaxFaults /\ faults' = faults + 1
    BY DEF BridgeRestarts, Cancel, Fault
  <2>2. bridge' = bridge \/ bridge' = {}
    BY DEF BridgeRestarts, Cancel
  <2>3. cancelled' = cancelled \/ cancelled' = TRUE
    BY DEF BridgeRestarts, Cancel, Fault
  <2>4. faults' \in 0 .. MaxFaults /\ bridge' \subseteq Row
    BY <1>1, <2>1, <2>2, TurnLoopAssumption DEF TypeOK
  <2>5. cancelled' \in BOOLEAN
    BY <1>1, <2>3 DEF TypeOK
  <2> QED  BY <2>4, <2>5
<1>4. \A q \in Row : status'[q] = status[q] \/ status'[q] = "error"
  BY DEF BridgeRestarts, Cancel
<1>5. status' \in [Row -> Statuses]
  BY <1>1 DEF BridgeRestarts, Cancel, TypeOK, Statuses
<1>6. TypeOK'  BY <1>1, <1>2, <1>3, <1>5 DEF TypeOK, TxnTypeOK
<1> QED  BY <1>2, <1>4, <1>6, QuietHostile

LEMMA CrashHostile ==
    ASSUME HInv, (\E w \in Worker : WorkerCrash(w)) \/ LeaderCrash \/ ServerRestart
    PROVE  HInv'
<1>1. TypeOK  BY DEF HInv
<1>2. /\ UNCHANGED <<last, kind, status, parent, turn, asked, replies, rounds, bridge, posts,
                    cancelled>>
      /\ faults' \in 0 .. MaxFaults /\ reaping' \in BOOLEAN
  <2>1. /\ UNCHANGED <<last, kind, status, parent, turn, asked, replies, rounds, bridge, posts,
                      cancelled>>
        /\ faults < MaxFaults /\ faults' = faults + 1
    BY DEF WorkerCrash, LeaderCrash, ServerRestart, Fault, rowVars, msgVars
  <2>2. reaping' = reaping \/ reaping' = TRUE
    BY DEF WorkerCrash, LeaderCrash, ServerRestart
  <2>3. faults' \in 0 .. MaxFaults
    BY <1>1, <2>1, TurnLoopAssumption DEF TypeOK
  <2>4. reaping' \in BOOLEAN
    BY <1>1, <2>2 DEF TypeOK
  <2> QED  BY <2>1, <2>3, <2>4
<1>3. PICK R : Forget(R)
  BY DEF WorkerCrash, LeaderCrash, ServerRestart
<1>4. ran' \in [Row -> SUBSET Call] /\ child' \in [Row -> [Call -> Row \cup {None}]]
  BY <1>1, <1>3 DEF Forget, TypeOK
<1>5. /\ job' \in [Worker -> Row \cup {None}] /\ TxnTypeOK'
      /\ \A v \in Worker : job'[v] = job[v] \/ job'[v] = None
  <2>1. CASE ServerRestart
    <3>1. 0 \in 0 .. MaxPosts  BY TurnLoopAssumption
    <3> QED  BY <2>1, <3>1 DEF ServerRestart, TxnTypeOK
  <2>2. CASE \E w \in Worker : WorkerCrash(w)  BY <2>2, ReleaseHostile DEF WorkerCrash
  <2>3. CASE LeaderCrash  BY <2>3, ReleaseHostile, TurnLoopAssumption DEF LeaderCrash
  <2> QED  BY <2>1, <2>2, <2>3
<1>6. TypeOK'  BY <1>1, <1>2, <1>4, <1>5 DEF TypeOK
<1> QED  BY <1>2, <1>5, <1>6, QuietHostile

LEMMA NextHInv == ASSUME HInv, [Next]_vars PROVE HInv'
<1>1. CASE Post  BY <1>1, PostHostile
<1>2. CASE Cancel \/ BridgeRestarts  BY <1>2, ErrorsHostile
<1>3. ASSUME NEW w \in Worker, WorkerStep(w) \/ WorkerCrash(w) PROVE HInv'
  <2>1. CASE Claim(w)  BY <2>1, ClaimHostile
  <2>2. CASE ChatAsks(w)  BY <2>2, ChatAsksHostile
  <2>3. CASE ChatStops(w) \/ ChatFails(w) \/ DispatchWaits(w)  BY <2>3, WorkerClosesHostile
  <2>4. CASE RunCall(w)  BY <2>4, RunCallHostile
  <2>5. CASE EnqueueChild(w)  BY <2>5, EnqueueChildHostile
  <2>6. CASE DispatchDone(w) \/ DispatchFails(w)  BY <2>6, DispatchClosesHostile
  <2>7. CASE WorkerCrash(w)  BY <2>7, CrashHostile
  <2>8. CASE ChatAnswers(w) \/ ChatCounts(w)
    <3>1. TypeOK' /\ UNCHANGED <<kind, parent, job, status>>
      BY <2>8, OutcomeType DEF HInv
    <3> QED  BY <3>1, QuietHostile
  <2> QED  BY <1>3, <2>1, <2>2, <2>3, <2>4, <2>5, <2>6, <2>7, <2>8 DEF WorkerStep
<1>4. CASE Promote  BY <1>4, PromoteHostile
<1>5. CASE PromoteRaises  BY <1>5, PromoteRaisesHostile
<1>6. CASE StartupReap \/ PeriodicReap \/ LateReap  BY <1>6, ReapHostile
<1>7. CASE StartupReapRaises \/ StartupReapEnds \/ BridgeLoses  BY <1>7, RowsStayHostile
<1>8. CASE BridgeClaim \/ BridgeAnswers  BY <1>8, BridgeHostile
<1>9. CASE ServerRestart \/ LeaderCrash  BY <1>9, CrashHostile
<1>10. CASE UNCHANGED vars
  <2>1. UNCHANGED <<last, kind, status, parent, turn, asked, replies, rounds, ran, child, job,
                    since, verdict, reaping, bridge, posts, cancelled, faults>>
    BY <1>10 DEF vars, rowVars, msgVars, fanVars, envVars, workVars
  <2>2. TypeOK'  BY <2>1 DEF HInv, TypeOK, TxnTypeOK
  <2> QED  BY <2>1, <2>2, QuietHostile
<1> QED
  BY <1>1, <1>2, <1>3, <1>4, <1>5, <1>6, <1>7, <1>8, <1>9, <1>10 DEF Next

LEMMA InitHInv == Init => HInv
<1> SUFFICES ASSUME Init PROVE HInv  OBVIOUS
<1>1. TypeOK  BY InitIInv DEF IInv
<1>2. (\A w \in Worker : job[w] = None) /\ (\A r \in Row : kind[r] = "free")
  BY DEF Init
<1> QED  BY <1>1, <1>2 DEF HInv, Owned, ClaimedOnce, Parented

LEMMA HostileInvariance == Spec => []HInv
<1>1. HInv /\ [Next]_vars => HInv'  BY NextHInv
<1> QED  BY InitHInv, <1>1, PTL DEF Spec

\* Whatever crashes, restarts, cancellations and spend caps do, the queue
\* keeps its shape.
THEOREM TypeCorrect == Spec => []TypeOK
BY HostileInvariance, PTL DEF HInv

\* The claim gives a row to one worker only, even when the reapers take rows
\* that are held: a reaped row never returns to the pending ones.
THEOREM SingleOwner == Spec => []ClaimedOnce
BY HostileInvariance, PTL DEF HInv, Owned
----------------------------------------------------------------------------
(* The step budget *)

Dispatches == {d \in Row : kind[d] = "tool_dispatch"}

\* Open outcome transactions that may still dispatch: those of earlier user
\* messages, and those of the present one that have passed the count.
Old == {w \in Worker : since[w] # 0 /\ since[w] # posts /\ verdict[w] # "spent"}
Passed == {w \in Worker : since[w] # 0 /\ since[w] = posts /\ verdict[w] = "within"}

\* What the earlier user messages may have cost.
Earlier == (posts - 1) * (Steps - 2 + 2 * Cardinality(Worker))

\* Below the budget each dispatch of the present message, done or due, followed
\* a round of its own; past it only those that had passed remain.
WithinCost ==
    rounds <= Steps - 2 => Cardinality(Dispatches) + Cardinality(Old) <= Earlier + rounds
PassedCost ==
    Cardinality(Dispatches) + Cardinality(Old) + Cardinality(Passed)
        <= Earlier + (Steps - 2 + Cardinality(Worker))

Budget ==
    /\ posts = 0 => last = 0
    /\ \A w \in Worker : since[w] <= posts
    /\ \A w \in Worker : verdict[w] # "none" => since[w] # 0
    /\ posts # 0 => WithinCost /\ PassedCost

LEMMA Sizes ==
    /\ IsFiniteSet(Dispatches) /\ Cardinality(Dispatches) \in Nat
    /\ IsFiniteSet(Old) /\ Cardinality(Old) \in Nat /\ Cardinality(Old) <= Cardinality(Worker)
    /\ IsFiniteSet(Passed) /\ Cardinality(Passed) \in Nat
    /\ Cardinality(Passed) <= Cardinality(Worker)
    /\ Cardinality(Worker) \in Nat /\ Cardinality(Worker) >= 1
<1>1. IsFiniteSet(Row)  BY FS_Interval, TurnLoopAssumption DEF Row
<1>2. IsFiniteSet(Dispatches)  BY <1>1, FS_Subset DEF Dispatches
<1>3. /\ Old \subseteq Worker /\ Passed \subseteq Worker /\ {Leader} \subseteq Worker
      /\ IsFiniteSet(Worker)
  BY TurnLoopAssumption DEF Old, Passed
<1>4. Cardinality({Leader}) = 1  BY FS_Singleton
<1>5. Cardinality({Leader}) <= Cardinality(Worker)  BY <1>3, FS_Subset
<1> QED  BY <1>2, <1>3, <1>4, <1>5, FS_Subset, FS_CardinalityType

LEMMA EarlierType == TypeOK => Earlier \in Int
<1>1. ASSUME TypeOK PROVE posts - 1 \in Int /\ Steps - 2 + 2 * Cardinality(Worker) \in Int
  BY <1>1, Sizes, TurnLoopAssumption DEF TypeOK
<1> QED  BY <1>1 DEF Earlier

\* More rounds never lower the allowance, and a transaction that goes does not
\* use it.
LEMMA QuietBudget ==
    ASSUME TypeOK, Budget, Dispatches' = Dispatches, posts' = posts,
           rounds' \in {rounds, rounds + 1}, last' = last \/ last # 0,
           \A w \in Worker : \/ UNCHANGED <<since[w], verdict[w]>>
                             \/ since'[w] = 0 /\ verdict'[w] = "none"
    PROVE  Budget'
<1>1. posts = 0 => last' = 0  BY DEF Budget
<1>2. posts \in Nat /\ rounds \in Nat /\ Steps \in Nat /\ Earlier \in Int
  BY EarlierType, TurnLoopAssumption DEF TypeOK
<1>3. (\A w \in Worker : since'[w] <= posts') /\ \A w \in Worker : verdict'[w] # "none" => since'[w] # 0
  BY <1>2 DEF Budget
<1>4. Cardinality(Old') <= Cardinality(Old) /\ Cardinality(Passed') <= Cardinality(Passed)
      /\ Cardinality(Old') \in Nat /\ Cardinality(Passed') \in Nat
  <2>1. Old' \subseteq Old /\ Passed' \subseteq Passed  BY DEF Old, Passed
  <2> QED  BY <2>1, Sizes, FS_Subset, FS_CardinalityType
<1>5. Earlier' = Earlier  BY DEF Earlier
<1>6. posts # 0 => WithinCost'  BY <1>2, <1>4, <1>5, Sizes DEF Budget, WithinCost
<1>7. posts # 0 => PassedCost'  BY <1>2, <1>4, <1>5, Sizes DEF Budget, PassedCost
<1> QED  BY <1>1, <1>3, <1>6, <1>7 DEF Budget

\* No other row than that of an answer with tool calls is a dispatch.
LEMMA InsertOther ==
    ASSUME TypeOK, NEW k \in {"chat", "mcp_proxy"}, NEW p \in Row \cup {None},
           NEW t \in 0 .. MaxPosts, NEW r, NEW s \in Statuses, Insert(k, p, t, r, s)
    PROVE  Dispatches' = Dispatches
<1>1. last' \in Row /\ last' = last + 1  BY InsertType
<1>2. kind[last'] = "free"  BY <1>1 DEF TypeOK, Row
<1>3. kind' = [kind EXCEPT ![last'] = k]  BY DEF Insert
<1> QED  BY <1>1, <1>2, <1>3 DEF Dispatches, TypeOK

LEMMA ContinueBudget ==
    ASSUME HInv, Budget, NEW d \in Row, kind[d] = "tool_dispatch",
           NEW s \in {"done", "error"}, Continue(d, s), UNCHANGED <<posts, rounds>>,
           \A w \in Worker : \/ UNCHANGED <<since[w], verdict[w]>>
                             \/ since'[w] = 0 /\ verdict'[w] = "none"
    PROVE  Budget'
<1>1. TypeOK /\ turn[d] \in 0 .. MaxPosts /\ s \in Statuses /\ last # 0
  <2>1. ~(d > last)  BY DEF HInv, TypeOK
  <2>2. last # 0  BY <2>1 DEF Row, HInv, TypeOK
  <2> QED  BY <2>2 DEF HInv, TypeOK, Statuses
<1>2. Insert("chat", d, turn[d], d, s)  BY DEF Continue
<1>3. Dispatches' = Dispatches  BY <1>1, <1>2, InsertOther
<1> QED  BY <1>1, <1>3, QuietBudget

\* The next user message takes over what the last one could spend and the
\* transactions that are still open.
LEMMA PostBudget == ASSUME HInv, Budget, Steps # 0, Post PROVE Budget'
<1>1. /\ TypeOK /\ posts \in Nat /\ posts' = posts + 1 /\ posts' \in 0 .. MaxPosts
      /\ rounds' = 0 /\ Steps \in Nat /\ Steps >= 1 /\ UNCHANGED <<since, verdict>>
      /\ None \in Row \cup {None} /\ "free" \in Statuses
  BY TurnLoopAssumption DEF HInv, TypeOK, Post, Statuses, workVars
<1>2. Insert("chat", None, posts', None, "free")  BY DEF Post
<1>3. Dispatches' = Dispatches  BY <1>1, <1>2, InsertOther
<1>4. /\ \A w \in Worker : since[w] \in Nat /\ since[w] <= posts
      /\ \A w \in Worker : verdict[w] # "none" => since[w] # 0
  BY <1>1 DEF Budget, TypeOK, TxnTypeOK
<1>5. Passed' = {}  BY <1>1, <1>4 DEF Passed
<1>6. /\ Cardinality(Passed') = 0
      /\ Cardinality(Old') \in Nat /\ Cardinality(Old') <= Cardinality(Worker)
  <2>1. Old' \subseteq Worker  BY DEF Old
  <2> QED  BY <1>5, <2>1, FS_EmptySet, FS_Subset, FS_CardinalityType, TurnLoopAssumption
<1>7. Earlier' = posts * (Steps - 2 + 2 * Cardinality(Worker))
  BY <1>1, Sizes DEF Earlier
<1>8. Cardinality(Dispatches) + Cardinality(Old') <= Earlier' /\ Earlier' \in Int
  <2>1. CASE posts = 0
    <3>1. Dispatches = {} /\ Old' = {}
      BY <2>1, <1>1, <1>4 DEF Budget, Dispatches, Old, TypeOK, Row
    <3>2. Cardinality(Dispatches) = 0 /\ Cardinality(Old') = 0  BY <3>1, FS_EmptySet
    <3>3. Steps - 2 + 2 * Cardinality(Worker) \in Int  BY <1>1, Sizes
    <3>4. Earlier' = 0  BY <2>1, <3>3, <1>7
    <3> QED  BY <3>2, <3>4
  <2>2. CASE posts # 0
    <3> DEFINE B == Steps - 2 + 2 * Cardinality(Worker)
    <3>1. B \in Int /\ Earlier \in Int  BY <1>1, Sizes, EarlierType
    <3>2. posts * B = (posts - 1) * B + B /\ posts * B \in Int  BY <1>1, <3>1
    <3>3. PassedCost  BY <2>2 DEF Budget
    <3>4. Earlier' = Earlier + B  BY <1>7, <3>2 DEF Earlier
    <3>5. Cardinality(Dispatches) <= Earlier + (Steps - 2 + Cardinality(Worker))
      BY <3>1, <3>3, <1>1, Sizes DEF PassedCost
    <3>6. B = Steps - 2 + Cardinality(Worker) + Cardinality(Worker)  BY <1>1, Sizes
    <3> HIDE DEF B
    <3> QED  BY <3>1, <3>4, <3>5, <3>6, <1>1, <1>6, Sizes
  <2> QED  BY <2>1, <2>2
<1>9. WithinCost'  BY <1>1, <1>3, <1>8 DEF WithinCost
<1>10. PassedCost'
  <2>1. 0 <= Steps - 2 + Cardinality(Worker) /\ Steps - 2 + Cardinality(Worker) \in Int
    BY <1>1, Sizes
  <2> QED  BY <2>1, <1>3, <1>6, <1>8, Sizes DEF PassedCost
<1>11. posts' # 0 /\ \A w \in Worker : since'[w] <= posts'
  BY <1>1, <1>4
<1> QED  BY <1>1, <1>4, <1>9, <1>10, <1>11 DEF Budget

\* A transaction begins: it is not an old one, and has not passed.
LEMMA AnswersBudget == ASSUME HInv, Budget, NEW w \in Worker, ChatAnswers(w) PROVE Budget'
<1>1. /\ TypeOK /\ TxnTypeOK /\ posts \in Nat
      /\ since' = [since EXCEPT ![w] = posts] /\ since[w] = 0
      /\ UNCHANGED <<last, kind, posts, rounds, verdict>>
  BY DEF ChatAnswers, HInv, TypeOK, rowVars, msgVars, envVars
<1>2. verdict[w] = "none"  BY <1>1 DEF Budget
<1>3. \A v \in Worker : since'[v] = IF v = w THEN posts ELSE since[v]
  BY <1>1 DEF TxnTypeOK
<1>4. Old' = Old  BY <1>1, <1>3 DEF Old
<1>5. Passed' = Passed  BY <1>1, <1>2, <1>3 DEF Passed
<1>6. Dispatches' = Dispatches /\ Earlier' = Earlier  BY <1>1 DEF Dispatches, Earlier
<1>7. posts' # 0 => WithinCost' /\ PassedCost'
  BY <1>1, <1>4, <1>5, <1>6 DEF Budget, WithinCost, PassedCost
<1>8. \A v \in Worker : since'[v] <= posts'  BY <1>1, <1>3 DEF Budget
<1>9. \A v \in Worker : verdict'[v] # "none" => since'[v] # 0
  BY <1>1, <1>2, <1>3 DEF Budget
<1>10. posts' = 0 => last' = 0  BY <1>1 DEF Budget
<1> QED  BY <1>7, <1>8, <1>9, <1>10 DEF Budget

\* It counts: below the budget there is room for every worker to have passed.
LEMMA CountsBudget == ASSUME HInv, Budget, NEW w \in Worker, ChatCounts(w) PROVE Budget'
<1>1. /\ TypeOK /\ TxnTypeOK /\ posts \in Nat /\ rounds \in Nat /\ Steps \in Nat
      /\ Earlier \in Int
      /\ since[w] # 0 /\ verdict[w] = "none"
      /\ verdict' = [verdict EXCEPT ![w] = IF WithinBudget(w) THEN "within" ELSE "spent"]
      /\ UNCHANGED <<last, kind, posts, rounds, since>>
  BY EarlierType, TurnLoopAssumption DEF ChatCounts, HInv, TypeOK, rowVars, msgVars, envVars
<1>2. \A v \in Worker : verdict'[v] = IF v = w THEN IF WithinBudget(w) THEN "within" ELSE "spent"
                                      ELSE verdict[v]
  BY <1>1 DEF TxnTypeOK
<1>3. Dispatches' = Dispatches /\ Earlier' = Earlier  BY <1>1 DEF Dispatches, Earlier
<1>4. Cardinality(Old') \in Nat /\ Cardinality(Old') <= Cardinality(Old)
  <2>1. Old' \subseteq Old  BY <1>1, <1>2 DEF Old
  <2> QED  BY <2>1, Sizes, FS_Subset, FS_CardinalityType
<1>5. Cardinality(Passed') \in Nat /\ Cardinality(Passed') <= Cardinality(Worker)
  <2>1. Passed' \subseteq Worker  BY DEF Passed
  <2> QED  BY <2>1, FS_Subset, FS_CardinalityType, TurnLoopAssumption
<1>6. posts # 0 => WithinCost'
  BY <1>1, <1>3, <1>4, Sizes DEF Budget, WithinCost
<1>7. posts # 0 => PassedCost'
  <2>1. CASE since[w] = posts /\ WithinBudget(w)
    <3>1. rounds <= Steps - 2
      BY <2>1, <1>1 DEF WithinBudget, Counted
    <3> QED  BY <3>1, <1>1, <1>3, <1>4, <1>5, Sizes DEF Budget, WithinCost, PassedCost
  <2>2. CASE ~(since[w] = posts /\ WithinBudget(w))
    <3>1. Passed' = Passed  BY <2>2, <1>1, <1>2 DEF Passed
    <3> QED  BY <3>1, <1>1, <1>3, <1>4, <1>5, Sizes DEF Budget, PassedCost
  <2> QED  BY <2>1, <2>2
<1>8. \A v \in Worker : verdict'[v] # "none" => since'[v] # 0
  BY <1>1, <1>2 DEF Budget
<1>9. (posts' = 0 => last' = 0) /\ \A v \in Worker : since'[v] <= posts'
  BY <1>1 DEF Budget
<1> QED  BY <1>1, <1>6, <1>7, <1>8, <1>9 DEF Budget

\* An answer with tool calls costs one dispatch: a round of the present message
\* or the place of a transaction that was open, and had passed, before.
LEMMA ChatAsksBudget ==
    ASSUME HInv, Budget, NEW w \in Worker, ChatAsks(w) PROVE Budget'
<1> DEFINE c == job[w]
<1>1. TypeOK /\ TxnTypeOK /\ c \in Row /\ turn[c] \in 0 .. MaxPosts /\ "done" \in Statuses
  BY DEF HInv, TypeOK, ChatAsks, Holds, Statuses
<1>2. /\ Insert("tool_dispatch", c, turn[c], c, "done") /\ kind[c] = "chat"
      /\ rounds' = Counted(w) /\ verdict[w] = "within" /\ posts' = posts
      /\ since' = [since EXCEPT ![w] = 0] /\ verdict' = [verdict EXCEPT ![w] = "none"]
  BY DEF ChatAsks, Holds, Release, envVars
<1>3. last' \in Row /\ last' = last + 1  BY <1>1, <1>2, InsertType
<1>4. kind[last'] = "free" /\ kind' = [kind EXCEPT ![last'] = "tool_dispatch"]
  BY <1>1, <1>2, <1>3 DEF TypeOK, Row, Insert
<1>5. Dispatches' = Dispatches \cup {last'} /\ last' \notin Dispatches
  BY <1>1, <1>3, <1>4 DEF Dispatches, TypeOK
<1>6. Cardinality(Dispatches') = Cardinality(Dispatches) + 1
  BY <1>5, Sizes, FS_AddElement
<1>7. posts # 0
  <2>1. ~(c > last)  BY <1>1, <1>2 DEF TypeOK
  <2>2. last # 0  BY <2>1, <1>1 DEF Row, TypeOK
  <2> QED  BY <2>2 DEF Budget
<1>8. posts \in Nat /\ rounds \in Nat /\ Steps \in Nat /\ Earlier \in Int /\ Earlier' = Earlier
  BY <1>1, <1>2, EarlierType, TurnLoopAssumption DEF TypeOK, Earlier
<1>9. since[w] # 0  BY <1>2 DEF Budget
<1>10. \A v \in Worker : /\ since'[v] = IF v = w THEN 0 ELSE since[v]
                         /\ verdict'[v] = IF v = w THEN "none" ELSE verdict[v]
  BY <1>1, <1>2 DEF TxnTypeOK
<1>11. WithinCost' /\ PassedCost'
  <2>1. CASE since[w] = posts
    <3>1. Old' = Old /\ Passed' = Passed \ {w} /\ w \in Passed /\ rounds' = rounds + 1
      BY <2>1, <1>2, <1>9, <1>10 DEF Old, Passed, Counted
    <3>2. Cardinality(Passed') = Cardinality(Passed) - 1
      BY <3>1, Sizes, FS_RemoveElement
    <3> QED
      BY <3>1, <3>2, <1>6, <1>7, <1>8, Sizes DEF Budget, WithinCost, PassedCost
  <2>2. CASE since[w] # posts
    <3>1. Old' = Old \ {w} /\ w \in Old /\ Passed' = Passed /\ rounds' = rounds
      BY <2>2, <1>2, <1>8, <1>9, <1>10 DEF Old, Passed, Counted
    <3>2. Cardinality(Old') = Cardinality(Old) - 1
      BY <3>1, Sizes, FS_RemoveElement
    <3> QED
      BY <3>1, <3>2, <1>6, <1>7, <1>8, Sizes DEF Budget, WithinCost, PassedCost
  <2> QED  BY <2>1, <2>2
<1>12. \A v \in Worker : since'[v] <= posts' /\ (verdict'[v] # "none" => since'[v] # 0)
  BY <1>2, <1>8, <1>10 DEF Budget
<1> QED  BY <1>2, <1>7, <1>11, <1>12 DEF Budget

LEMMA EnqueueChildBudget ==
    ASSUME HInv, Budget, NEW w \in Worker, EnqueueChild(w) PROVE Budget'
<1> DEFINE d == job[w]
<1>1. /\ TypeOK /\ d \in Row /\ turn[d] \in 0 .. MaxPosts /\ None \in Row \cup {None}
      /\ "free" \in Statuses /\ kind[d] = "tool_dispatch"
  BY DEF HInv, TypeOK, EnqueueChild, Holds, Statuses
<1>2. last # 0
  <2>1. ~(d > last)  BY <1>1 DEF TypeOK
  <2> QED  BY <2>1, <1>1 DEF Row, TypeOK
<1>3. /\ Insert("mcp_proxy", None, turn[d], None, "free")
      /\ UNCHANGED <<rounds, posts, since, verdict>>
  BY DEF EnqueueChild, msgVars, envVars, workVars
<1>4. Dispatches' = Dispatches  BY <1>1, <1>3, InsertOther
<1> QED  BY <1>1, <1>2, <1>3, <1>4, QuietBudget

\* Steps that insert no row.
LEMMA NoInsertBudget ==
    ASSUME HInv, Budget, UNCHANGED <<last, kind, posts>>, rounds' \in {rounds, rounds + 1},
           \A w \in Worker : \/ UNCHANGED <<since[w], verdict[w]>>
                             \/ since'[w] = 0 /\ verdict'[w] = "none"
    PROVE  Budget'
<1>1. Dispatches' = Dispatches  BY DEF Dispatches
<1> QED  BY <1>1, QuietBudget DEF HInv

LEMMA ReleaseTxn ==
    ASSUME HInv, NEW w \in Worker, Release(w)
    PROVE  \A v \in Worker : \/ UNCHANGED <<since[v], verdict[v]>>
                             \/ since'[v] = 0 /\ verdict'[v] = "none"
BY DEF HInv, TypeOK, TxnTypeOK, Release

LEMMA WorkerBudget ==
    ASSUME HInv, Budget, NEW w \in Worker, WorkerStep(w) \/ WorkerCrash(w) PROVE Budget'
<1>1. CASE ChatAsks(w)  BY <1>1, ChatAsksBudget
<1>2. CASE EnqueueChild(w)  BY <1>2, EnqueueChildBudget
<1>3. CASE DispatchDone(w) \/ DispatchFails(w)
  <2>1. /\ job[w] \in Row /\ kind[job[w]] = "tool_dispatch" /\ UNCHANGED <<posts, rounds>>
        /\ Release(w)
    BY <1>3 DEF HInv, TypeOK, DispatchDone, DispatchFails, Holds, envVars
  <2>2. PICK s \in {"done", "error"} : Continue(job[w], s)
    BY <1>3 DEF DispatchDone, DispatchFails
  <2> QED  BY <2>1, <2>2, ReleaseTxn, ContinueBudget
<1>4. CASE ChatStops(w) \/ ChatFails(w) \/ DispatchWaits(w) \/ WorkerCrash(w)
  <2>1. /\ UNCHANGED <<last, kind, posts>> /\ (rounds' = rounds \/ rounds' = Counted(w))
        /\ Release(w)
    BY <1>4 DEF ChatStops, ChatFails, DispatchWaits, WorkerCrash, Fault,
                SetStatus, rowVars, msgVars, envVars
  <2>2. rounds' \in {rounds, rounds + 1}
    BY <2>1, CountedType DEF HInv
  <2> QED  BY <2>1, <2>2, ReleaseTxn, NoInsertBudget
<1>5. CASE Claim(w) \/ RunCall(w)
  <2>1. UNCHANGED <<last, kind, posts, rounds, since, verdict>>
    BY <1>5 DEF Claim, RunCall, SetStatus, rowVars, msgVars, envVars, workVars
  <2> QED  BY <2>1, NoInsertBudget
<1>6. CASE ChatAnswers(w)  BY <1>6, AnswersBudget
<1>7. CASE ChatCounts(w)  BY <1>7, CountsBudget
<1> QED  BY <1>1, <1>2, <1>3, <1>4, <1>5, <1>6, <1>7 DEF WorkerStep

LEMMA ReapBudget ==
    ASSUME HInv, Budget, NEW r \in Row, Reap(r), UNCHANGED <<posts, rounds, since, verdict>>
    PROVE  Budget'
<1>1. CASE kind[r] = "tool_dispatch"
  BY <1>1, ContinueBudget DEF Reap
<1>2. CASE kind[r] # "tool_dispatch"
  <2>1. UNCHANGED <<last, kind>>  BY <1>2 DEF Reap, SetStatus
  <2> QED  BY <2>1, NoInsertBudget
<1> QED  BY <1>1, <1>2

LEMMA NextBudget == ASSUME HInv, Budget, Steps # 0, [Next]_vars PROVE Budget'
<1>1. CASE Post  BY <1>1, PostBudget
<1>2. ASSUME NEW w \in Worker, WorkerStep(w) \/ WorkerCrash(w) PROVE Budget'
  BY <1>2, WorkerBudget
<1>3. CASE Promote
  <2>1. PICK d \in Row : kind[d] = "tool_dispatch" /\ Continue(d, "done")
    BY <1>3 DEF Promote, Due, Waiting, Resume
  <2>2. UNCHANGED <<posts, rounds, since, verdict>>  BY <1>3 DEF Promote, envVars, workVars
  <2> QED  BY <2>1, <2>2, ContinueBudget
<1>4. CASE StartupReap \/ PeriodicReap \/ LateReap
  <2>1. PICK r \in Row : Reap(r)  BY <1>4 DEF StartupReap, PeriodicReap, LateReap
  <2>2. UNCHANGED <<posts, rounds, since, verdict>>
    BY <1>4 DEF StartupReap, PeriodicReap, LateReap, Fault, envVars, workVars
  <2> QED  BY <2>1, <2>2, ReapBudget
<1>5. CASE \/ Cancel \/ PromoteRaises \/ StartupReapRaises \/ StartupReapEnds
           \/ BridgeClaim \/ BridgeAnswers \/ BridgeLoses \/ BridgeRestarts \/ UNCHANGED vars
  <2>1. UNCHANGED <<last, kind, posts, rounds, since, verdict>>
    BY <1>5 DEF Cancel, PromoteRaises, StartupReapRaises, StartupReapEnds, BridgeClaim,
                BridgeAnswers, BridgeLoses, BridgeRestarts,
                Fault, SetStatus, vars, rowVars, msgVars, envVars, workVars
  <2> QED  BY <2>1, NoInsertBudget
<1>6. CASE LeaderCrash \/ ServerRestart
  <2>1. UNCHANGED <<last, kind, posts, rounds>>
    BY <1>6 DEF LeaderCrash, ServerRestart, Fault, rowVars, msgVars
  <2>2. CASE LeaderCrash
    BY <2>1, <2>2, ReleaseTxn, NoInsertBudget, TurnLoopAssumption DEF LeaderCrash
  <2>3. CASE ServerRestart
    BY <2>1, <2>3, NoInsertBudget DEF ServerRestart
  <2> QED  BY <1>6, <2>2, <2>3
<1> QED  BY <1>1, <1>2, <1>3, <1>4, <1>5, <1>6 DEF Next

LEMMA BudgetSuffices == ASSUME TypeOK, Budget PROVE StepBudget
<1>1. CASE posts # 0
  <2>1. PassedCost /\ Earlier \in Int /\ Steps \in Nat
    BY <1>1, EarlierType, TurnLoopAssumption DEF Budget
  <2>2. Cardinality(Dispatches) <= Earlier + (Steps - 2 + Cardinality(Worker))
    BY <2>1, Sizes DEF PassedCost
  <2> QED  BY <2>2 DEF StepBudget, Dispatches, Earlier
<1> QED  BY <1>1 DEF StepBudget

\* With a step budget (at least one), no crash, reap, fork or user message in
\* the midst of a turn buys more dispatches than Steps - 2 and one for each
\* worker: the messages of other open transactions are all the count can miss.
\* Those open when the next user message comes may each add one to its own.
THEOREM BudgetHolds == ASSUME Steps # 0 PROVE Spec => []StepBudget
<1>1. Init => Budget  BY DEF Init, Budget
<1>2. HInv /\ Budget /\ [Next]_vars => Budget'  BY NextBudget
<1>3. HInv /\ Budget => StepBudget  BY BudgetSuffices DEF HInv
<1>4. Spec => []HInv  BY HostileInvariance
<1>5. Spec => []Budget  BY <1>1, <1>2, <1>4, PTL DEF Spec
<1> QED  BY <1>3, <1>4, <1>5, PTL

=============================================================================
