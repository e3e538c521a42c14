------------------------- MODULE BatchDispatch_proofs -------------------------
(***************************************************************************)
(* What BatchDispatch keeps for every number of chats, batches and leader    *)
(* deaths, every cap and every limit: no row is stranded in a closed batch,  *)
(* a row is answered by its own batch, the cap covers what is on its way,    *)
(* and a finished row is never written again.                               *)
(***************************************************************************)
EXTENDS BatchDispatch, FiniteSetTheorems, WellFoundedInduction, TLAPS

----------------------------------------------------------------------------
(* Least and greatest numbers *)

LEMMA LeastNatural ==
    ASSUME NEW S, S \subseteq Nat, S # {}
    PROVE  \E x \in S : \A y \in S : x <= y
<1>1. PICK x \in S : \A y \in S : <<y, x>> \notin OpToRel(<, Nat)
  BY NatLessThanWellFounded, WFMin
<1>2. \A y \in S : ~ (y < x)
  BY <1>1 DEF OpToRel
<1> QED  BY <1>2

\* Min of FiniteSetsExt is the least member.
LEMMA MinIsLeast ==
    ASSUME NEW S, S \subseteq Nat, S # {}
    PROVE  Min(S) \in S /\ \A y \in S : Min(S) <= y
BY LeastNatural DEF Min

LEMMA GreatestNatural ==
    ASSUME NEW n \in Nat, NEW S, S \subseteq 1 .. n, S # {}
    PROVE  \E x \in S : \A y \in S : y <= x
<1> DEFINE T == {n - x : x \in S}
<1>1. T \subseteq Nat
  <2>1. \A x \in S : n - x \in Nat
    OBVIOUS
  <2> QED  BY <2>1
<1>2. T # {}
  OBVIOUS
<1>3. PICK t \in T : \A u \in T : t <= u
  BY <1>1, <1>2, LeastNatural
<1>4. PICK x \in S : t = n - x
  OBVIOUS
<1>5. \A y \in S : n - x <= n - y
  BY <1>3, <1>4
<1> QED  BY <1>5

----------------------------------------------------------------------------
(* The inductive invariant *)

\* What the leader holds in memory is true of the tables: the batches it still
\* has to post are opening, the ones it polls were submitted, and the lines it
\* reads are rows the provider accepted. A crash forgets all of it.
Pointers ==
    /\ phase \in {"submit", "post", "record"} => \A b \in todo : batch[b] = "opening"
    /\ phase \in {"poll", "read"} => \A b \in todo : batch[b] = "submitted"
    /\ phase \in {"post", "record", "read"} => cur \in todo
    /\ phase = "read" => lines \subseteq sent[cur]

\* A batch that may still be posted has attempts left.
AttemptsLeft == \A b \in Batch : batch[b] \in {"free", "opening"} => submits[b] < SubmitLimit

\* A batched row is one of those its batch reserved money for.
RowsOpened == \A c \in Chat : status[c] = "batched" => c \in opened[batchId[c]]

\* The batch that answered a row was submitted, so it is never posted again.
AnsweredAfterSubmit ==
    \A c \in Chat : status[c] = "done" =>
        batchId[c] \in Batch /\ batch[batchId[c]] \notin {"free", "opening"}

BInv ==
    /\ TypeOK /\ Pointers /\ AttemptsLeft
    /\ NoRowStranded /\ RowsOpened
    /\ AnsweredByItsBatch /\ AnsweredAfterSubmit
    /\ CapKept

\* The rows that cost or will cost money.
Charged == {c \in Chat : status[c] \in {"done", "batched"}}

LEMMA FiniteChats ==
    /\ IsFiniteSet(Chat)
    /\ \A S : S \subseteq Chat => IsFiniteSet(S) /\ Cardinality(S) \in Nat
<1>1. IsFiniteSet(Chat)
  BY FS_Interval, BatchDispatchAssumption DEF Chat
<1>2. ASSUME NEW S, S \subseteq Chat PROVE IsFiniteSet(S) /\ Cardinality(S) \in Nat
  BY <1>1, <1>2, FS_Subset, FS_CardinalityType
<1> QED  BY <1>1, <1>2

\* What CapKept adds up is the number of charged rows.
LEMMA ChargedSum ==
    Spent + Cardinality({c \in Chat : status[c] = "batched"}) = Cardinality(Charged)
<1> DEFINE D == {c \in Chat : status[c] = "done"}
           B == {c \in Chat : status[c] = "batched"}
<1>1. IsFiniteSet(D) /\ IsFiniteSet(B)
  BY FiniteChats
<1>2. D \cap B = {} /\ D \cup B = Charged
  BY DEF Charged
<1>3. Cardinality(D \cup B) = Cardinality(D) + Cardinality(B) - Cardinality(D \cap B)
  BY <1>1, FS_Union
<1>4. Cardinality(D) \in Nat /\ Cardinality(B) \in Nat
  BY FiniteChats
<1>5. Cardinality(D \cap B) = 0 /\ Cardinality(D \cup B) = Cardinality(Charged)
  BY <1>2, FS_EmptySet
<1>6. Spent = Cardinality(D)
  BY DEF Spent
<1> HIDE DEF D, B
<1>7. Spent + Cardinality(B) = Cardinality(Charged)
  BY <1>3, <1>4, <1>5, <1>6
<1> QED  BY <1>7 DEF B

\* The cap is kept by a step that charges for no further row.
LEMMA CapStays ==
    ASSUME CapKept, Charged' \subseteq Charged
    PROVE  CapKept'
<1>1. (Spent + Cardinality({c \in Chat : status[c] = "batched"}) = Cardinality(Charged))'
  BY ChargedSum, PTL
<1>2. Cardinality(Charged') <= Cardinality(Charged)
  BY FiniteChats, FS_Subset DEF Charged
<1>3. Charged \subseteq Chat /\ Charged' \subseteq Chat
  BY DEF Charged
<1>4. Cardinality(Charged) \in Nat /\ Cardinality(Charged') \in Nat
  BY <1>3, FiniteChats
<1> QED  BY <1>1, <1>2, <1>4, ChargedSum, BatchDispatchAssumption DEF CapKept

----------------------------------------------------------------------------
(* Steps that only take rows out of their batches *)

\* The rows of R go back or fail, the others keep their batch, and a batch
\* that still has rows stays open.
LEMMA RowsLeave ==
    ASSUME BInv, TypeOK', Pointers', AttemptsLeft', NEW R,
           \A c \in Chat : c \in R => status'[c] \in {"batch_pending", "error"},
           \A c \in Chat : c \notin R => status'[c] = status[c] /\ batchId'[c] = batchId[c],
           \A c \in Chat : c \notin R /\ status[c] = "batched" => Open(batchId[c])',
           \A b \in Batch : batch[b] \notin {"free", "opening"}
                              => batch'[b] \notin {"free", "opening"} /\ sent'[b] = sent[b],
           UNCHANGED <<answeredBy, opened>>
    PROVE  BInv'
<1>1. NoRowStranded'
  BY DEF BInv, NoRowStranded, Open
<1>2. RowsOpened'
  BY DEF BInv, RowsOpened
<1>3. AnsweredAfterSubmit'
  BY DEF BInv, AnsweredAfterSubmit
<1>4. AnsweredByItsBatch'
  BY DEF BInv, AnsweredByItsBatch, AnsweredAfterSubmit
<1>5. Charged' \subseteq Charged
  BY DEF Charged
<1>6. CapKept'
  BY <1>5, CapStays DEF BInv
<1> QED  BY <1>1, <1>2, <1>3, <1>4, <1>6 DEF BInv

LEMMA RowsFailEffect ==
    ASSUME TypeOK, NEW R, NEW k, RowsFail(R, k)
    PROVE  /\ status' \in [Chat -> {"free", "batch_pending", "batched", "done", "error"}]
           /\ batchId' \in [Chat -> Batch \cup {None}]
           /\ attempts' \in [Chat -> Nat]
           /\ \A c \in Chat : c \in R => status'[c] \in {"batch_pending", "error"}
           /\ \A c \in Chat : c \notin R => status'[c] = status[c] /\ batchId'[c] = batchId[c]
           /\ UNCHANGED answeredBy
BY DEF TypeOK, RowsFail

LEMMA RowsEndEffect ==
    ASSUME TypeOK, NEW R, RowsEnd(R)
    PROVE  /\ status' \in [Chat -> {"free", "batch_pending", "batched", "done", "error"}]
           /\ \A c \in Chat : c \in R => status'[c] = "error"
           /\ \A c \in Chat : c \notin R => status'[c] = status[c]
           /\ UNCHANGED <<batchId, attempts, answeredBy>>
BY DEF TypeOK, RowsEnd

\* A step that leaves the rows and the batches alone.
LEMMA RowsQuiet ==
    ASSUME BInv, TypeOK', Pointers', UNCHANGED <<rowVars, batch, opened, submits>>,
           \A b \in Batch : batch[b] \notin {"free", "opening"} => sent'[b] = sent[b]
    PROVE  BInv'
<1>1. AttemptsLeft'
  BY DEF BInv, AttemptsLeft
<1>2. \A c \in Chat : status[c] = "batched" => Open(batchId[c])'
  BY DEF BInv, NoRowStranded, Open, rowVars
<1>3. UNCHANGED <<status, batchId, answeredBy>>
  BY DEF rowVars
<1>4. \A b \in Batch : batch[b] \notin {"free", "opening"} => batch'[b] \notin {"free", "opening"}
  OBVIOUS
<1> DEFINE R == {}
<1>5. /\ \A c \in Chat : c \in R => status'[c] \in {"batch_pending", "error"}
      /\ \A c \in Chat : c \notin R => status'[c] = status[c] /\ batchId'[c] = batchId[c]
      /\ \A c \in Chat : c \notin R /\ status[c] = "batched" => Open(batchId[c])'
  BY <1>2, <1>3
<1> HIDE DEF R
<1> QED  BY <1>1, <1>3, <1>4, <1>5, RowsLeave

----------------------------------------------------------------------------
(* Around the leader *)

LEMMA EnqueueStep == ASSUME BInv, Enqueue PROVE BInv'
<1>1. PICK c \in Chat : status[c] = "free" /\ status' = [status EXCEPT ![c] = "batch_pending"]
  BY DEF Enqueue
<1> DEFINE R == {c}
<1>2. UNCHANGED <<batchId, attempts, answeredBy, batch, opened, submits, old, provider, sent,
                  phase, todo, cur, lines, crashes>>
  BY DEF Enqueue, batchVars, providerVars, leaderVars
<1>3. TypeOK'
  BY <1>1, <1>2 DEF BInv, TypeOK
<1>4. Pointers' /\ AttemptsLeft'
  BY <1>2 DEF BInv, Pointers, AttemptsLeft
<1>5. /\ \A d \in Chat : d \in R => status'[d] \in {"batch_pending", "error"}
      /\ \A d \in Chat : d \notin R => status'[d] = status[d] /\ batchId'[d] = batchId[d]
  BY <1>1, <1>2 DEF BInv, TypeOK
<1>6. \A d \in Chat : d \notin R /\ status[d] = "batched" => Open(batchId[d])'
  BY <1>2 DEF BInv, NoRowStranded, Open
<1> HIDE DEF R
<1> QED  BY <1>2, <1>3, <1>4, <1>5, <1>6, RowsLeave

LEMMA CancelStep == ASSUME BInv, Cancel PROVE BInv'
<1>1. PICK c \in Chat : status' = [status EXCEPT ![c] = "error"]
  BY DEF Cancel
<1> DEFINE R == {c}
<1>2. UNCHANGED <<batchId, attempts, answeredBy, batch, opened, submits, old, provider, sent,
                  phase, todo, cur, lines, crashes>>
  BY DEF Cancel, batchVars, providerVars, leaderVars
<1>3. TypeOK'
  BY <1>1, <1>2 DEF BInv, TypeOK
<1>4. Pointers' /\ AttemptsLeft'
  BY <1>2 DEF BInv, Pointers, AttemptsLeft
<1>5. /\ \A d \in Chat : d \in R => status'[d] \in {"batch_pending", "error"}
      /\ \A d \in Chat : d \notin R => status'[d] = status[d] /\ batchId'[d] = batchId[d]
  BY <1>1, <1>2 DEF BInv, TypeOK
<1>6. \A d \in Chat : d \notin R /\ status[d] = "batched" => Open(batchId[d])'
  BY <1>2 DEF BInv, NoRowStranded, Open
<1> HIDE DEF R
<1> QED  BY <1>2, <1>3, <1>4, <1>5, <1>6, RowsLeave

LEMMA ProviderStep == ASSUME BInv, ProviderEnds \/ DayPasses PROVE BInv'
<1>1. UNCHANGED <<rowVars, batch, opened, submits, sent, phase, todo, cur, lines, crashes>>
  BY DEF ProviderEnds, DayPasses, batchVars, providerVars, leaderVars
<1>2. TypeOK'
  <2>1. CASE ProviderEnds
    BY <2>1 DEF ProviderEnds, BInv, TypeOK, rowVars, batchVars, leaderVars
  <2>2. CASE DayPasses
    BY <2>2 DEF DayPasses, BInv, TypeOK, rowVars, providerVars, leaderVars
  <2> QED  BY <2>1, <2>2
<1>3. Pointers'
  BY <1>1 DEF BInv, Pointers
<1> QED  BY <1>1, <1>2, <1>3, RowsQuiet

----------------------------------------------------------------------------
(* The leader's cycle *)

\* Every row of a stuck batch leaves it in the transaction that closes it.
LEMMA SweepStep == ASSUME BInv, Sweep PROVE BInv'
<1> DEFINE stuck == {b \in old : batch[b] = "submitted"}
           R == UNION {RowsOf(b) : b \in stuck}
<1>1. /\ phase = "sweep" /\ phase' = "open"
      /\ batch' = [b \in Batch |-> IF b \in stuck THEN "stuck" ELSE batch[b]]
      /\ RowsFail(R, "stuck")
      /\ UNCHANGED <<opened, submits, old, provider, sent, todo, cur, lines, crashes>>
  BY DEF Sweep, providerVars
<1>2. \A c \in Chat : status[c] = "batched" /\ batchId[c] \in stuck => c \in R
  BY DEF RowsOf
<1> HIDE DEF R
<1>3. /\ \A c \in Chat : c \in R => status'[c] \in {"batch_pending", "error"}
      /\ \A c \in Chat : c \notin R => status'[c] = status[c] /\ batchId'[c] = batchId[c]
      /\ UNCHANGED answeredBy
  BY <1>1, RowsFailEffect DEF BInv
<1>4. \A b \in Batch : batch'[b] = IF b \in stuck THEN "stuck" ELSE batch[b]
  BY <1>1
<1>5. TypeOK'
  BY <1>1, RowsFailEffect DEF BInv, TypeOK
<1>6. Pointers' /\ AttemptsLeft'
  BY <1>1, <1>4 DEF BInv, Pointers, AttemptsLeft
<1>7. \A c \in Chat : c \notin R /\ status[c] = "batched" => Open(batchId[c])'
  BY <1>2, <1>3, <1>4 DEF BInv, NoRowStranded, Open
<1>8. \A b \in Batch : batch[b] \notin {"free", "opening"}
                         => batch'[b] \notin {"free", "opening"} /\ sent'[b] = sent[b]
  BY <1>1, <1>4
<1> HIDE DEF stuck
<1> QED  BY <1>1, <1>3, <1>5, <1>6, <1>7, <1>8, RowsLeave

\* A batch without a request to post has only rows that just failed.
LEMMA StartSubmitStep == ASSUME BInv, StartSubmit PROVE BInv'
<1> DEFINE b == Min(todo)
           R == RowsOf(b) \cap Unsendable
<1>1. /\ phase = "submit"
      /\ UNCHANGED <<opened, submits, old, provider, sent, crashes>>
      /\ RowsEnd(R)
      /\ \/ /\ RowsOf(b) \subseteq Unsendable
            /\ batch' = [batch EXCEPT ![b] = "ended"] /\ todo' = todo \ {b}
            /\ UNCHANGED <<phase, cur, lines>>
         \/ /\ phase' = "post" /\ cur' = b /\ lines' = RowsOf(b) \ Unsendable
            /\ UNCHANGED <<batch, todo>>
  BY DEF StartSubmit, providerVars
<1>2. b \in todo /\ b \in Batch /\ batch[b] = "opening"
  <2>1. todo # {} /\ todo \subseteq Nat /\ todo \subseteq Batch
    BY DEF StartSubmit, BInv, TypeOK, Batch
  <2>2. b \in todo
    BY <2>1, MinIsLeast
  <2> QED  BY <1>1, <2>1, <2>2 DEF BInv, Pointers
<1>3. /\ \A c \in Chat : c \in R => status'[c] = "error"
      /\ \A c \in Chat : c \notin R => status'[c] = status[c]
      /\ UNCHANGED <<batchId, attempts, answeredBy>>
      /\ status' \in [Chat -> {"free", "batch_pending", "batched", "done", "error"}]
  BY <1>1, RowsEndEffect DEF BInv
<1>4. RowsOf(b) \subseteq Chat
  BY DEF RowsOf
<1> HIDE DEF b
<1>5. TypeOK'
  BY <1>1, <1>2, <1>3, <1>4 DEF BInv, TypeOK
<1>6. Pointers' /\ AttemptsLeft'
  BY <1>1, <1>2 DEF BInv, TypeOK, Pointers, AttemptsLeft
<1>7. \A c \in Chat : c \notin R /\ status[c] = "batched" => Open(batchId[c])'
  BY <1>1, <1>2, <1>3 DEF BInv, TypeOK, NoRowStranded, Open, RowsOf
<1>8. \A a \in Batch : batch[a] \notin {"free", "opening"}
                         => batch'[a] \notin {"free", "opening"} /\ sent'[a] = sent[a]
  BY <1>1, <1>2 DEF BInv, TypeOK
<1>9. /\ \A c \in Chat : c \in R => status'[c] \in {"batch_pending", "error"}
      /\ \A c \in Chat : c \notin R => status'[c] = status[c] /\ batchId'[c] = batchId[c]
  BY <1>3
<1> HIDE DEF R
<1> QED  BY <1>1, <1>3, <1>5, <1>6, <1>7, <1>8, <1>9, RowsLeave

\* A post may hit a batch that was posted before, when the leader died before
\* it could record it; no row of that batch was answered yet.
LEMMA PostStep == ASSUME BInv, Post PROVE BInv'
<1>1. /\ phase = "post" /\ phase' = "record"
      /\ provider' = [provider EXCEPT ![cur] = "running"]
      /\ sent' = [sent EXCEPT ![cur] = lines]
      /\ UNCHANGED <<rowVars, batch, opened, submits, old, todo, cur, lines, crashes>>
  BY DEF Post, batchVars
<1>2. batch[cur] = "opening"
  BY <1>1 DEF BInv, Pointers
<1>3. TypeOK'
  BY <1>1 DEF BInv, TypeOK, rowVars
<1>4. Pointers'
  BY <1>1 DEF BInv, Pointers
<1>5. \A b \in Batch : batch[b] \notin {"free", "opening"} => sent'[b] = sent[b]
  BY <1>1, <1>2 DEF BInv, TypeOK
<1> QED  BY <1>1, <1>3, <1>4, <1>5, RowsQuiet

LEMMA RecordStep == ASSUME BInv, RecordSubmitted PROVE BInv'
<1>1. /\ phase = "record" /\ phase' = "submit"
      /\ batch' = [batch EXCEPT ![cur] = "submitted"]
      /\ submits' = [submits EXCEPT ![cur] = @ + 1]
      /\ todo' = todo \ {cur} /\ cur' = None /\ lines' = {}
      /\ UNCHANGED <<status, batchId, attempts, answeredBy, opened, old, provider, sent, crashes>>
  BY DEF RecordSubmitted, Back, rowVars, providerVars
<1>2. cur \in todo /\ cur \in Batch /\ batch[cur] = "opening" /\ submits[cur] < SubmitLimit
  BY <1>1 DEF BInv, TypeOK, Pointers, AttemptsLeft
<1>3. TypeOK'
  BY <1>1, <1>2, BatchDispatchAssumption DEF BInv, TypeOK
<1>4. \A b \in Batch : b # cur => batch'[b] = batch[b] /\ submits'[b] = submits[b]
  BY <1>1 DEF BInv, TypeOK
<1>5. batch'[cur] = "submitted"
  BY <1>1, <1>2 DEF BInv, TypeOK
<1>6. Pointers'
  BY <1>1, <1>4 DEF BInv, TypeOK, Pointers
<1>7. AttemptsLeft'
  BY <1>1, <1>4, <1>5 DEF BInv, AttemptsLeft
<1> DEFINE R == {}
<1>8. /\ \A c \in Chat : c \in R => status'[c] \in {"batch_pending", "error"}
      /\ \A c \in Chat : c \notin R => status'[c] = status[c] /\ batchId'[c] = batchId[c]
  BY <1>1
<1>9. \A c \in Chat : c \notin R /\ status[c] = "batched" => Open(batchId[c])'
  BY <1>1, <1>4, <1>5 DEF BInv, NoRowStranded, Open
<1>10. \A b \in Batch : batch[b] \notin {"free", "opening"}
                         => batch'[b] \notin {"free", "opening"} /\ sent'[b] = sent[b]
  BY <1>1, <1>2, <1>4
<1> HIDE DEF R
<1> QED  BY <1>1, <1>3, <1>6, <1>7, <1>8, <1>9, <1>10, RowsLeave

\* A batch that is given up takes its rows with it.
LEMMA PostFailsStep == ASSUME BInv, PostFails PROVE BInv'
<1>1. /\ phase = "post" /\ phase' = "submit"
      /\ submits' = [submits EXCEPT ![cur] = @ + 1]
      /\ todo' = todo \ {cur} /\ cur' = None /\ lines' = {}
      /\ UNCHANGED <<opened, old, provider, sent, crashes>>
      /\ \/ MayRetry(cur) /\ UNCHANGED <<rowVars, batch>>
         \/ batch' = [batch EXCEPT ![cur] = "failed"] /\ RowsEnd(RowsOf(cur))
  BY DEF PostFails, Back, providerVars, RowsToFail
<1>2. cur \in todo /\ cur \in Batch /\ batch[cur] = "opening" /\ submits[cur] < SubmitLimit
  BY <1>1 DEF BInv, TypeOK, Pointers, AttemptsLeft
<1>3. /\ \A b \in Batch : b # cur => submits'[b] = submits[b]
      /\ submits'[cur] = submits[cur] + 1
      /\ submits' \in [Batch -> 0 .. SubmitLimit]
  BY <1>1, <1>2, BatchDispatchAssumption DEF BInv, TypeOK
<1>4. CASE MayRetry(cur) /\ UNCHANGED <<rowVars, batch>>
  <2>1. UNCHANGED <<status, batchId, attempts, answeredBy>>
    BY <1>4 DEF rowVars
  <2>2. TypeOK'
    BY <1>1, <1>3, <1>4, <2>1 DEF BInv, TypeOK
  <2>3. Pointers'
    BY <1>1, <1>4 DEF BInv, Pointers
  <2>4. AttemptsLeft'
    BY <1>1, <1>2, <1>3, <1>4 DEF BInv, AttemptsLeft, MayRetry
  <2> DEFINE R == {}
  <2>5. /\ \A c \in Chat : c \in R => status'[c] \in {"batch_pending", "error"}
        /\ \A c \in Chat : c \notin R => status'[c] = status[c] /\ batchId'[c] = batchId[c]
    BY <2>1
  <2>6. \A c \in Chat : c \notin R /\ status[c] = "batched" => Open(batchId[c])'
    BY <1>4, <2>1 DEF BInv, NoRowStranded, Open
  <2>7. \A b \in Batch : batch[b] \notin {"free", "opening"}
                         => batch'[b] \notin {"free", "opening"} /\ sent'[b] = sent[b]
    BY <1>1, <1>4
  <2> HIDE DEF R
  <2> QED  BY <1>1, <2>1, <2>2, <2>3, <2>4, <2>5, <2>6, <2>7, RowsLeave
<1>5. CASE batch' = [batch EXCEPT ![cur] = "failed"] /\ RowsEnd(RowsOf(cur))
  <2> DEFINE R == RowsOf(cur)
  <2>1. /\ \A b \in Batch : b # cur => batch'[b] = batch[b]
        /\ batch'[cur] = "failed"
    BY <1>2, <1>5 DEF BInv, TypeOK
  <2>2. /\ \A c \in Chat : c \in R => status'[c] = "error"
        /\ \A c \in Chat : c \notin R => status'[c] = status[c]
        /\ UNCHANGED <<batchId, attempts, answeredBy>>
        /\ status' \in [Chat -> {"free", "batch_pending", "batched", "done", "error"}]
    BY <1>5, RowsEndEffect DEF BInv
  <2>3. TypeOK'
    BY <1>1, <1>3, <1>5, <2>2 DEF BInv, TypeOK
  <2>4. Pointers'
    BY <1>1, <2>1 DEF BInv, TypeOK, Pointers
  <2>5. AttemptsLeft'
    BY <1>3, <2>1 DEF BInv, AttemptsLeft
  <2>6. \A c \in Chat : c \notin R /\ status[c] = "batched" => Open(batchId[c])'
    BY <2>1, <2>2 DEF BInv, NoRowStranded, Open, RowsOf
  <2>7. \A b \in Batch : batch[b] \notin {"free", "opening"}
                         => batch'[b] \notin {"free", "opening"} /\ sent'[b] = sent[b]
    BY <1>1, <1>2, <2>1
  <2> HIDE DEF R
  <2> QED  BY <1>1, <2>2, <2>3, <2>4, <2>5, <2>6, <2>7, RowsLeave
<1> QED  BY <1>1, <1>4, <1>5

\* The rows the results left out go back or fail before the batch ends.
LEMMA ReadEndsStep == ASSUME BInv, ReadEnds PROVE BInv'
<1> DEFINE R == RowsOf(cur)
<1>1. /\ phase = "read" /\ phase' = "poll"
      /\ batch' = [batch EXCEPT ![cur] = IF @ = "submitted" THEN "ended" ELSE @]
      /\ RowsFail(R, "missing")
      /\ todo' = todo \ {cur} /\ cur' = None /\ lines' = {}
      /\ UNCHANGED <<opened, submits, old, provider, sent, crashes>>
  BY DEF ReadEnds, Back, providerVars
<1>2. cur \in todo /\ cur \in Batch /\ batch[cur] = "submitted"
  BY <1>1 DEF BInv, TypeOK, Pointers
<1>3. /\ \A b \in Batch : b # cur => batch'[b] = batch[b]
      /\ batch'[cur] = "ended"
  BY <1>1, <1>2 DEF BInv, TypeOK
<1>4. /\ \A c \in Chat : c \in R => status'[c] \in {"batch_pending", "error"}
      /\ \A c \in Chat : c \notin R => status'[c] = status[c] /\ batchId'[c] = batchId[c]
      /\ UNCHANGED answeredBy
  BY <1>1, RowsFailEffect DEF BInv
<1>5. TypeOK'
  BY <1>1, <1>2, RowsFailEffect DEF BInv, TypeOK
<1>6. Pointers' /\ AttemptsLeft'
  BY <1>1, <1>3 DEF BInv, TypeOK, Pointers, AttemptsLeft
<1>7. \A c \in Chat : c \notin R /\ status[c] = "batched" => Open(batchId[c])'
  BY <1>3, <1>4 DEF BInv, NoRowStranded, Open, RowsOf
<1>8. \A b \in Batch : batch[b] \notin {"free", "opening"}
                         => batch'[b] \notin {"free", "opening"} /\ sent'[b] = sent[b]
  BY <1>1, <1>3
<1> HIDE DEF R
<1> QED  BY <1>1, <1>4, <1>5, <1>6, <1>7, <1>8, RowsLeave

----------------------------------------------------------------------------
(* An answer is written *)

\* The row was charged when it was batched; its batch was submitted and the
\* provider accepted it.
LEMMA AnswerWritten ==
    ASSUME BInv, phase = "read", NEW c \in lines, Takes(c),
           lines' = lines \ {c},
           status' = [status EXCEPT ![c] = "done"],
           answeredBy' = [answeredBy EXCEPT ![c] = cur],
           UNCHANGED <<batchId, attempts, batchVars, providerVars, phase, todo, cur, crashes>>
    PROVE  BInv'
<1>1. /\ UNCHANGED <<batch, opened, submits, old, provider, sent>>
      /\ c \in Chat /\ cur \in Batch /\ batchId[c] = cur /\ status[c] = "batched"
      /\ batch[cur] = "submitted" /\ c \in sent[cur]
  BY DEF BInv, TypeOK, Pointers, Takes, batchVars, providerVars
<1>2. /\ status'[c] = "done" /\ answeredBy'[c] = cur
      /\ \A d \in Chat : d # c => status'[d] = status[d] /\ answeredBy'[d] = answeredBy[d]
  BY <1>1 DEF BInv, TypeOK
<1>3. TypeOK'
  BY <1>1 DEF BInv, TypeOK
<1>4. Pointers' /\ AttemptsLeft'
  BY <1>1 DEF BInv, Pointers, AttemptsLeft
<1>5. NoRowStranded' /\ RowsOpened'
  BY <1>1, <1>2 DEF BInv, NoRowStranded, RowsOpened, Open
<1>6. AnsweredByItsBatch' /\ AnsweredAfterSubmit'
  BY <1>1, <1>2 DEF BInv, AnsweredByItsBatch, AnsweredAfterSubmit
<1>7. Charged' \subseteq Charged
  BY <1>1, <1>2 DEF Charged
<1>8. CapKept'
  BY <1>7, CapStays DEF BInv
<1> QED  BY <1>3, <1>4, <1>5, <1>6, <1>8 DEF BInv

LEMMA ReadLineStep == ASSUME BInv, ReadLine PROVE BInv'
<1>1. phase = "read"
  BY DEF ReadLine
<1>2. UNCHANGED <<batchVars, providerVars, phase, todo, cur, crashes>>
  BY DEF ReadLine
<1>3. UNCHANGED <<batch, opened, submits, old, provider, sent, phase, todo, cur, crashes>>
  BY <1>2 DEF batchVars, providerVars
<1>4. PICK c \in lines :
        /\ lines' = lines \ {c}
        /\ \/ UNCHANGED rowVars
           \/ /\ Takes(c) /\ status' = [status EXCEPT ![c] = "done"]
              /\ answeredBy' = [answeredBy EXCEPT ![c] = cur]
              /\ UNCHANGED <<batchId, attempts>>
           \/ \E k \in {"overloaded", "expired", "invalid"} : RowsFail({c}, k)
  BY DEF ReadLine
<1>5. Pointers'
  BY <1>3, <1>4 DEF BInv, Pointers
<1>6. CASE UNCHANGED rowVars
  <2>1. TypeOK'
    BY <1>3, <1>4, <1>6 DEF BInv, TypeOK, rowVars
  <2> QED  BY <1>3, <1>5, <1>6, <2>1, RowsQuiet
<1>7. CASE /\ Takes(c) /\ status' = [status EXCEPT ![c] = "done"]
           /\ answeredBy' = [answeredBy EXCEPT ![c] = cur]
           /\ UNCHANGED <<batchId, attempts>>
  BY <1>1, <1>2, <1>4, <1>7, AnswerWritten
<1>8. ASSUME NEW k \in {"overloaded", "expired", "invalid"}, RowsFail({c}, k) PROVE BInv'
  <2> DEFINE R == {c}
  <2>1. /\ \A d \in Chat : d \in R => status'[d] \in {"batch_pending", "error"}
        /\ \A d \in Chat : d \notin R => status'[d] = status[d] /\ batchId'[d] = batchId[d]
        /\ UNCHANGED answeredBy
    BY <1>8, RowsFailEffect DEF BInv
  <2>2. TypeOK'
    BY <1>3, <1>4, <1>8, RowsFailEffect DEF BInv, TypeOK
  <2>3. AttemptsLeft'
    BY <1>3 DEF BInv, AttemptsLeft
  <2>4. \A d \in Chat : d \notin R /\ status[d] = "batched" => Open(batchId[d])'
    BY <1>3, <2>1 DEF BInv, NoRowStranded, Open
  <2>5. \A b \in Batch : batch[b] \notin {"free", "opening"}
                         => batch'[b] \notin {"free", "opening"} /\ sent'[b] = sent[b]
    BY <1>3
  <2> HIDE DEF R
  <2> QED  BY <1>3, <1>5, <2>1, <2>2, <2>3, <2>4, <2>5, RowsLeave
<1> QED  BY <1>4, <1>6, <1>7, <1>8

----------------------------------------------------------------------------
(* A batch is opened within the cap *)

\* Each batched row has its place among the reserved ones.
LEMMA BatchedReserved ==
    ASSUME BInv
    PROVE  /\ Cardinality({c \in Chat : status[c] = "batched"}) <= Reserved
           /\ Reserved \in Nat
<1> DEFINE B == {c \in Chat : status[c] = "batched"}
           P == {r \in Batch \X Chat : Open(r[1]) /\ r[2] \in opened[r[1]]}
           f == [c \in B |-> <<batchId[c], c>>]
<1>1. IsFiniteSet(Batch \X Chat)
  <2>1. IsFiniteSet(Batch)
    BY FS_Interval, BatchDispatchAssumption DEF Batch
  <2> QED  BY <2>1, FiniteChats, FS_Product
<1>2. IsFiniteSet(P)
  BY <1>1, FS_Subset
<1>3. \A c \in B : batchId[c] \in Batch /\ Open(batchId[c]) /\ c \in opened[batchId[c]]
  BY DEF BInv, NoRowStranded, RowsOpened
<1>4. f \in Injection(B, P)
  <2>1. \A c \in B : <<batchId[c], c>> \in P
    BY <1>3
  <2>2. f \in [B -> P]
    BY <2>1
  <2>3. \A c, d \in B : f[c] = f[d] => c = d
    OBVIOUS
  <2> QED  BY <2>2, <2>3 DEF Injection, IsInjective
<1>5. Cardinality(B) <= Cardinality(P)
  BY <1>2, <1>4, FS_Injection
<1>6. Cardinality(P) \in Nat
  BY <1>2, FS_CardinalityType
<1> QED  BY <1>5, <1>6 DEF Reserved

\* The rows that fit are no more than the room there is.
LEMMA FitsInRoom ==
    ASSUME Fits # {}
    PROVE  Cardinality(Fits) <= Room
<1> DEFINE waiting == {c \in Chat : status[c] = "batch_pending"}
<1>1. /\ Fits \subseteq waiting /\ waiting \subseteq Chat
      /\ \A c \in Fits : Cardinality({d \in waiting : d <= c}) <= Room
  BY DEF Fits
<1>2. Fits \subseteq 1 .. MaxChats /\ MaxChats \in Nat
  BY <1>1, BatchDispatchAssumption DEF Chat
<1>3. PICK m \in Fits : \A c \in Fits : c <= m
  BY <1>2, GreatestNatural
<1> DEFINE M == {d \in waiting : d <= m}
<1>4. Fits \subseteq M /\ M \subseteq Chat
  BY <1>1, <1>3
<1>5. Cardinality(Fits) <= Cardinality(M)
  BY <1>4, FiniteChats, FS_Subset
<1>6. Cardinality(Fits) \in Nat /\ Cardinality(M) \in Nat
  BY <1>4, FiniteChats
<1>7. Cardinality(M) <= Room
  BY <1>1, <1>3
<1>8. Room \in Int
  <2>1. Spent \in Nat
    BY FiniteChats DEF Spent
  <2>2. Reserved \in Nat
    <3>1. IsFiniteSet(Batch)
      BY FS_Interval, BatchDispatchAssumption DEF Batch
    <3>2. IsFiniteSet(Batch \X Chat)
      BY <3>1, FiniteChats, FS_Product
    <3>3. IsFiniteSet({r \in Batch \X Chat : Open(r[1]) /\ r[2] \in opened[r[1]]})
      BY <3>2, FS_Subset
    <3> QED  BY <3>3, FS_CardinalityType DEF Reserved
  <2> QED  BY <2>1, <2>2, BatchDispatchAssumption DEF Room
<1> HIDE DEF M
<1> QED  BY <1>5, <1>6, <1>7, <1>8

LEMMA OpenKeepsCap ==
    ASSUME BInv, Fits # {}, Charged' = Charged \cup Fits
    PROVE  CapKept'
<1> DEFINE B == {c \in Chat : status[c] = "batched"}
<1>1. Fits \subseteq Chat /\ Charged \subseteq Chat /\ Fits \cap Charged = {}
  BY DEF Fits, Charged
<1>2. Cardinality(Charged \cup Fits)
        = Cardinality(Charged) + Cardinality(Fits) - Cardinality(Charged \cap Fits)
  BY <1>1, FiniteChats, FS_Union
<1>3. Cardinality(Charged \cap Fits) = 0
  BY <1>1, FS_EmptySet
<1>4. Cardinality(Charged) \in Nat /\ Cardinality(Fits) \in Nat
      /\ Spent \in Nat /\ Cardinality(B) \in Nat
  BY <1>1, FiniteChats DEF Spent
<1>5. Cardinality(Fits) <= Cap - Spent - Reserved
  BY FitsInRoom DEF Room
<1>6. Cardinality(B) <= Reserved /\ Reserved \in Nat
  BY BatchedReserved
<1>7. Spent + Cardinality(B) = Cardinality(Charged)
  BY ChargedSum
<1>8. (Spent + Cardinality({c \in Chat : status[c] = "batched"}) = Cardinality(Charged))'
  BY ChargedSum, PTL
<1> HIDE DEF B
<1>9. Cardinality(Charged \cup Fits) <= Cap
  BY <1>2, <1>3, <1>4, <1>5, <1>6, <1>7, BatchDispatchAssumption
<1> QED  BY <1>8, <1>9 DEF CapKept

LEMMA OpenStep == ASSUME BInv, OpenBatch PROVE BInv'
<1>1. /\ phase = "open" /\ phase' = "submit"
      /\ todo' = {b \in Batch : batch'[b] = "opening"}
      /\ UNCHANGED <<attempts, answeredBy, submits, old, provider, sent, cur, lines, crashes>>
      /\ \/ UNCHANGED <<status, batchId, batch, opened>>
         \/ \E b \in Batch :
              /\ Fits # {} /\ batch[b] = "free"
              /\ batch' = [batch EXCEPT ![b] = "opening"]
              /\ opened' = [opened EXCEPT ![b] = Fits]
              /\ status' = [c \in Chat |-> IF c \in Fits THEN "batched" ELSE status[c]]
              /\ batchId' = [c \in Chat |-> IF c \in Fits THEN b ELSE batchId[c]]
  BY DEF OpenBatch, providerVars
<1>2. Pointers'
  BY <1>1 DEF Pointers
<1>3. CASE UNCHANGED <<status, batchId, batch, opened>>
  <2>1. TypeOK'
    BY <1>1, <1>3 DEF BInv, TypeOK
  <2> QED  BY <1>1, <1>2, <1>3, <2>1, RowsQuiet DEF rowVars
<1>4. ASSUME NEW b \in Batch, Fits # {}, batch[b] = "free",
             batch' = [batch EXCEPT ![b] = "opening"],
             opened' = [opened EXCEPT ![b] = Fits],
             status' = [c \in Chat |-> IF c \in Fits THEN "batched" ELSE status[c]],
             batchId' = [c \in Chat |-> IF c \in Fits THEN b ELSE batchId[c]]
      PROVE  BInv'
  <2>1. Fits \subseteq Chat /\ \A c \in Fits : status[c] = "batch_pending"
    BY DEF Fits
  <2>2. /\ \A a \in Batch : a # b => batch'[a] = batch[a] /\ opened'[a] = opened[a]
        /\ batch'[b] = "opening" /\ opened'[b] = Fits
        /\ \A c \in Chat : IF c \in Fits THEN status'[c] = "batched" /\ batchId'[c] = b
                           ELSE status'[c] = status[c] /\ batchId'[c] = batchId[c]
    BY <1>4 DEF BInv, TypeOK
  <2>3. TypeOK'
    BY <1>1, <1>4, <2>1 DEF BInv, TypeOK
  <2>4. AttemptsLeft'
    BY <1>1, <1>4, <2>2 DEF BInv, AttemptsLeft
  <2>5. NoRowStranded'
    BY <1>4, <2>2 DEF BInv, NoRowStranded, Open
  <2>6. RowsOpened'
    BY <1>4, <2>2, <2>5 DEF BInv, RowsOpened, NoRowStranded, Open
  <2>7. AnsweredAfterSubmit' /\ AnsweredByItsBatch'
    BY <1>1, <1>4, <2>1, <2>2 DEF BInv, AnsweredAfterSubmit, AnsweredByItsBatch
  <2>8. Charged' = Charged \cup Fits
    BY <2>1, <2>2 DEF Charged
  <2>9. CapKept'
    BY <1>4, <2>8, OpenKeepsCap
  <2> QED  BY <1>2, <2>3, <2>4, <2>5, <2>6, <2>7, <2>9 DEF BInv
<1> QED  BY <1>1, <1>3, <1>4

----------------------------------------------------------------------------
(* Steps in the leader's memory *)

LEMMA LeaderStep ==
    ASSUME BInv, \/ SubmitsEnd \/ PollNothing \/ StartRead \/ ReadBreaks \/ PollsEnd \/ Crash
    PROVE  BInv'
<1>1. /\ UNCHANGED <<rowVars, batchVars, providerVars>>
      /\ UNCHANGED <<status, batchId, attempts, answeredBy, batch, opened, submits, old,
                     provider, sent>>
  BY DEF SubmitsEnd, PollNothing, StartRead, ReadBreaks, PollsEnd, Crash, rowVars, batchVars,
         providerVars
<1>2. CASE SubmitsEnd \/ ReadBreaks \/ PollsEnd \/ Crash
  <2>1. TypeOK'
    BY <1>1, <1>2, BatchDispatchAssumption
       DEF SubmitsEnd, ReadBreaks, PollsEnd, Crash, Back, BInv, TypeOK
  <2>2. Pointers'
    BY <1>1, <1>2 DEF SubmitsEnd, ReadBreaks, PollsEnd, Crash, Back, BInv, Pointers
  <2> QED  BY <1>1, <2>1, <2>2, RowsQuiet
<1>3. CASE PollNothing
  <2>1. TypeOK' /\ Pointers'
    BY <1>1, <1>3 DEF PollNothing, BInv, TypeOK, Pointers
  <2> QED  BY <1>1, <2>1, RowsQuiet
<1>4. CASE StartRead
  <2> DEFINE b == Min(todo)
  <2>1. todo # {} /\ todo \subseteq Nat /\ todo \subseteq Batch
    BY <1>4 DEF StartRead, BInv, TypeOK, Batch
  <2>2. b \in todo
    BY <2>1, MinIsLeast
  <2>3. /\ phase = "poll" /\ phase' = "read" /\ cur' = b /\ lines' \subseteq sent[b]
        /\ UNCHANGED <<todo, crashes>>
    BY <1>4 DEF StartRead
  <2> HIDE DEF b
  <2>4. TypeOK'
    BY <1>1, <2>1, <2>2, <2>3 DEF BInv, TypeOK
  <2>5. Pointers'
    BY <1>1, <2>2, <2>3 DEF BInv, Pointers
  <2> QED  BY <1>1, <2>4, <2>5, RowsQuiet
<1> QED  BY <1>2, <1>3, <1>4

LEMMA StutterStep == ASSUME BInv, UNCHANGED vars PROVE BInv'
<1>1. UNCHANGED <<rowVars, status, batchId, attempts, answeredBy, batch, opened, submits, old,
                  provider, sent, phase, todo, cur, lines, crashes>>
  BY DEF vars, rowVars, batchVars, providerVars, leaderVars
<1>2. TypeOK' /\ Pointers'
  BY <1>1 DEF BInv, TypeOK, Pointers
<1> QED  BY <1>1, <1>2, RowsQuiet

----------------------------------------------------------------------------
(* The theorems *)

LEMMA InitBInv == Init => BInv
<1> SUFFICES ASSUME Init PROVE BInv
  OBVIOUS
<1>1. TypeOK
  BY BatchDispatchAssumption DEF Init, TypeOK
<1>2. Pointers /\ AttemptsLeft
  BY BatchDispatchAssumption DEF Init, Pointers, AttemptsLeft
<1>3. NoRowStranded /\ RowsOpened /\ AnsweredByItsBatch /\ AnsweredAfterSubmit
  BY DEF Init, NoRowStranded, RowsOpened, AnsweredByItsBatch, AnsweredAfterSubmit
<1>4. Charged = {}
  BY DEF Init, Charged
<1>5. CapKept
  BY <1>4, ChargedSum, FS_EmptySet, BatchDispatchAssumption DEF CapKept
<1> QED  BY <1>1, <1>2, <1>3, <1>5 DEF BInv

LEMMA NextBInv == BInv /\ [Next]_vars => BInv'
<1> SUFFICES ASSUME BInv, [Next]_vars PROVE BInv'
  OBVIOUS
<1>1. CASE Enqueue \/ Cancel \/ ProviderEnds \/ DayPasses
  BY <1>1, EnqueueStep, CancelStep, ProviderStep
<1>2. CASE Cycle
  BY <1>2, SweepStep, OpenStep, StartSubmitStep, PostStep, PostFailsStep, RecordStep,
     ReadLineStep, ReadEndsStep, LeaderStep DEF Cycle
<1>3. CASE Crash \/ UNCHANGED vars
  BY <1>3, LeaderStep, StutterStep
<1> QED  BY <1>1, <1>2, <1>3 DEF Next

LEMMA BatchInvariant == Spec => []BInv
BY InitBInv, NextBInv, PTL DEF Spec

\* The columns of work_queue and provider_batches, and the leader's memory,
\* keep their types; submit_attempts never passes its limit.
THEOREM BatchTypes == Spec => []TypeOK
<1>1. BInv => TypeOK
  BY DEF BInv
<1> QED  BY <1>1, BatchInvariant, PTL

\* Wherever the leader dies and whatever the provider answers, the batch of a
\* batched row is one that a later cycle posts, polls or sweeps.
THEOREM RowsNeverStranded == Spec => []NoRowStranded
<1>1. BInv => NoRowStranded
  BY DEF BInv
<1> QED  BY <1>1, BatchInvariant, PTL

\* apply_batch_result writes to a row the answer of the batch it is in, from
\* among the rows the provider accepted with that batch.
THEOREM RowsAnsweredByTheirBatch == Spec => []AnsweredByItsBatch
<1>1. BInv => AnsweredByItsBatch
  BY DEF BInv
<1> QED  BY <1>1, BatchInvariant, PTL

\* batch_open's reservation covers every row on its way, so that what is spent
\* and what is on its way stays within the provider's cap.
THEOREM BatchCapKept == Spec => []CapKept
<1>1. BInv => CapKept
  BY DEF BInv
<1> QED  BY <1>1, BatchInvariant, PTL

\* "a cancelled row is never written": no cycle touches a row that was
\* answered, failed or cancelled.
THEOREM FinishedRowsStay == Spec => TerminalStays
<1>1. ASSUME BInv, [Next]_vars, NEW c \in Chat, status[c] \in {"done", "error"}
      PROVE  status'[c] = status[c]
  <2>1. CASE Enqueue \/ Cancel
    BY <1>1, <2>1 DEF Enqueue, Cancel, Live, BInv, TypeOK
  <2>2. CASE Sweep
    BY <1>1, <2>2 DEF Sweep, RowsFail, RowsOf
  <2>3. CASE OpenBatch
    BY <1>1, <2>3 DEF OpenBatch, Fits
  <2>4. CASE StartSubmit
    BY <1>1, <2>4 DEF StartSubmit, RowsEnd, RowsOf
  <2>5. CASE PostFails
    BY <1>1, <2>5 DEF PostFails, RowsEnd, RowsToFail, RowsOf, rowVars
  <2>6. CASE ReadLine
    BY <1>1, <2>6 DEF ReadLine, Takes, RowsFail, rowVars, BInv, TypeOK
  <2>7. CASE ReadEnds
    BY <1>1, <2>7 DEF ReadEnds, RowsFail, RowsOf
  <2>8. CASE \/ ProviderEnds \/ DayPasses \/ SubmitsEnd \/ Post \/ RecordSubmitted \/ PollNothing
             \/ StartRead \/ ReadBreaks \/ PollsEnd \/ Crash \/ UNCHANGED vars
    BY <2>8 DEF ProviderEnds, DayPasses, SubmitsEnd, Post, RecordSubmitted, PollNothing,
                StartRead, ReadBreaks, PollsEnd, Crash, vars, rowVars
  <2> QED  BY <1>1, <2>1, <2>2, <2>3, <2>4, <2>5, <2>6, <2>7, <2>8 DEF Next, Cycle
<1>2. BInv /\ [Next]_vars
        => (\A c \in Chat : status[c] \in {"done", "error"} => status'[c] = status[c])
  BY <1>1
<1>3. BInv /\ [Next]_vars
        => [\A c \in Chat : status[c] \in {"done", "error"} => status'[c] = status[c]]_vars
  BY <1>2
<1> QED  BY <1>3, BatchInvariant, PTL DEF Spec, TerminalStays

----------------------------------------------------------------------------
(* The simulation: what the rows see of each step is a step of the service *)

\* The rows of R that batch_row_failed lets go back have tries left.
LEMMA ComesBack ==
    ASSUME TypeOK, NEW R, R \subseteq {c \in Chat : status[c] = "batched"},
           NEW k, k \in {"overloaded", "expired", "missing", "stuck", "invalid"}, RowsFail(R, k)
    PROVE  Service!ComeBack
<1> DEFINE back == {c \in R : attempts[c] < Limit(k)}
           lost == R \ back
<1>1. back \in SUBSET Service!Having({"batched"}) /\ lost \in SUBSET Service!Having({"batched"})
  BY DEF Service!Having
<1>2. Limit(k) <= Retries
  BY BatchDispatchAssumption DEF Limit, Retries
<1>3. Limit(k) \in Nat /\ Retries \in Nat
  BY BatchDispatchAssumption DEF Limit, Retries
<1>4. \A c \in back : attempts[c] < Retries
  BY <1>2, <1>3 DEF TypeOK
<1>5. status' = [c \in Chat |-> IF c \in back THEN "batch_pending"
                                ELSE IF c \in lost THEN "error" ELSE status[c]]
  BY DEF RowsFail
<1>6. attempts' = [c \in Chat |-> IF c \in back THEN attempts[c] + 1 ELSE attempts[c]]
  BY DEF RowsFail
<1>7. back \cap lost = {}
  OBVIOUS
<1> HIDE DEF back, lost
<1> QED  BY <1>1, <1>4, <1>5, <1>6, <1>7 DEF Service!ComeBack

\* batch_fail_row ends rows that are away.
LEMMA GivenUp ==
    ASSUME TypeOK, NEW R, R \subseteq {c \in Chat : status[c] = "batched"}, RowsEnd(R)
    PROVE  Service!ComeBack
<1> DEFINE back == {}
<1>1. back \in SUBSET Service!Having({"batched"}) /\ R \in SUBSET Service!Having({"batched"})
  BY DEF Service!Having
<1>2. status' = [c \in Chat |-> IF c \in back THEN "batch_pending"
                                ELSE IF c \in R THEN "error" ELSE status[c]]
  BY DEF RowsEnd
<1>3. attempts' = [c \in Chat |-> IF c \in back THEN attempts[c] + 1 ELSE attempts[c]]
  BY DEF RowsEnd, TypeOK
<1>4. back \cap R = {} /\ \A c \in back : attempts[c] < Retries
  OBVIOUS
<1> HIDE DEF back
<1> QED  BY <1>1, <1>2, <1>3, <1>4 DEF Service!ComeBack

\* What batch_open takes along is paid for, with all that is away or answered.
LEMMA LeavesPaidFor ==
    ASSUME BInv, BInv', OpenBatch
    PROVE  Service!GoAway \/ UNCHANGED <<status, attempts>>
<1>1. CASE UNCHANGED <<status, batchId, batch, opened>>
  BY <1>1 DEF OpenBatch
<1>2. CASE status' = [c \in Chat |-> IF c \in Fits THEN "batched" ELSE status[c]]
  <2>1. Fits \in SUBSET Service!Having({"batch_pending"})
    BY DEF Fits, Service!Having
  <2>2. Service!Having({"batched", "done"}) \cup Fits = Charged'
    BY <1>2 DEF Charged, Service!Having, Fits
  <2>3. (Spent + Cardinality({c \in Chat : status[c] = "batched"}) = Cardinality(Charged))'
    BY ChargedSum, PTL
  <2>4. Cardinality(Charged') <= Cap
    BY <2>3 DEF BInv, CapKept
  <2>5. UNCHANGED attempts
    BY DEF OpenBatch
  <2>6. Service!Cardinality(Charged') = Cardinality(Charged')
    BY DEF Cardinality, Service!Cardinality
  <2> QED  BY <1>2, <2>1, <2>2, <2>4, <2>5, <2>6 DEF Service!GoAway
<1> QED  BY <1>1, <1>2 DEF OpenBatch

\* A result line answers its row, sends it back, fails it, or finds it gone.
LEMMA LineServes ==
    ASSUME BInv, ReadLine
    PROVE  Service!Answer \/ Service!ComeBack \/ UNCHANGED <<status, attempts>>
<1>1. PICK c \in lines :
         \/ ~Takes(c) /\ UNCHANGED rowVars
         \/ /\ Takes(c)
            /\ status' = [status EXCEPT ![c] = "done"]
            /\ UNCHANGED <<batchId, attempts>>
         \/ Takes(c) /\ \E k \in {"overloaded", "expired", "invalid"} : RowsFail({c}, k)
  BY DEF ReadLine
<1>2. TypeOK /\ c \in Chat
  BY DEF BInv, TypeOK
<1>3. CASE UNCHANGED rowVars
  BY <1>3 DEF rowVars
<1>4. CASE /\ Takes(c)
           /\ status' = [status EXCEPT ![c] = "done"]
           /\ UNCHANGED <<batchId, attempts>>
  <2>1. c \in Service!Having({"batched"})
    BY <1>2, <1>4 DEF Takes, Service!Having
  <2> QED  BY <1>4, <2>1 DEF Service!Answer
<1>5. CASE Takes(c) /\ \E k \in {"overloaded", "expired", "invalid"} : RowsFail({c}, k)
  <2>1. PICK k \in {"overloaded", "expired", "invalid"} : RowsFail({c}, k)
    BY <1>5
  <2>2. {c} \subseteq {d \in Chat : status[d] = "batched"}
    BY <1>2, <1>5 DEF Takes
  <2> QED  BY <1>2, <2>1, <2>2, ComesBack
<1> QED  BY <1>1, <1>3, <1>4, <1>5

LEMMA ServiceStep ==
    ASSUME BInv, BInv', [Next]_vars
    PROVE  [Service!Next]_(Service!vars)
<1>1. TypeOK
  BY DEF BInv
<1>2. CASE Enqueue
  <2>1. PICK c \in Chat : status[c] = "free" /\ status' = [status EXCEPT ![c] = "batch_pending"]
    BY <1>2 DEF Enqueue
  <2>2. Service!Enqueue
    BY <1>2, <2>1 DEF Enqueue, Service!Enqueue, Service!Having
  <2> QED  BY <2>2 DEF Service!Next
<1>3. CASE Cancel
  <2>1. PICK c \in Chat : Live(c) /\ status' = [status EXCEPT ![c] = "error"]
    BY <1>3 DEF Cancel
  <2>2. Service!Cancel
    BY <1>3, <2>1 DEF Cancel, Live, Service!Cancel, Service!Having
  <2> QED  BY <2>2 DEF Service!Next
<1>4. CASE Sweep
  <2>1. PICK R : R \subseteq {c \in Chat : status[c] = "batched"} /\ RowsFail(R, "stuck")
    BY <1>4 DEF Sweep, RowsOf
  <2>2. Service!ComeBack
    BY <1>1, <2>1, ComesBack
  <2> QED  BY <2>2 DEF Service!Next
<1>5. CASE OpenBatch
  BY <1>5, LeavesPaidFor DEF Service!Next, Service!vars
<1>6. CASE StartSubmit
  <2>1. PICK R : R \subseteq {c \in Chat : status[c] = "batched"} /\ RowsEnd(R)
    BY <1>6 DEF StartSubmit, RowsOf
  <2>2. Service!ComeBack
    BY <1>1, <2>1, GivenUp
  <2> QED  BY <2>2 DEF Service!Next
<1>7. CASE PostFails
  <2>1. UNCHANGED rowVars \/ RowsEnd(RowsOf(cur))
    BY <1>7 DEF PostFails, RowsToFail
  <2>2. CASE UNCHANGED rowVars
    BY <2>2 DEF rowVars, Service!vars
  <2>3. CASE RowsEnd(RowsOf(cur))
    <3>1. Service!ComeBack
      BY <1>1, <2>3, GivenUp DEF RowsOf
    <3> QED  BY <3>1 DEF Service!Next
  <2> QED  BY <2>1, <2>2, <2>3
<1>8. CASE ReadLine
  BY <1>8, LineServes DEF Service!Next, Service!vars
<1>9. CASE ReadEnds
  <2>1. RowsFail(RowsOf(cur), "missing")
    BY <1>9 DEF ReadEnds
  <2>2. Service!ComeBack
    BY <1>1, <2>1, ComesBack DEF RowsOf
  <2> QED  BY <2>2 DEF Service!Next
<1>10. CASE \/ ProviderEnds \/ DayPasses \/ SubmitsEnd \/ Post \/ RecordSubmitted \/ PollNothing
            \/ StartRead \/ ReadBreaks \/ PollsEnd \/ Crash \/ UNCHANGED vars
  BY <1>10 DEF ProviderEnds, DayPasses, SubmitsEnd, Post, RecordSubmitted, PollNothing,
               StartRead, ReadBreaks, PollsEnd, Crash, vars, rowVars, Service!vars
<1> QED  BY <1>2, <1>3, <1>4, <1>5, <1>6, <1>7, <1>8, <1>9, <1>10 DEF Next, Cycle

\* Batches, their provider and a leader that may die between any two
\* transactions implement the plain service of module BatchService: rows wait,
\* are away only as far as the cap pays for them, come back a limited number of
\* times and are over once.
THEOREM BatchesServe == Spec => ImplementsService
<1>1. Init => Service!Init
  BY DEF Init, Service!Init
<1>2. BInv /\ BInv' /\ [Next]_vars => [Service!Next]_(Service!vars)
  BY ServiceStep
<1> QED  BY <1>1, <1>2, BatchInvariant, PTL DEF Spec, ImplementsService, Service!Spec
=============================================================================
