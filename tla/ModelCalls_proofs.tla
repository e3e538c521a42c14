------------------------- MODULE ModelCalls_proofs -------------------------
(***************************************************************************)
(* The calls stored of a whole stream are the calls that the model made,    *)
(* for any number of calls and answers and in any order of pieces that a    *)
(* gateway may send. First the accumulators: what the worker holds is a     *)
(* function of what has been sent. Then the history: each answer is one     *)
(* message of it, and nothing that is appended later changes it.            *)
(*                                                                          *)
(* Then the requests: whatever the history, each provider is shown calls    *)
(* and replies that belong together. This rests on what the operators that  *)
(* make a request do for every history (Nth, Keep, FlattenSeq, the fold of  *)
(* Translated), shown by induction on positions, and on an invariant of the *)
(* history that says which replies a dispatch has left there.               *)
(***************************************************************************)
EXTENDS ModelCalls, FiniteSetTheorems, WellFoundedInduction, TLAPS

----------------------------------------------------------------------------
(* What has been sent, and the accumulators it makes                        *)

\* What has been sent of call c, once it has begun.
Got(sent, c) == IF <<c, 2>> \in sent THEN Whole(c) ELSE <<<<c, 1>>>>

\* The accumulators when b calls have begun: one for each, after those that the
\* text blocks leave empty.
FirstSlot(via) == IF via.names = "block" THEN via.texts + 1 ELSE 1
Slots(first, t, b) == IF b = 0 THEN {} ELSE first .. t + b
Gathered(first, t, sent, b) ==
    [i \in Slots(first, t, b) |-> IF i <= t THEN <<>> ELSE Got(sent, i - t)]

\* Whether one call ends before the next begins.
OneByOne(via) == via.names = "first id"
Prior(via, sent, c) ==
    c > 1 => <<c - 1, 1>> \in sent /\ (OneByOne(via) => <<c - 1, 2>> \in sent)

\* The calls have begun in their order, up to call b.
BegunTo(via, calls, sent, b) ==
    /\ sent \subseteq (1 .. calls) \X (1 .. 2)
    /\ \A c \in 1 .. calls : <<c, 1>> \in sent <=> c <= b
    /\ \A c \in 1 .. calls : <<c, 2>> \in sent => <<c, 1>> \in sent
    /\ OneByOne(via) => \A c \in 1 .. b - 1 : <<c, 2>> \in sent

\* The hand of a worker: nothing has come before a stream begins, and the
\* accumulators are those of what has been sent.
HandInv ==
    /\ hand = [held |-> hand.held, via |-> hand.via, calls |-> hand.calls, sent |-> hand.sent,
               slots |-> hand.slots]
    /\ hand.held \in BOOLEAN /\ hand.via \in Gateways \cup {NoGateway}
    /\ hand.calls \in 0 .. CallsPerAnswer
    /\ ~Streams => hand.sent = {} /\ hand.slots = <<>>
    /\ \E b \in 0 .. hand.calls :
        /\ BegunTo(hand.via, hand.calls, hand.sent, b)
        /\ hand.slots = Gathered(FirstSlot(hand.via), hand.via.texts, hand.sent, b)

----------------------------------------------------------------------------
(* Numbers and gateways                                                     *)

LEMMA NthOfInterval ==
    ASSUME NEW a \in Nat, NEW b \in Nat, NEW k \in 1 .. b
    PROVE  Nth(a + 1 .. a + b, k) = a + k
<1> DEFINE S == a + 1 .. a + b
           UpTo(j) == {x \in S : x <= j}
<1>1. ASSUME NEW j \in S PROVE Cardinality(UpTo(j)) = j - a
  <2>1. j \in Int /\ a + 1 <= j
    OBVIOUS
  <2>2. UpTo(j) = a + 1 .. j
    OBVIOUS
  <2>3. Cardinality(a + 1 .. j) = j - (a + 1) + 1
    BY <2>1, FS_Interval
  <2> HIDE DEF UpTo
  <2> QED  BY <2>1, <2>2, <2>3
<1>2. a + k \in S /\ \A j \in S : j - a = k <=> j = a + k
  OBVIOUS
<1>3. Nth(S, k) = CHOOSE j \in S : Cardinality(UpTo(j)) = k
  BY DEF Nth
<1> HIDE DEF S, UpTo
<1>4. Nth(S, k) = a + k
  BY <1>1, <1>2, <1>3
<1> QED  BY <1>4 DEF S

LEMMA IntervalSize ==
    ASSUME NEW a \in Nat, NEW b \in Nat
    PROVE  Cardinality(a + 1 .. a + b) = b
<1>1. CASE b = 0
  <2>1. a + 1 .. a + b = {}
    BY <1>1
  <2> QED  BY <1>1, <2>1, FS_EmptySet
<1>2. CASE b # 0
  <2>1. Cardinality(a + 1 .. a + b) = (a + b) - (a + 1) + 1
    BY <1>2, FS_Interval
  <2> QED  BY <2>1
<1> QED  BY <1>1, <1>2

LEMMA GatewayKinds ==
    ASSUME NEW g \in Gateways
    PROVE  /\ g.texts \in {0, 1} /\ g # NoGateway
           /\ g.names \in {"index", "block", "every id", "first id"}
           /\ g.names \in {"every id", "first id"} => g.texts = 0
<1>1. /\ g.texts \in {0, 1}
      /\ g.names \in {"index", "block", "every id", "first id"}
      /\ g.names \in {"every id", "first id"} => g.texts = 0
  BY DEF Gateways
<1>2. NoGateway.names = "none"
  BY DEF NoGateway
<1>3. g.names # "none"
  BY <1>1
<1> QED  BY <1>1, <1>2, <1>3

LEMMA FirstPieces ==
    ASSUME NEW sent, NEW c
    PROVE  /\ Got(sent, c) # <<>> /\ Got(sent, c)[1] = <<c, 1>> /\ Got(sent, c)[1][1] = c
           /\ Named(Got(sent, c)) /\ ~Named(<<>>)
<1>1. Got(sent, c) # <<>> /\ Got(sent, c)[1] = <<c, 1>> /\ 1 \in DOMAIN Got(sent, c)
  BY DEF Got, Whole
<1>2. Named(Got(sent, c))
  BY <1>1 DEF Named
<1>3. ~Named(<<>>)
  BY DEF Named
<1> QED  BY <1>1, <1>2, <1>3

----------------------------------------------------------------------------
(* One more piece                                                           *)

\* The first piece that comes of a call is that of the next one.
LEMMA NextCall ==
    ASSUME NEW via, NEW k \in Nat, NEW sent, NEW b \in 0 .. k, BegunTo(via, k, sent, b),
           NEW c \in 1 .. k, ~(<<c, 1>> \in sent), Prior(via, sent, c)
    PROVE  /\ c = b + 1 /\ ~(<<c, 2>> \in sent)
           /\ BegunTo(via, k, sent \cup {<<c, 1>>}, b + 1)
<1>1. c > 1 => c - 1 \in 1 .. k /\ <<c - 1, 1>> \in sent
  BY DEF Prior
<1>2. c = b + 1
  <2>1. ~(c <= b)
    BY DEF BegunTo
  <2>2. c > 1 => c - 1 <= b
    BY <1>1 DEF BegunTo
  <2> QED  BY <2>1, <2>2
<1>3. ~(<<c, 2>> \in sent)
  BY DEF BegunTo
<1> DEFINE more == sent \cup {<<c, 1>>}
<1>4. more \subseteq (1 .. k) \X (1 .. 2)
  <2>1. <<c, 1>> \in (1 .. k) \X (1 .. 2)
    OBVIOUS
  <2> QED  BY <2>1 DEF BegunTo
<1>5. ASSUME NEW d \in 1 .. k
      PROVE  /\ <<d, 1>> \in more <=> d <= b + 1
             /\ <<d, 2>> \in more => <<d, 1>> \in more
  <2>1. <<d, 1>> \in more <=> d <= b \/ d = c
    BY DEF BegunTo
  <2>2. <<d, 2>> \in more => <<d, 1>> \in more
    BY DEF BegunTo
  <2> QED  BY <1>2, <2>1, <2>2
<1>6. ASSUME OneByOne(via), NEW d \in 1 .. b PROVE <<d, 2>> \in more
  <2>1. CASE d = b
    BY <1>2, <1>6, <2>1 DEF Prior
  <2>2. CASE d # b
    <3>1. d \in 1 .. b - 1
      BY <2>2
    <3> QED  BY <1>6, <3>1 DEF BegunTo
  <2> QED  BY <2>1, <2>2
<1>7. (b + 1) - 1 = b
  OBVIOUS
<1> HIDE DEF more
<1>8. BegunTo(via, k, more, b + 1)
  BY <1>4, <1>5, <1>6, <1>7 DEF BegunTo
<1> QED  BY <1>2, <1>3, <1>8 DEF more

\* The accumulators after one more call has begun.
OneMoreThan(first, t, b, c) ==
    /\ \A j \in Slots(first, t, b) : j \in Slots(first, t, c) /\ j # c + t
    /\ \A j \in Slots(first, t, c) :
         /\ j \in Nat /\ (j > t => j - t \in 1 .. c)
         /\ j \notin Slots(first, t, b) /\ j # c + t => j <= t
    /\ c + t \in Slots(first, t, c) /\ c + t \in Nat /\ c \in Nat
    /\ first = t + 1 => Slots(first, t, c) = Slots(first, t, b) \cup {c + t}
    /\ first = 1 => Slots(first, t, c) = 1 .. c + t

LEMMA OneMore ==
    ASSUME NEW t \in {0, 1}, NEW first \in 1 .. t + 1, NEW b \in Nat, NEW c \in Nat, c = b + 1
    PROVE  OneMoreThan(first, t, b, c)
<1>1. CASE b = 0
  <2>1. Slots(first, t, b) = {} /\ Slots(first, t, c) = first .. 1 + t
    BY <1>1 DEF Slots
  <2> QED  BY <1>1, <2>1 DEF OneMoreThan
<1>2. CASE b # 0
  <2>1. Slots(first, t, b) = first .. t + b /\ Slots(first, t, c) = first .. t + c
    BY <1>2 DEF Slots
  <2> QED  BY <1>2, <2>1 DEF OneMoreThan
<1> QED  BY <1>1, <1>2

LEMMA SlotOfCall ==
    ASSUME NEW t \in {0, 1}, NEW first \in 1 .. t + 1, NEW b \in Nat, NEW sent, NEW c \in 1 .. b
    PROVE  /\ c + t \in Slots(first, t, b)
           /\ Gathered(first, t, sent, b)[c + t] = Got(sent, c)
<1>1. c + t \in Slots(first, t, b)
  <2>1. b # 0
    OBVIOUS
  <2> QED  BY <2>1 DEF Slots
<1>2. ~(c + t <= t) /\ (c + t) - t = c
  OBVIOUS
<1> QED  BY <1>1, <1>2 DEF Gathered

LEMMA LatestSlot ==
    ASSUME NEW t \in {0, 1}, NEW b \in Nat, NEW sent
    PROVE  LET slots == Gathered(1, t, sent, b)
           IN /\ Len(slots) = (IF b = 0 THEN 0 ELSE t + b)
              /\ DOMAIN slots = 1 .. Len(slots)
              /\ slots = <<>> <=> b = 0
<1> DEFINE n == IF b = 0 THEN 0 ELSE t + b
           F(i) == IF i <= t THEN <<>> ELSE Got(sent, i - t)
<1>1. n \in Nat /\ (n = 0 <=> b = 0)
  OBVIOUS
<1>2. Gathered(1, t, sent, b) = [i \in 1 .. n |-> F(i)]
  BY DEF Gathered, Slots
<1> HIDE DEF n, F
<1>3. Len([i \in 1 .. n |-> F(i)]) = n /\ ([i \in 1 .. n |-> F(i)] = <<>> <=> n = 0)
  BY <1>1
<1> QED  BY <1>1, <1>2, <1>3 DEF n

\* How the accumulator of a piece is found.
ByIndex(via) == via.names \in {"index", "block"}
EveryId(via) == via.names = "every id"
WithId(slots, c) == {i \in DOMAIN slots : slots[i] # <<>> /\ slots[i][1][1] = c}
SlotFor(slots, piece) == IF ByIndex(hand.via) THEN Index(piece[1]) ELSE SlotOf(slots, piece)

\* The first piece of a call gets an accumulator of its own.
LEMMA NewSlot ==
    ASSUME NEW t \in {0, 1}, NEW first \in 1 .. t + 1, NEW b \in Nat, NEW sent, NEW c \in Nat, c = b + 1,
           ~(<<c, 2>> \in sent), NEW old, old = Gathered(first, t, sent, b)
    PROVE  Gathered(first, t, sent \cup {<<c, 1>>}, c)
             = [j \in Slots(first, t, c) |->
                  IF j = c + t THEN <<<<c, 1>>>> ELSE IF j \in DOMAIN old THEN old[j] ELSE <<>>]
<1>1. OneMoreThan(first, t, b, c)
  BY OneMore
<1>2. \A j \in Slots(first, t, c) :
           /\ j \in Nat /\ (j > t => j - t \in 1 .. c)
           /\ j \notin Slots(first, t, b) /\ j # c + t => j <= t
  BY <1>1 DEF OneMoreThan
<1>3. \A j \in Slots(first, t, b) : j \in Slots(first, t, c) /\ j # c + t
  BY <1>1 DEF OneMoreThan
<1> DEFINE more == sent \cup {<<c, 1>>}
           F(j) == IF j <= t THEN <<>> ELSE Got(more, j - t)
           G(j) == IF j = c + t THEN <<<<c, 1>>>> ELSE IF j \in DOMAIN old THEN old[j] ELSE <<>>
<1>4. Got(more, c) = <<<<c, 1>>>> /\ \A d \in 1 .. b : Got(more, d) = Got(sent, d)
  BY DEF Got
<1>5. DOMAIN old = Slots(first, t, b)
  BY DEF Gathered
<1>6. ASSUME NEW j \in Slots(first, t, c) PROVE F(j) = G(j)
  <2>1. CASE j = c + t
    <3>1. ~(j <= t) /\ j - t = c
      BY <2>1
    <3> QED  BY <1>4, <2>1, <3>1
  <2>2. CASE j \in Slots(first, t, b)
    <3>1. j \in Nat /\ j # c + t /\ (j > t => j - t \in 1 .. b)
      BY <1>2, <1>3, <2>2
    <3>2. G(j) = old[j]
      BY <1>5, <2>2, <3>1
    <3>3. old[j] = IF j <= t THEN <<>> ELSE Got(sent, j - t)
      BY <2>2 DEF Gathered
    <3>4. j > t => Got(sent, j - t) = Got(more, j - t)
      BY <1>4, <3>1
    <3>5. j <= t \/ j > t
      BY <3>1
    <3> HIDE DEF more
    <3> QED  BY <3>2, <3>3, <3>4, <3>5, <3>1
  <2>3. CASE j # c + t /\ j \notin Slots(first, t, b)
    <3>1. j <= t
      BY <1>2, <1>3, <2>3
    <3> QED  BY <1>5, <2>3, <3>1
  <2> QED  BY <2>1, <2>2, <2>3
<1>7. Gathered(first, t, more, c) = [j \in Slots(first, t, c) |-> F(j)]
  BY DEF Gathered
<1> HIDE DEF F, G
<1>8. Gathered(first, t, more, c) = [j \in Slots(first, t, c) |-> G(j)]
  BY <1>6, <1>7
<1> QED  BY <1>8 DEF G

LEMMA BlockBegins ==
    ASSUME NEW t \in {0, 1}, hand.via.texts = t, NEW b \in Nat, NEW sent, NEW c \in Nat, c = b + 1,
           ~(<<c, 2>> \in sent)
    PROVE  GatherBlock(Gathered(t + 1, t, sent, b), <<c, 1>>)
             = Gathered(t + 1, t, sent \cup {<<c, 1>>}, c)
<1> DEFINE old == Gathered(t + 1, t, sent, b)
<1>1. DOMAIN old = Slots(t + 1, t, b)
  BY DEF Gathered
<1>2. Slots(t + 1, t, c) = DOMAIN old \cup {c + t}
  <2>1. t + 1 \in 1 .. t + 1
    OBVIOUS
  <2>2. OneMoreThan(t + 1, t, b, c)
    BY <2>1, OneMore
  <2>3. Slots(t + 1, t, c) = Slots(t + 1, t, b) \cup {c + t}
    BY <2>2 DEF OneMoreThan
  <2> QED  BY <1>1, <2>3
<1>3. GatherBlock(old, <<c, 1>>)
        = [j \in DOMAIN old \cup {c + t} |-> IF j = c + t THEN <<<<c, 1>>>> ELSE old[j]]
  BY DEF GatherBlock, Index
<1>4. Gathered(t + 1, t, sent \cup {<<c, 1>>}, c)
        = [j \in Slots(t + 1, t, c) |->
             IF j = c + t THEN <<<<c, 1>>>> ELSE IF j \in DOMAIN old THEN old[j] ELSE <<>>]
  <2> HIDE DEF old
  <2>1. t + 1 \in 1 .. t + 1 /\ old = Gathered(t + 1, t, sent, b)
    BY DEF old
  <2> QED  BY <2>1, NewSlot
<1> HIDE DEF old
<1> QED  BY <1>2, <1>3, <1>4 DEF old

LEMMA CallBegins ==
    ASSUME NEW t \in {0, 1}, NEW b \in Nat, NEW sent, NEW c \in Nat, c = b + 1, ~(<<c, 2>> \in sent),
           SlotFor(Gathered(1, t, sent, b), <<c, 1>>) = c + t
    PROVE  Gather(Gathered(1, t, sent, b), <<c, 1>>)
             = Gathered(1, t, sent \cup {<<c, 1>>}, c)
<1> DEFINE old == Gathered(1, t, sent, b)
           At(j) == IF j \in DOMAIN old THEN old[j] ELSE <<>>
           n == IF c + t > Len(old) THEN c + t ELSE Len(old)
<1>1. Gather(old, <<c, 1>>)
        = [j \in 1 .. n |-> IF j = c + t THEN Append(At(j), <<c, 1>>) ELSE At(j)]
  BY DEF Gather, SlotFor, ByIndex
<1>2. 1 .. n = Slots(1, t, c) /\ c + t \notin DOMAIN old
  <2>1. Len(old) = (IF b = 0 THEN 0 ELSE t + b) /\ DOMAIN old = 1 .. Len(old)
    BY LatestSlot
  <2>2. n = c + t
    BY <2>1
  <2>3. c + t \notin DOMAIN old
    BY <2>1
  <2>4. Slots(1, t, c) = 1 .. c + t
    BY DEF Slots
  <2> QED  BY <2>2, <2>3, <2>4
<1>3. Gathered(1, t, sent \cup {<<c, 1>>}, c)
        = [j \in Slots(1, t, c) |->
             IF j = c + t THEN <<<<c, 1>>>> ELSE IF j \in DOMAIN old THEN old[j] ELSE <<>>]
  <2> HIDE DEF old
  <2>1. 1 \in 1 .. t + 1 /\ old = Gathered(1, t, sent, b)
    BY DEF old
  <2> QED  BY <2>1, NewSlot
<1>4. Append(<<>>, <<c, 1>>) = <<<<c, 1>>>>
  OBVIOUS
<1> HIDE DEF old
<1> DEFINE F(j) == IF j = c + t THEN Append(At(j), <<c, 1>>) ELSE At(j)
           G(j) == IF j = c + t THEN <<<<c, 1>>>> ELSE IF j \in DOMAIN old THEN old[j] ELSE <<>>
<1>5. \A j : F(j) = G(j)
  BY <1>2, <1>4
<1>6. /\ Gather(old, <<c, 1>>) = [j \in 1 .. n |-> F(j)]
      /\ Gathered(1, t, sent \cup {<<c, 1>>}, c) = [j \in Slots(1, t, c) |-> G(j)]
  BY <1>1, <1>3
<1> HIDE DEF n, At, F, G
<1>7. Gather(old, <<c, 1>>) = Gathered(1, t, sent \cup {<<c, 1>>}, c)
  BY <1>2, <1>5, <1>6
<1> QED  BY <1>7 DEF old

\* The next piece of call c.
MoreOf(first, t, b, sent, c, old) ==
    /\ Append(old[c + t], <<c, 2>>) = Whole(c)
    /\ Gathered(first, t, sent \cup {<<c, 2>>}, b)
         = [j \in DOMAIN old |-> IF j = c + t THEN Whole(c) ELSE old[j]]

LEMMA MoreOfSlot ==
    ASSUME NEW t \in {0, 1}, NEW first \in 1 .. t + 1, NEW b \in Nat, NEW sent, NEW c \in 1 .. b,
           ~(<<c, 2>> \in sent), NEW old, old = Gathered(first, t, sent, b)
    PROVE  MoreOf(first, t, b, sent, c, old)
<1> DEFINE more == sent \cup {<<c, 2>>}
           F(j) == IF j <= t THEN <<>> ELSE Got(more, j - t)
           G(j) == IF j = c + t THEN Whole(c) ELSE old[j]
<1>1. Got(more, c) = Whole(c) /\ Got(sent, c) = <<<<c, 1>>>>
  BY DEF Got
<1>2. ASSUME NEW d, d # c PROVE Got(more, d) = Got(sent, d)
  BY <1>2 DEF Got
<1>3. DOMAIN old = Slots(first, t, b)
  BY DEF Gathered
<1>4. ASSUME NEW j \in Slots(first, t, b) PROVE F(j) = G(j)
  <2>1. j \in Nat
    BY DEF Slots
  <2>2. CASE j = c + t
    <3>1. ~(j <= t) /\ j - t = c
      BY <2>2
    <3> QED  BY <1>1, <2>2, <3>1
  <2>3. CASE j # c + t
    <3>1. j - t # c
      BY <2>1, <2>3
    <3>2. Got(more, j - t) = Got(sent, j - t)
      BY <1>2, <3>1
    <3>3. old[j] = IF j <= t THEN <<>> ELSE Got(sent, j - t)
      BY DEF Gathered
    <3> HIDE DEF more
    <3> QED  BY <2>3, <3>2, <3>3
  <2> QED  BY <2>2, <2>3
<1>5. Gathered(first, t, more, b) = [j \in Slots(first, t, b) |-> F(j)]
  BY DEF Gathered
<1>6. old[c + t] = <<<<c, 1>>>>
  BY <1>1, SlotOfCall
<1>7. Append(<<<<c, 1>>>>, <<c, 2>>) = Whole(c)
  <2>1. ASSUME NEW p, NEW q PROVE Append(<<p>>, q) = <<p, q>>
    <3>1. <<p>> \in Seq({p}) /\ Len(<<p>>) = 1 /\ <<p>>[1] = p
      OBVIOUS
    <3>2. Append(<<p>>, q) = [i \in 1 .. 2 |-> IF i = 2 THEN q ELSE p]
      BY <3>1
    <3>3. [i \in 1 .. 2 |-> IF i = 2 THEN q ELSE p] = <<p, q>>
      OBVIOUS
    <3> QED  BY <3>2, <3>3
  <2> QED  BY <2>1 DEF Whole
<1> HIDE DEF F, G
<1>8. Gathered(first, t, more, b) = [j \in DOMAIN old |-> G(j)]
  BY <1>3, <1>4, <1>5
<1> QED  BY <1>6, <1>7, <1>8 DEF G, MoreOf

LEMMA GatewayCases ==
    ASSUME NEW g \in Gateways
    PROVE  /\ ByIndex(g) \/ (~ByIndex(g) /\ g.texts = 0)
           /\ ~ByIndex(g) /\ ~EveryId(g) => OneByOne(g)
           /\ OneByOne(g) => ~EveryId(g)
BY GatewayKinds DEF ByIndex, EveryId, OneByOne

LEMMA SlotOfPiece ==
    ASSUME NEW slots, NEW c, NEW part
    PROVE  SlotOf(slots, <<c, part>>)
             = IF EveryId(hand.via) \/ part = 1
               THEN IF WithId(slots, c) = {} THEN Len(slots) + 1
                    ELSE CHOOSE i \in WithId(slots, c) : TRUE
               ELSE IF slots = <<>> THEN 1 ELSE Len(slots)
<1>1. <<c, part>>[1] = c /\ <<c, part>>[2] = part
  OBVIOUS
<1> DEFINE piece == <<c, part>>
<1>2. SlotOf(slots, piece)
        = IF EveryId(hand.via) \/ piece[2] = 1
          THEN IF WithId(slots, piece[1]) = {} THEN Len(slots) + 1
               ELSE CHOOSE i \in WithId(slots, piece[1]) : TRUE
          ELSE IF slots = <<>> THEN 1 ELSE Len(slots)
  BY DEF SlotOf, EveryId, WithId
<1> HIDE DEF piece
<1>3. piece[1] = c /\ piece[2] = part
  BY <1>1 DEF piece
<1>4. SlotOf(slots, piece)
        = IF EveryId(hand.via) \/ part = 1
          THEN IF WithId(slots, c) = {} THEN Len(slots) + 1
               ELSE CHOOSE i \in WithId(slots, c) : TRUE
          ELSE IF slots = <<>> THEN 1 ELSE Len(slots)
  BY <1>2, <1>3
<1> QED  BY <1>4 DEF piece

\* A piece without an index finds the accumulator of its call.
LEMMA FindsSlot ==
    ASSUME hand.via \in Gateways, NEW t \in {0, 1}, hand.via.texts = t,
           NEW k \in Nat, NEW b \in 0 .. k, NEW sent, BegunTo(hand.via, k, sent, b),
           NEW old, old = Gathered(1, t, sent, b), NEW c \in 1 .. k, NEW part \in {1, 2},
           part = 1 => c = b + 1, part = 2 => c <= b /\ ~(<<c, 2>> \in sent)
    PROVE  SlotFor(old, <<c, part>>) = c + t
<1>1. CASE ByIndex(hand.via)
  BY <1>1 DEF SlotFor, Index
<1>2. CASE ~ByIndex(hand.via)
  <2>1. t = 0 /\ SlotFor(old, <<c, part>>) = SlotOf(old, <<c, part>>)
    BY <1>2, GatewayCases DEF SlotFor
  <2>2. Len(old) = b /\ DOMAIN old = 1 .. b /\ (old = <<>> <=> b = 0)
    BY <2>1, LatestSlot
  <2>3. ASSUME NEW j \in 1 .. b PROVE old[j] # <<>> /\ old[j][1][1] = j
    <3>1. old[j] = Got(sent, j)
      <4>1. ~(j <= 0) /\ j - 0 = j
        OBVIOUS
      <4> QED  BY <2>1, <2>2, <4>1 DEF Gathered
    <3> QED  BY <3>1, FirstPieces
  <2>4. CASE part = 1
    <3>1. WithId(old, c) = {}
      BY <2>2, <2>3, <2>4 DEF WithId
    <3>2. SlotOf(old, <<c, part>>) = Len(old) + 1
      BY <2>4, <3>1, SlotOfPiece
    <3> QED  BY <2>1, <2>2, <2>4, <3>2
  <2>5. CASE part = 2 /\ EveryId(hand.via)
    <3>1. WithId(old, c) = {c}
      BY <2>2, <2>3, <2>5 DEF WithId
    <3>2. (CHOOSE i \in WithId(old, c) : TRUE) = c /\ WithId(old, c) # {}
      BY <3>1
    <3>3. SlotOf(old, <<c, part>>) = c
      BY <2>5, <3>2, SlotOfPiece
    <3> QED  BY <2>1, <3>3
  <2>6. CASE part = 2 /\ ~EveryId(hand.via)
    <3>1. OneByOne(hand.via)
      BY <1>2, <2>6, GatewayCases
    <3>2. c = b
      <4>1. ~(c \in 1 .. b - 1)
        BY <2>6, <3>1 DEF BegunTo
      <4> QED  BY <2>6, <4>1
    <3>3. old # <<>> /\ part # 1
      BY <2>2, <2>6, <3>2
    <3>4. SlotOf(old, <<c, part>>) = Len(old)
      BY <2>6, <3>3, SlotOfPiece
    <3> QED  BY <2>1, <2>2, <3>2, <3>4
  <2> QED  BY <2>4, <2>5, <2>6
<1> QED  BY <1>1, <1>2

\* The rest of a call's arguments go to its accumulator.
LEMMA CallGoesOn ==
    ASSUME NEW t \in {0, 1}, NEW b \in Nat, NEW sent, NEW c \in 1 .. b, ~(<<c, 2>> \in sent),
           NEW old, old = Gathered(1, t, sent, b), SlotFor(old, <<c, 2>>) = c + t
    PROVE  Gather(old, <<c, 2>>) = Gathered(1, t, sent \cup {<<c, 2>>}, b)
<1> DEFINE At(j) == IF j \in DOMAIN old THEN old[j] ELSE <<>>
           n == IF c + t > Len(old) THEN c + t ELSE Len(old)
           F(j) == IF j = c + t THEN Append(At(j), <<c, 2>>) ELSE At(j)
           G(j) == IF j = c + t THEN Whole(c) ELSE old[j]
<1>1. Gather(old, <<c, 2>>) = [j \in 1 .. n |-> F(j)]
  BY DEF Gather, SlotFor, ByIndex
<1>2. 1 .. n = DOMAIN old /\ c + t \in DOMAIN old
  <2>1. Len(old) = t + b /\ DOMAIN old = 1 .. Len(old)
    BY LatestSlot
  <2>2. n = Len(old)
    BY <2>1
  <2>3. c + t \in DOMAIN old
    BY <2>1
  <2> QED  BY <2>1, <2>2, <2>3
<1>3. 1 \in 1 .. t + 1
  OBVIOUS
<1>4. /\ Append(old[c + t], <<c, 2>>) = Whole(c)
      /\ Gathered(1, t, sent \cup {<<c, 2>>}, b) = [j \in DOMAIN old |-> G(j)]
  <2>1. MoreOf(1, t, b, sent, c, old)
    BY <1>3, MoreOfSlot
  <2> QED  BY <2>1 DEF MoreOf
<1>5. ASSUME NEW j \in DOMAIN old PROVE F(j) = G(j)
  BY <1>2, <1>4
<1> HIDE DEF n, F, G
<1> QED  BY <1>1, <1>2, <1>4, <1>5

LEMMA BlockGoesOn ==
    ASSUME NEW t \in {0, 1}, hand.via.texts = t, NEW b \in Nat, NEW sent, NEW c \in 1 .. b,
           ~(<<c, 2>> \in sent), NEW old, old = Gathered(t + 1, t, sent, b)
    PROVE  GatherBlock(old, <<c, 2>>) = Gathered(t + 1, t, sent \cup {<<c, 2>>}, b)
<1>1. t + 1 \in 1 .. t + 1
  OBVIOUS
<1>2. c + t \in DOMAIN old
  BY <1>1, SlotOfCall DEF Gathered
<1>3. GatherBlock(old, <<c, 2>>) = [old EXCEPT ![c + t] = Append(@, <<c, 2>>)]
  BY <1>2 DEF GatherBlock, Index
<1>4. /\ Append(old[c + t], <<c, 2>>) = Whole(c)
      /\ Gathered(t + 1, t, sent \cup {<<c, 2>>}, b)
           = [j \in DOMAIN old |-> IF j = c + t THEN Whole(c) ELSE old[j]]
  <2>1. MoreOf(t + 1, t, b, sent, c, old)
    BY <1>1, MoreOfSlot
  <2> QED  BY <2>1 DEF MoreOf
<1>5. [old EXCEPT ![c + t] = Append(@, <<c, 2>>)]
        = [j \in DOMAIN old |-> IF j = c + t THEN Append(old[c + t], <<c, 2>>) ELSE old[j]]
  BY <1>2 DEF Gathered
<1> QED  BY <1>3, <1>4, <1>5

LEMMA NextPart ==
    ASSUME NEW via, NEW k \in Nat, NEW sent, NEW b \in 0 .. k, BegunTo(via, k, sent, b),
           NEW c \in 1 .. k, <<c, 1>> \in sent
    PROVE  c <= b /\ BegunTo(via, k, sent \cup {<<c, 2>>}, b)
<1>1. c <= b
  BY DEF BegunTo
<1> DEFINE more == sent \cup {<<c, 2>>}
<1>2. more \subseteq (1 .. k) \X (1 .. 2)
  <2>1. <<c, 2>> \in (1 .. k) \X (1 .. 2)
    OBVIOUS
  <2> QED  BY <2>1 DEF BegunTo
<1>3. ASSUME NEW d \in 1 .. k
      PROVE  (<<d, 1>> \in more <=> d <= b) /\ (<<d, 2>> \in more => <<d, 1>> \in more)
  <2>1. <<d, 1>> \in more <=> <<d, 1>> \in sent
    OBVIOUS
  <2>2. <<d, 2>> \in more => <<d, 2>> \in sent \/ d = c
    OBVIOUS
  <2> HIDE DEF more
  <2> QED  BY <2>1, <2>2 DEF BegunTo
<1>4. OneByOne(via) => \A d \in 1 .. b - 1 : <<d, 2>> \in more
  BY DEF BegunTo
<1> HIDE DEF more
<1>5. BegunTo(via, k, more, b)
  BY <1>2, <1>3, <1>4 DEF BegunTo
<1> QED  BY <1>1, <1>5 DEF more

\* The fields of a hand that a step sets.
LEMMA HandWith ==
    ASSUME NEW h, NEW v, NEW k, NEW s, NEW o, NEW more, NEW slots
    PROVE  [[held |-> h, via |-> v, calls |-> k, sent |-> s, slots |-> o]
              EXCEPT !.sent = more, !.slots = slots]
             = [held |-> h, via |-> v, calls |-> k, sent |-> more, slots |-> slots]
<1>1. \A r : [r EXCEPT !.sent = more, !.slots = slots]
               = [[r EXCEPT !.sent = more] EXCEPT !.slots = slots]
  BY Zenon
<1>2. [[held |-> h, via |-> v, calls |-> k, sent |-> s, slots |-> o] EXCEPT !.sent = more]
        = [held |-> h, via |-> v, calls |-> k, sent |-> more, slots |-> o]
  OBVIOUS
<1>3. [[held |-> h, via |-> v, calls |-> k, sent |-> more, slots |-> o] EXCEPT !.slots = slots]
        = [held |-> h, via |-> v, calls |-> k, sent |-> more, slots |-> slots]
  OBVIOUS
<1> QED  BY <1>1, <1>2, <1>3

\* Every piece of a stream goes where its call is.
LEMMA PieceGathered ==
    ASSUME HandInv, PieceComes
    PROVE  HandInv'
<1>1. PICK c \in 1 .. hand.calls, part \in 1 .. 2 :
        /\ NextPiece(c, part)
        /\ hand' = [hand EXCEPT !.sent = @ \cup {<<c, part>>},
                                !.slots = IF hand.via.names = "block"
                                          THEN GatherBlock(hand.slots, <<c, part>>)
                                          ELSE Gather(hand.slots, <<c, part>>)]
  BY DEF PieceComes
<1>2. PICK k \in Nat : k = hand.calls
  BY ModelCallsAssumption DEF HandInv
<1>3. PICK via \in Gateways : via = hand.via
  BY DEF HandInv, PieceComes, Streams
<1>4. PICK t \in {0, 1} : t = via.texts
  BY GatewayKinds
<1>5. PICK first \in 1 .. t + 1 :
        /\ first = FirstSlot(via)
        /\ via.names = "block" => first = t + 1
        /\ via.names # "block" => first = 1
  BY <1>4 DEF FirstSlot
<1>6. PICK b \in 0 .. k : BegunTo(via, k, hand.sent, b)
                          /\ hand.slots = Gathered(first, t, hand.sent, b)
  BY <1>2, <1>3, <1>4, <1>5 DEF HandInv
<1> DEFINE sent == hand.sent \cup {<<c, part>>}
           slots == IF via.names = "block" THEN GatherBlock(hand.slots, <<c, part>>)
                    ELSE Gather(hand.slots, <<c, part>>)
<1>7. \E d \in 0 .. k : BegunTo(via, k, sent, d) /\ slots = Gathered(first, t, sent, d)
  <2> DEFINE s == hand.sent
             old == hand.slots
  <2>1. NextPiece(c, part) /\ c \in 1 .. k /\ part \in {1, 2}
    BY <1>1, <1>2
  <2>2. CASE part = 1
    <3>1. ~(<<c, 1>> \in s) /\ Prior(via, s, c)
      <4>1. ~(<<c, 1>> \in s)
        BY <2>1, <2>2 DEF NextPiece, Sent
      <4>2. ASSUME c > 1 PROVE <<c - 1, 1>> \in s /\ (OneByOne(via) => <<c - 1, 2>> \in s)
        <5>1. c - 1 \in 1 .. k
          BY <2>1, <4>2
        <5>2. <<c - 1, IF hand.via.names = "first id" THEN 2 ELSE 1>> \in s
          BY <2>1, <2>2, <4>2 DEF NextPiece, Sent
        <5>3. <<c - 1, 2>> \in s => <<c - 1, 1>> \in s
          BY <1>6, <5>1 DEF BegunTo
        <5>4. CASE OneByOne(via)
          <6>1. <<c - 1, 2>> \in s
            BY <1>3, <5>2, <5>4 DEF OneByOne
          <6> QED  BY <5>3, <6>1
        <5>5. CASE ~OneByOne(via)
          BY <1>3, <5>2, <5>5 DEF OneByOne
        <5> QED  BY <5>4, <5>5
      <4> QED  BY <4>1, <4>2 DEF Prior
    <3>2. c = b + 1 /\ ~(<<c, 2>> \in s) /\ BegunTo(via, k, sent, b + 1)
      <4>1. sent = s \cup {<<c, 1>>}
        BY <2>2
      <4> HIDE DEF s, sent
      <4>2. BegunTo(via, k, s, b)
        BY <1>6 DEF s
      <4> QED  BY <2>1, <3>1, <4>1, <4>2, NextCall
    <3>3. slots = Gathered(first, t, sent, c)
      <4>1. CASE via.names = "block"
        <5>1. slots = GatherBlock(Gathered(t + 1, t, s, b), <<c, 1>>)
          BY <1>5, <1>6, <2>2, <4>1
        <5>2. GatherBlock(Gathered(t + 1, t, s, b), <<c, 1>>) = Gathered(t + 1, t, s \cup {<<c, 1>>}, c)
          BY <1>3, <1>4, <2>1, <3>2, BlockBegins
        <5> QED  BY <1>5, <2>2, <4>1, <5>1, <5>2
      <4>2. CASE via.names # "block"
        <5>1. slots = Gather(Gathered(1, t, s, b), <<c, 1>>)
          BY <1>5, <1>6, <2>2, <4>2
        <5>2. SlotFor(Gathered(1, t, s, b), <<c, 1>>) = c + t
          BY <1>3, <1>4, <1>6, <2>1, <3>2, FindsSlot
        <5>3. Gather(Gathered(1, t, s, b), <<c, 1>>) = Gathered(1, t, s \cup {<<c, 1>>}, c)
          BY <2>1, <3>2, <5>2, CallBegins
        <5> QED  BY <1>5, <2>2, <4>2, <5>1, <5>3
      <4> QED  BY <4>1, <4>2
    <3> QED  BY <2>1, <3>2, <3>3
  <2>3. CASE part = 2
    <3>1. <<c, 1>> \in s /\ ~(<<c, 2>> \in s)
      BY <2>1, <2>3 DEF NextPiece, Sent
    <3>2. c <= b /\ BegunTo(via, k, sent, b)
      <4>1. sent = s \cup {<<c, 2>>}
        BY <2>3
      <4> HIDE DEF s, sent
      <4>2. BegunTo(via, k, s, b)
        BY <1>6 DEF s
      <4> QED  BY <2>1, <3>1, <4>1, <4>2, NextPart
    <3>3. slots = Gathered(first, t, sent, b)
      <4>0. c \in 1 .. b /\ b \in Nat
        BY <2>1, <3>2
      <4>1. CASE via.names = "block"
        <5>1. slots = GatherBlock(Gathered(t + 1, t, s, b), <<c, 2>>)
          BY <1>5, <1>6, <2>3, <4>1
        <5>2. GatherBlock(Gathered(t + 1, t, s, b), <<c, 2>>) = Gathered(t + 1, t, s \cup {<<c, 2>>}, b)
          BY <1>3, <1>4, <3>1, <4>0, BlockGoesOn
        <5> QED  BY <1>5, <2>3, <4>1, <5>1, <5>2
      <4>2. CASE via.names # "block"
        <5>1. slots = Gather(Gathered(1, t, s, b), <<c, 2>>)
          BY <1>5, <1>6, <2>3, <4>2
        <5>2. SlotFor(Gathered(1, t, s, b), <<c, 2>>) = c + t
          BY <1>3, <1>4, <1>6, <2>1, <3>1, <3>2, FindsSlot
        <5>3. Gather(Gathered(1, t, s, b), <<c, 2>>) = Gathered(1, t, s \cup {<<c, 2>>}, b)
          BY <3>1, <4>0, <5>2, CallGoesOn
        <5> QED  BY <1>5, <2>3, <4>2, <5>1, <5>3
      <4> QED  BY <4>1, <4>2
    <3> QED  BY <3>2, <3>3
  <2> QED  BY <2>1, <2>2, <2>3
<1>8. /\ hand' = [held |-> hand.held, via |-> via, calls |-> k, sent |-> sent, slots |-> slots]
      /\ Streams'
  <2>1. hand = [held |-> hand.held, via |-> via, calls |-> k, sent |-> hand.sent,
                slots |-> hand.slots]
    BY <1>2, <1>3 DEF HandInv
  <2>2. hand' = [hand EXCEPT !.sent = sent, !.slots = slots]
    BY <1>1, <1>3
  <2> HIDE DEF sent, slots
  <2>3. hand' = [held |-> hand.held, via |-> via, calls |-> k, sent |-> sent, slots |-> slots]
    <3>1. PICK h, s, o : hand = [held |-> h, via |-> via, calls |-> k, sent |-> s, slots |-> o]
      BY <2>1
    <3>2. hand.held = h
      BY <3>1
    <3> QED  BY <2>2, <3>1, <3>2, HandWith
  <2>4. Streams'
    BY <2>3, GatewayKinds DEF Streams
  <2> QED  BY <2>3, <2>4
<1>9. hand.held \in BOOLEAN /\ k \in 0 .. CallsPerAnswer
  BY <1>2 DEF HandInv
<1> HIDE DEF sent, slots
<1>10. /\ hand'.held = hand.held /\ hand'.via = via /\ hand'.calls = k
       /\ hand'.sent = sent /\ hand'.slots = slots
  BY <1>8
<1> QED  BY <1>4, <1>5, <1>7, <1>8, <1>9, <1>10 DEF HandInv

LEMMA ViaWith ==
    ASSUME NEW h, NEW v, NEW k, NEW s, NEW o, NEW via, NEW calls
    PROVE  [[held |-> h, via |-> v, calls |-> k, sent |-> s, slots |-> o]
              EXCEPT !.via = via, !.calls = calls]
             = [held |-> h, via |-> via, calls |-> calls, sent |-> s, slots |-> o]
<1>1. \A r : [r EXCEPT !.via = via, !.calls = calls]
               = [[r EXCEPT !.via = via] EXCEPT !.calls = calls]
  BY Zenon
<1>2. [[held |-> h, via |-> v, calls |-> k, sent |-> s, slots |-> o] EXCEPT !.via = via]
        = [held |-> h, via |-> via, calls |-> k, sent |-> s, slots |-> o]
  OBVIOUS
<1>3. [[held |-> h, via |-> via, calls |-> k, sent |-> s, slots |-> o] EXCEPT !.calls = calls]
        = [held |-> h, via |-> via, calls |-> calls, sent |-> s, slots |-> o]
  OBVIOUS
<1> QED  BY <1>1, <1>2, <1>3

----------------------------------------------------------------------------
(* The stream                                                               *)

LEMMA EmptyHand ==
    ASSUME NEW held \in BOOLEAN, NEW via \in Gateways \cup {NoGateway}, NEW k \in 0 .. CallsPerAnswer,
           hand' = [held |-> held, via |-> via, calls |-> k, sent |-> {}, slots |-> <<>>]
    PROVE  HandInv'
<1>1. /\ hand'.held = held /\ hand'.via = via /\ hand'.calls = k
      /\ hand'.sent = {} /\ hand'.slots = <<>>
  OBVIOUS
<1>2. k \in Nat /\ 0 \in 0 .. k
  BY ModelCallsAssumption
<1>3. BegunTo(via, k, {}, 0)
  BY <1>2 DEF BegunTo
<1>4. Gathered(FirstSlot(via), via.texts, {}, 0) = <<>>
  BY DEF Gathered, Slots
<1>5. \E b \in 0 .. hand'.calls :
        /\ BegunTo(hand'.via, hand'.calls, hand'.sent, b)
        /\ hand'.slots = Gathered(FirstSlot(hand'.via), hand'.via.texts, hand'.sent, b)
  BY <1>1, <1>2, <1>3, <1>4
<1>6. hand' = [held |-> hand'.held, via |-> hand'.via, calls |-> hand'.calls, sent |-> hand'.sent,
               slots |-> hand'.slots]
  OBVIOUS
<1> QED  BY <1>1, <1>5, <1>6 DEF HandInv

LEMMA NoChatInHand ==
    ASSUME hand' = NoChat PROVE HandInv'
<1>1. 0 \in 0 .. CallsPerAnswer
  BY ModelCallsAssumption
<1> QED  BY <1>1, EmptyHand DEF NoChat

LEMMA StreamBegins ==
    ASSUME HandInv, TakeChat \/ AnswerBegins PROVE HandInv'
<1>1. CASE TakeChat
  <2>1. hand' = [held |-> TRUE, via |-> NoGateway, calls |-> 0, sent |-> {}, slots |-> <<>>]
    BY <1>1 DEF TakeChat, NoChat
  <2>2. 0 \in 0 .. CallsPerAnswer
    BY ModelCallsAssumption
  <2> QED  BY <2>1, <2>2, EmptyHand
<1>2. CASE AnswerBegins
  <2>1. PICK g \in Gateways, k \in 0 .. CallsPerAnswer : hand' = [hand EXCEPT !.via = g, !.calls = k]
    BY <1>2 DEF AnswerBegins
  <2>2. hand.sent = {} /\ hand.slots = <<>>
    BY <1>2 DEF AnswerBegins, HandInv
  <2>3. PICK h \in BOOLEAN :
          \E v, m : hand = [held |-> h, via |-> v, calls |-> m, sent |-> {}, slots |-> <<>>]
    BY <2>2 DEF HandInv
  <2>0. PICK v, m : hand = [held |-> h, via |-> v, calls |-> m, sent |-> {}, slots |-> <<>>]
    BY <2>3
  <2>4. hand' = [held |-> h, via |-> g, calls |-> k, sent |-> {}, slots |-> <<>>]
    BY <2>0, <2>1, ViaWith
  <2> QED  BY <2>4, EmptyHand
<1> QED  BY <1>1, <1>2

\* The calls put together of what has come so far.
LEMMA CallsSoFar ==
    ASSUME HandInv, Streams, NEW n
    PROVE  \E b \in 0 .. hand.calls :
             /\ Assembled(n) = [c \in 1 .. b |-> [id |-> <<n, c>>, args |-> Got(hand.sent, c)]]
             /\ AllSent => b = hand.calls
<1>1. PICK k \in Nat : k = hand.calls
  BY ModelCallsAssumption DEF HandInv
<1>2. PICK via \in Gateways : via = hand.via
  BY DEF HandInv, Streams
<1>3. PICK t \in {0, 1} : t = via.texts
  BY GatewayKinds
<1>4. PICK first \in 1 .. t + 1 : first = FirstSlot(via)
  BY <1>3 DEF FirstSlot
<1>5. PICK b \in 0 .. k : BegunTo(via, k, hand.sent, b)
                          /\ hand.slots = Gathered(first, t, hand.sent, b)
  BY <1>1, <1>2, <1>3, <1>4 DEF HandInv
<1> DEFINE kept == {i \in DOMAIN hand.slots : Named(hand.slots[i])}
           CallIn(pieces) == [id |-> <<n, pieces[1][1]>>, args |-> pieces]
           F(c) == CallIn(hand.slots[Nth(kept, c)])
           G(c) == [id |-> <<n, c>>, args |-> Got(hand.sent, c)]
<1>6. kept = t + 1 .. t + b
  <2>1. DOMAIN hand.slots = Slots(first, t, b)
    BY <1>5 DEF Gathered
  <2>2. ASSUME NEW i \in Slots(first, t, b)
        PROVE  i \in Nat /\ (Named(hand.slots[i]) <=> i > t)
    <3>1. hand.slots[i] = IF i <= t THEN <<>> ELSE Got(hand.sent, i - t)
      BY <1>5 DEF Gathered
    <3>2. i \in Nat
      BY DEF Slots
    <3> QED  BY <3>1, <3>2, FirstPieces
  <2>3. \A i \in Nat : i \in Slots(first, t, b) /\ i > t <=> i \in t + 1 .. t + b
    BY DEF Slots
  <2>4. \A i \in t + 1 .. t + b : i \in Nat
    OBVIOUS
  <2> QED  BY <2>1, <2>2, <2>3, <2>4
<1> HIDE DEF kept
<1>7. Cardinality(kept) = b
  BY <1>6, IntervalSize
<1>8. ASSUME NEW c \in 1 .. b PROVE F(c) = G(c)
  <2>1. Nth(kept, c) = t + c
    <3>1. t \in Nat /\ b \in Nat
      OBVIOUS
    <3>2. Nth(t + 1 .. t + b, c) = t + c
      BY <3>1, NthOfInterval
    <3> QED  BY <1>6, <3>2
  <2>2. hand.slots[c + t] = Got(hand.sent, c)
    BY <1>5, SlotOfCall
  <2>3. c + t = t + c
    OBVIOUS
  <2>4. Got(hand.sent, c)[1][1] = c
    BY FirstPieces
  <2> QED  BY <2>1, <2>2, <2>3, <2>4
<1>9. Assembled(n) = [c \in 1 .. Cardinality(kept) |-> F(c)]
  BY DEF Assembled, kept
<1>10. AllSent => b = k
  <2>1. AllSent /\ k > 0 => <<k, 1>> \in hand.sent
    BY <1>1 DEF AllSent
  <2> QED  BY <1>5, <2>1 DEF BegunTo
<1> HIDE DEF F, G
<1>11. Assembled(n) = [c \in 1 .. b |-> G(c)]
  BY <1>7, <1>8, <1>9
<1> QED  BY <1>1, <1>10, <1>11 DEF G

----------------------------------------------------------------------------
(* The history                                                              *)

CallsMade(n, k) == [c \in 1 .. k |-> [id |-> <<n, c>>, args |-> Whole(c)]]

\* Answer n is one message of the history, with the calls that the model made.
Stored(n) ==
    \E i \in DOMAIN history :
        /\ Answers(i, n) /\ \A j \in DOMAIN history : Answers(j, n) => j = i
        /\ IsFiniteSet(DOMAIN history[i].calls)
        /\ made[n] > 0 => history[i].calls = CallsMade(n, made[n])

HistoryInv ==
    /\ answers \in 0 .. MaxAnswers
    /\ made \in [1 .. MaxAnswers -> Nat]
    /\ openCalls \subseteq 1 .. answers
    /\ \E S : history \in Seq(S)
    /\ \A i \in DOMAIN history : history[i].role = "assistant" => history[i].answer \in 0 .. answers
    /\ \A n \in 1 .. answers : Stored(n)

\* A worker streams an answer only while there is room for one more.
CallsInv ==
    /\ HandInv /\ HistoryInv
    /\ hand # NoChat => answers < MaxAnswers

LEMMA CallsOfAnswer ==
    ASSUME HistoryInv, NEW n \in 1 .. answers
    PROVE  /\ IsFiniteSet(DOMAIN CallsOf(n))
           /\ made[n] > 0 => CallsOf(n) = CallsMade(n, made[n])
<1>1. PICK i \in DOMAIN history :
        /\ Answers(i, n) /\ \A j \in DOMAIN history : Answers(j, n) => j = i
        /\ IsFiniteSet(DOMAIN history[i].calls)
        /\ made[n] > 0 => history[i].calls = CallsMade(n, made[n])
  BY DEF HistoryInv, Stored
<1>2. (CHOOSE j \in DOMAIN history : Answers(j, n)) = i
  BY <1>1
<1> QED  BY <1>1, <1>2 DEF CallsOf

\* Messages of another kind leave the answers where they are.
LEMMA LaterMessages ==
    ASSUME HistoryInv, NEW T, history' \in Seq(T), Len(history) <= Len(history'),
           \A i \in 1 .. Len(history) : history'[i] = history[i],
           \A i \in 1 .. Len(history') : i > Len(history) => history'[i].role # "assistant",
           openCalls' \subseteq openCalls, UNCHANGED <<answers, made>>
    PROVE  HistoryInv'
<1>1. PICK S : history \in Seq(S)
  BY DEF HistoryInv
<1>2. /\ DOMAIN history = 1 .. Len(history) /\ DOMAIN history' = 1 .. Len(history')
      /\ Len(history) \in Nat /\ Len(history') \in Nat
  BY <1>1
<1>3. ASSUME NEW i \in DOMAIN history', history'[i].role = "assistant"
      PROVE  i \in DOMAIN history /\ history'[i] = history[i]
  BY <1>2, <1>3
<1>4. ASSUME NEW n \in 1 .. answers PROVE Stored(n)'
  <2>1. PICK i \in DOMAIN history :
          /\ Answers(i, n) /\ \A j \in DOMAIN history : Answers(j, n) => j = i
          /\ IsFiniteSet(DOMAIN history[i].calls)
          /\ made[n] > 0 => history[i].calls = CallsMade(n, made[n])
    BY DEF HistoryInv, Stored
  <2>2. i \in DOMAIN history' /\ history'[i] = history[i]
    BY <1>2
  <2>3. ASSUME NEW j \in DOMAIN history', history'[j].role = "assistant", history'[j].answer = n
        PROVE  j = i
    BY <1>3, <2>1, <2>3 DEF Answers
  <2>4. made' = made
    OBVIOUS
  <2> QED  BY <2>1, <2>2, <2>3, <2>4 DEF Stored, Answers
<1>5. \A i \in DOMAIN history' : history'[i].role = "assistant" => history'[i].answer \in 0 .. answers
  BY <1>3 DEF HistoryInv
<1>6. answers' = answers /\ made' = made
  OBVIOUS
<1>7. openCalls' \subseteq 1 .. answers
  BY DEF HistoryInv
<1> QED  BY <1>4, <1>5, <1>6, <1>7 DEF HistoryInv

LEMMA AnswerStored ==
    ASSUME HistoryInv, answers < MaxAnswers, NEW calls, NEW k \in Nat, NEW dispatch,
           Store(calls, k, dispatch), IsFiniteSet(DOMAIN calls),
           k > 0 => calls = CallsMade(answers + 1, k)
    PROVE  HistoryInv'
<1> DEFINE new == answers + 1
           m == Says(new, calls)
<1>1. /\ answers' = new /\ history' = Append(history, m) /\ made' = [made EXCEPT ![new] = k]
      /\ openCalls' \subseteq openCalls \cup {new}
  BY DEF Store
<1>2. /\ answers \in Nat /\ MaxAnswers \in Nat /\ new \in 1 .. MaxAnswers
      /\ made \in [1 .. MaxAnswers -> Nat]
  BY ModelCallsAssumption DEF HistoryInv
<1>3. m.role = "assistant" /\ m.answer = new /\ m.calls = calls
  BY DEF Says
<1>4. PICK S : history \in Seq(S)
  BY DEF HistoryInv
<1> HIDE DEF m
<1>5. /\ DOMAIN history = 1 .. Len(history) /\ Len(history) \in Nat
      /\ DOMAIN history' = 1 .. Len(history) + 1
      /\ \A i \in 1 .. Len(history) : history'[i] = history[i]
      /\ history'[Len(history) + 1] = m
  BY <1>1, <1>4
<1>6. \E T : history' \in Seq(T)
  <2>1. history \in Seq(S \cup {m}) /\ m \in S \cup {m}
    BY <1>4
  <2> QED  BY <1>1, <2>1
<1>7. \A i \in DOMAIN history : history[i].role = "assistant" => history[i].answer \in 0 .. answers
  BY DEF HistoryInv
<1>8. ASSUME NEW i \in DOMAIN history', history'[i].role = "assistant"
      PROVE  /\ history'[i].answer \in 0 .. new
             /\ history'[i].answer = new => i = Len(history) + 1
             /\ i # Len(history) + 1 => i \in DOMAIN history /\ history'[i] = history[i]
  <2>1. CASE i = Len(history) + 1
    BY <1>2, <1>3, <1>5, <2>1
  <2>2. CASE i # Len(history) + 1
    <3>1. i \in DOMAIN history /\ history'[i] = history[i]
      BY <1>5, <2>2
    <3>2. history'[i].answer \in 0 .. answers
      BY <1>7, <1>8, <3>1
    <3> QED  BY <1>2, <2>2, <3>1, <3>2
  <2> QED  BY <2>1, <2>2
<1>9. ASSUME NEW a \in Nat, a = new PROVE Stored(a)'
  <2> DEFINE i == Len(history) + 1
  <2>1. i \in DOMAIN history' /\ history'[i] = m
    BY <1>5
  <2>2. \A j \in DOMAIN history' : history'[j].role = "assistant" /\ history'[j].answer = new => j = i
    BY <1>8
  <2>3. made'[new] = k
    BY <1>1, <1>2
  <2>4. k > 0 => calls = CallsMade(new, k)
    OBVIOUS
  <2> HIDE DEF i, new
  <2> QED  BY <1>3, <1>9, <2>1, <2>2, <2>3, <2>4 DEF Stored, Answers
<1>10. ASSUME NEW n \in 1 .. answers PROVE Stored(n)'
  <2>1. PICK i \in DOMAIN history :
          /\ Answers(i, n) /\ \A j \in DOMAIN history : Answers(j, n) => j = i
          /\ IsFiniteSet(DOMAIN history[i].calls)
          /\ made[n] > 0 => history[i].calls = CallsMade(n, made[n])
    BY DEF HistoryInv, Stored
  <2>2. i \in DOMAIN history' /\ history'[i] = history[i]
    BY <1>5
  <2>3. n # new /\ made'[n] = made[n]
    BY <1>1, <1>2
  <2>4. ASSUME NEW j \in DOMAIN history', history'[j].role = "assistant", history'[j].answer = n
        PROVE  j = i
    <3>1. j # Len(history) + 1
      BY <1>3, <1>5, <2>3, <2>4
    <3> QED  BY <1>8, <2>1, <2>4, <3>1 DEF Answers
  <2> QED  BY <2>1, <2>2, <2>3, <2>4 DEF Stored, Answers
<1>11. ASSUME NEW n \in 1 .. answers' PROVE Stored(n)'
  <2>1. n \in Nat /\ (n = new \/ n \in 1 .. answers)
    BY <1>1, <1>2
  <2> QED  BY <1>9, <1>10, <2>1
<1>12. answers' \in 0 .. MaxAnswers /\ made' \in [1 .. MaxAnswers -> Nat] /\ openCalls' \subseteq 1 .. answers'
  BY <1>1, <1>2 DEF HistoryInv
<1>13. \A i \in DOMAIN history' : history'[i].role = "assistant" => history'[i].answer \in 0 .. answers'
  BY <1>1, <1>8
<1> QED  BY <1>6, <1>11, <1>12, <1>13 DEF HistoryInv

LEMMA SameHistory ==
    ASSUME HistoryInv, openCalls' \subseteq openCalls, UNCHANGED <<history, answers, made>>
    PROVE  HistoryInv'
<1>1. PICK S : history \in Seq(S)
  BY DEF HistoryInv
<1>2. \A i \in 1 .. Len(history') : ~(i > Len(history))
  BY <1>1
<1> QED  BY <1>1, <1>2, LaterMessages

LEMMA SameHand == ASSUME HandInv, UNCHANGED hand PROVE HandInv'
BY DEF HandInv, Streams

\* The replies to some of an answer's calls.
LEMMA RepliesAreTools ==
    ASSUME HistoryInv, NEW n \in openCalls, NEW ks, ks \subseteq DOMAIN CallsOf(n)
    PROVE  \E T : /\ InOrder(n, ks) \in Seq(T)
                  /\ \A m \in T : m.role = "tool"
<1>1. n \in 1 .. answers
  BY DEF HistoryInv
<1>2. IsFiniteSet(ks)
  BY <1>1, CallsOfAnswer, FS_Subset
<1>3. Cardinality(ks) \in Nat
  BY <1>2, FS_CardinalityType
<1> DEFINE F(i) == Result(n, CallsOf(n)[Nth(ks, i)].id)
           T == {F(i) : i \in 1 .. Cardinality(ks)}
<1>4. InOrder(n, ks) = [i \in 1 .. Cardinality(ks) |-> F(i)]
  BY DEF InOrder
<1>5. \A m \in T : m.role = "tool"
  BY DEF Result
<1>6. [i \in 1 .. Cardinality(ks) |-> F(i)] \in Seq(T)
  <2> HIDE DEF F
  <2>1. \A i \in 1 .. Cardinality(ks) : F(i) \in T
    OBVIOUS
  <2> HIDE DEF T
  <2> QED  BY <1>3, <2>1
<1> QED  BY <1>4, <1>5, <1>6

LEMMA Continued ==
    ASSUME HistoryInv, NEW n, NEW T, NEW results \in Seq(T), \A m \in T : m.role = "tool",
           ContinueWith(n, results)
    PROVE  HistoryInv'
<1>1. PICK S : history \in Seq(S)
  BY DEF HistoryInv
<1>2. history' = history \o results /\ openCalls' \subseteq openCalls /\ UNCHANGED <<answers, made>>
  BY DEF ContinueWith
<1>3. history \in Seq(S \cup T) /\ results \in Seq(S \cup T)
  BY <1>1
<1>4. history' \in Seq(S \cup T)
  BY <1>2, <1>3
<1>5. /\ Len(history') = Len(history) + Len(results) /\ Len(history) \in Nat /\ Len(results) \in Nat
      /\ \A i \in 1 .. Len(history) : history'[i] = history[i]
  BY <1>2, <1>3
<1>6. ASSUME NEW i \in 1 .. Len(history'), i > Len(history) PROVE history'[i].role # "assistant"
  <2>1. i - Len(history) \in 1 .. Len(results)
    BY <1>5, <1>6
  <2>2. history'[i] = results[i - Len(history)]
    BY <1>2, <1>3, <1>5, <1>6, <2>1
  <2>3. results[i - Len(history)] \in T
    BY <2>1
  <2> QED  BY <2>2, <2>3
<1>7. Len(history) <= Len(history')
  BY <1>5
<1> QED  BY <1>2, <1>4, <1>5, <1>6, <1>7, LaterMessages

LEMMA DispatchKeeps ==
    ASSUME HistoryInv, RepliesLand \/ DispatchDies \/ DispatchDropped
    PROVE  HistoryInv'
<1>1. CASE RepliesLand
  <2>0. PICK n \in openCalls : \E atOnce \in SUBSET DOMAIN CallsOf(n) :
          ContinueWith(n, InOrder(n, atOnce) \o InOrder(n, DOMAIN CallsOf(n) \ atOnce))
    BY <1>1 DEF RepliesLand
  <2>1. PICK atOnce \in SUBSET DOMAIN CallsOf(n) :
          ContinueWith(n, InOrder(n, atOnce) \o InOrder(n, DOMAIN CallsOf(n) \ atOnce))
    BY <2>0
  <2> DEFINE later == DOMAIN CallsOf(n) \ atOnce
             first == InOrder(n, atOnce)
             last == InOrder(n, later)
  <2>2. PICK T : first \in Seq(T) /\ \A m \in T : m.role = "tool"
    BY RepliesAreTools
  <2>3. PICK U : last \in Seq(U) /\ \A m \in U : m.role = "tool"
    <3>1. later \subseteq DOMAIN CallsOf(n)
      OBVIOUS
    <3> HIDE DEF later
    <3> QED  BY <3>1, RepliesAreTools
  <2>4. ContinueWith(n, first \o last)
    BY <2>1
  <2> HIDE DEF first, last
  <2>5. first \in Seq(T \cup U) /\ last \in Seq(T \cup U)
    BY <2>2, <2>3
  <2>6. first \o last \in Seq(T \cup U)
    BY <2>5
  <2>7. \A m \in T \cup U : m.role = "tool"
    BY <2>2, <2>3
  <2> QED  BY <2>4, <2>6, <2>7, Continued
<1>2. CASE DispatchDies
  <2>1. PICK n \in openCalls : ContinueWith(n, InOrder(n, Missing(n)))
    BY <1>2 DEF DispatchDies
  <2>2. Missing(n) \subseteq DOMAIN CallsOf(n)
    BY DEF Missing
  <2>3. PICK T : InOrder(n, Missing(n)) \in Seq(T) /\ \A m \in T : m.role = "tool"
    BY <2>2, RepliesAreTools
  <2> QED  BY <2>1, <2>3, Continued
<1>3. CASE DispatchDropped
  <2>1. openCalls' \subseteq openCalls /\ UNCHANGED <<history, answers, made>>
    BY <1>3 DEF DispatchDropped
  <2> QED  BY <2>1, SameHistory
<1> QED  BY <1>1, <1>2, <1>3

LEMMA Asked == ASSUME HistoryInv, AskSession PROVE HistoryInv'
<1>1. PICK S : history \in Seq(S)
  BY DEF HistoryInv
<1>2. history' = Append(history, Question) /\ UNCHANGED <<openCalls, answers, made>>
  BY DEF AskSession
<1>3. history' \in Seq(S \cup {Question})
  <2>1. history \in Seq(S \cup {Question})
    BY <1>1
  <2> QED  BY <1>2, <2>1
<1>4. /\ Len(history') = Len(history) + 1 /\ Len(history) \in Nat
      /\ \A i \in 1 .. Len(history) : history'[i] = history[i]
      /\ history'[Len(history) + 1] = Question
  BY <1>1, <1>2
<1>5. ASSUME NEW i \in 1 .. Len(history'), i > Len(history) PROVE history'[i].role # "assistant"
  <2>1. history'[i] = Question
    BY <1>4, <1>5
  <2> QED  BY <2>1 DEF Question
<1>6. Len(history) <= Len(history')
  BY <1>4
<1> QED  BY <1>2, <1>3, <1>4, <1>5, <1>6, LaterMessages

LEMMA AnswerKeeps ==
    ASSUME CallsInv, AnswerDone \/ AnswerTruncated \/ StreamEndsEarly \/ AnswerInMarkup
    PROVE  HistoryInv' /\ hand' = NoChat
<1>1. Streams
  BY DEF AnswerDone, AnswerTruncated, StreamEndsEarly, AnswerInMarkup
<1>2. answers < MaxAnswers
  <2>1. hand # NoChat
    BY <1>1 DEF Streams, NoChat
  <2> QED  BY <2>1 DEF CallsInv
<1>3. hand.calls \in Nat
  BY ModelCallsAssumption DEF CallsInv, HandInv
<1> DEFINE n == answers + 1
<1>4. PICK b \in 0 .. hand.calls :
        /\ Assembled(n) = [c \in 1 .. b |-> [id |-> <<n, c>>, args |-> Got(hand.sent, c)]]
        /\ AllSent => b = hand.calls
  BY <1>1, CallsSoFar DEF CallsInv
<1>5. IsFiniteSet(DOMAIN Assembled(n)) /\ 0 \in Nat
  <2>1. DOMAIN Assembled(n) = 1 .. b
    BY <1>4
  <2> QED  BY <1>3, <2>1, FS_Interval
<1>6. AllSent => Assembled(n) = CallsMade(n, hand.calls)
  <2>1. AllSent => \A c \in 1 .. hand.calls : Got(hand.sent, c) = Whole(c)
    BY DEF AllSent, Got
  <2> HIDE DEF n
  <2> QED  BY <1>4, <2>1 DEF CallsMade
<1>7. HistoryInv /\ ~(0 > 0)
  BY DEF CallsInv
<1>8. CASE AnswerDone
  <2>1. PICK inBudget : Store(Assembled(n), hand.calls, inBudget)
    BY <1>8 DEF AnswerDone
  <2>2. AllSent
    BY <1>8 DEF AnswerDone
  <2> QED  BY <1>2, <1>3, <1>5, <1>6, <1>7, <2>1, <2>2, AnswerStored DEF Store
<1>9. CASE AnswerTruncated
  <2>1. Store(Assembled(n), 0, FALSE)
    BY <1>9 DEF AnswerTruncated
  <2> QED  BY <1>2, <1>5, <1>7, <2>1, AnswerStored DEF Store
<1>10. CASE StreamEndsEarly
  <2>1. PICK inBudget : Store(Assembled(n), 0, inBudget)
    BY <1>10 DEF StreamEndsEarly
  <2> QED  BY <1>2, <1>5, <1>7, <2>1, AnswerStored DEF Store
<1>11. CASE AnswerInMarkup
  <2>1. PICK inBudget : Store(Recovered(hand.calls), 0, inBudget)
    BY <1>11 DEF AnswerInMarkup
  <2>2. IsFiniteSet(DOMAIN Recovered(hand.calls))
    <3>1. DOMAIN Recovered(hand.calls) = 1 .. hand.calls
      BY DEF Recovered
    <3> QED  BY <1>3, <3>1, FS_Interval
  <2> QED  BY <1>2, <1>5, <1>7, <2>1, <2>2, AnswerStored DEF Store
<1> QED  BY <1>8, <1>9, <1>10, <1>11

LEMMA CallsInitially == ModelInit => CallsInv
<1> SUFFICES ASSUME ModelInit PROVE CallsInv
  OBVIOUS
<1>1. HandInv
  <2>1. /\ hand.held = FALSE /\ hand.via = NoGateway /\ hand.calls = 0
        /\ hand.sent = {} /\ hand.slots = <<>>
        /\ hand = [held |-> FALSE, via |-> NoGateway, calls |-> 0, sent |-> {}, slots |-> <<>>]
    BY DEF ModelInit, NoChat
  <2>2. BegunTo(NoGateway, 0, {}, 0)
    BY DEF BegunTo
  <2>3. Gathered(FirstSlot(NoGateway), NoGateway.texts, {}, 0) = <<>>
    BY DEF Gathered, Slots
  <2>4. 0 \in 0 .. CallsPerAnswer /\ 0 \in 0 .. 0
    BY ModelCallsAssumption
  <2> QED  BY <2>1, <2>2, <2>3, <2>4 DEF HandInv
<1>2. HistoryInv
  <2>1. answers = 0 /\ made = [n \in 1 .. MaxAnswers |-> 0] /\ openCalls = {} /\ MaxAnswers \in Nat
    BY ModelCallsAssumption DEF ModelInit
  <2>2. \E S : history \in Seq(S)
    <3>1. CASE history = <<>>
      BY <3>1
    <3>2. CASE history = Legacy
      <4>1. \A p, q, r : <<p, q, r>> \in Seq({p, q, r})
        OBVIOUS
      <4> QED  BY <3>2, <4>1 DEF Legacy
    <3> QED  BY <3>1, <3>2 DEF ModelInit
  <2>3. ASSUME NEW i \in DOMAIN history, history[i].role = "assistant" PROVE history[i].answer = 0
    <3>1. CASE history = <<>>
      BY <2>3, <3>1
    <3>2. CASE history = Legacy
      <4> DEFINE phantom == <<[id |-> NoId, args |-> <<>>]>>
      <4>1. i \in {1, 2, 3} /\ history[1] = Question /\ history[2] = Says(0, phantom)
            /\ history[3] = Result(0, NoId)
        BY <2>3, <3>2 DEF Legacy
      <4> HIDE DEF phantom
      <4> QED  BY <2>3, <4>1 DEF Question, Says, Result
    <3> QED  BY <3>1, <3>2 DEF ModelInit
  <2> QED  BY <2>1, <2>2, <2>3 DEF HistoryInv
<1>3. hand = NoChat
  BY DEF ModelInit
<1> QED  BY <1>1, <1>2, <1>3 DEF CallsInv

LEMMA CallsInvKept == CallsInv /\ [ModelNext]_modelVars => CallsInv'
<1> SUFFICES ASSUME CallsInv, [ModelNext]_modelVars PROVE CallsInv'
  OBVIOUS
<1>1. HandInv /\ HistoryInv
  BY DEF CallsInv
<1>2. CASE TakeChat \/ AnswerBegins \/ PieceComes \/ ChatErrs
  <2>1. UNCHANGED <<history, openCalls, answers, made>>
    BY <1>2 DEF TakeChat, AnswerBegins, PieceComes, ChatErrs, HandOnly
  <2>2. HandInv'
    BY <1>1, <1>2, StreamBegins, PieceGathered, NoChatInHand DEF ChatErrs
  <2>3. HistoryInv'
    BY <1>1, <2>1, SameHistory
  <2>4. TakeChat => answers < MaxAnswers
    BY DEF TakeChat
  <2>5. ChatErrs => hand' = NoChat
    BY DEF ChatErrs
  <2>6. AnswerBegins \/ PieceComes => hand # NoChat
    <3>1. ~NoChat.held /\ NoChat.via = NoGateway
      BY DEF NoChat
    <3>2. AnswerBegins => hand.held
      BY DEF AnswerBegins
    <3>3. PieceComes => hand.via # NoGateway
      BY DEF PieceComes, Streams
    <3> QED  BY <3>1, <3>2, <3>3
  <2> QED  BY <1>2, <2>1, <2>2, <2>3, <2>4, <2>5, <2>6 DEF CallsInv
<1>3. CASE AnswerDone \/ AnswerTruncated \/ StreamEndsEarly \/ AnswerInMarkup
  BY <1>3, AnswerKeeps, NoChatInHand DEF CallsInv
<1>4. CASE AskSession \/ RepliesLand \/ DispatchDies \/ DispatchDropped \/ PullLever \/ UNCHANGED modelVars
  <2>1. UNCHANGED <<hand, answers>>
    BY <1>4 DEF AskSession, RepliesLand, DispatchDies, DispatchDropped, PullLever, ContinueWith, modelVars
  <2>2. HandInv'
    BY <1>1, <2>1, SameHand
  <2>3. PullLever \/ UNCHANGED modelVars => openCalls' \subseteq openCalls /\ UNCHANGED <<history, answers, made>>
    BY DEF PullLever, modelVars
  <2>4. HistoryInv'
    BY <1>1, <1>4, <2>3, SameHistory, Asked, DispatchKeeps
  <2> QED  BY <2>1, <2>2, <2>4 DEF CallsInv
<1> QED  BY <1>2, <1>3, <1>4 DEF ModelNext, Streaming

LEMMA CallsInvMeans == CallsInv => CallsWhole
<1> SUFFICES ASSUME CallsInv, NEW n \in 1 .. answers, made[n] > 0
             PROVE  /\ Len(CallsOf(n)) = made[n]
                    /\ \A c \in 1 .. made[n] : CallsOf(n)[c] = [id |-> <<n, c>>, args |-> Whole(c)]
  BY DEF CallsWhole
<1>1. CallsOf(n) = CallsMade(n, made[n])
  BY CallsOfAnswer DEF CallsInv
<1>2. PICK k \in Nat : k = made[n]
  <2>1. answers \in 0 .. MaxAnswers /\ made \in [1 .. MaxAnswers -> Nat] /\ MaxAnswers \in Nat
    BY ModelCallsAssumption DEF CallsInv, HistoryInv
  <2> QED  BY <2>1
<1> DEFINE F(c) == [id |-> <<n, c>>, args |-> Whole(c)]
<1>3. CallsOf(n) = [c \in 1 .. k |-> F(c)]
  BY <1>1, <1>2 DEF CallsMade
<1> HIDE DEF F
<1>4. Len(CallsOf(n)) = k /\ \A c \in 1 .. k : CallsOf(n)[c] = F(c)
  BY <1>3
<1> QED  BY <1>2, <1>4 DEF F

\* Whatever way a provider has to tell the pieces of parallel calls apart, the
\* calls stored of a whole stream are the calls that the model made (bgworker.rs,
\* the accumulators; v10-chat.sql, the stored message).
THEOREM CallsStayWhole == ModelSpec => []CallsWhole
<1>1. ModelInit => CallsInv
  BY CallsInitially
<1>2. CallsInv /\ [ModelNext]_modelVars => CallsInv'
  BY CallsInvKept
<1>3. CallsInv => CallsWhole
  BY CallsInvMeans
<1> QED  BY <1>1, <1>2, <1>3, PTL DEF ModelSpec

----------------------------------------------------------------------------
(* Induction, and places in an order                                        *)

LEMMA Least ==
    ASSUME NEW S, S \subseteq Nat, S # {}
    PROVE  \E x \in S : \A y \in S : x <= y
<1>1. PICK x \in S : \A y \in S : <<y, x>> \notin OpToRel(<, Nat)
  BY NatLessThanWellFounded, WFMin
<1>2. \A y \in S : ~ (y < x)
  BY <1>1 DEF OpToRel
<1> QED  BY <1>2

LEMMA Induct ==
    ASSUME NEW n \in Nat, NEW S, 0 \in S, \A i \in 0 .. n - 1 : i \in S => i + 1 \in S
    PROVE  0 .. n \subseteq S
<1> DEFINE T == (0 .. n) \ S
<1>1. SUFFICES ASSUME T # {} PROVE FALSE
  OBVIOUS
<1>2. PICK x \in T : \A y \in T : x <= y
  <2>1. T \subseteq Nat
    OBVIOUS
  <2> HIDE DEF T
  <2> QED  BY <1>1, <2>1, Least
<1>3. x # 0 /\ x - 1 \in 0 .. n - 1 /\ x - 1 \in 0 .. n
  BY <1>2
<1>4. x - 1 \in S
  BY <1>2, <1>3
<1>5. (x - 1) + 1 = x
  BY <1>2
<1> QED  BY <1>2, <1>3, <1>4, <1>5

\* A set of places, and how many of them come up to j.
Places(S) == \E n \in Nat : S \subseteq 1 .. n
Rank(S, j) == Cardinality({x \in S : x <= j})

LEMMA PlacesFinite ==
    ASSUME NEW S, Places(S)
    PROVE  /\ IsFiniteSet(S) /\ Cardinality(S) \in Nat
           /\ \A j \in S : j \in Nat /\ j > 0
<1>1. PICK n \in Nat : S \subseteq 1 .. n
  BY DEF Places
<1>2. IsFiniteSet(S)
  <2>1. IsFiniteSet(1 .. n)
    BY FS_Interval
  <2> QED  BY <1>1, <2>1, FS_Subset
<1> QED  BY <1>1, <1>2, FS_CardinalityType

LEMMA RankStep ==
    ASSUME NEW S, Places(S), NEW j \in Nat
    PROVE  /\ Rank(S, j) \in Nat /\ Rank(S, 0) = 0
           /\ Rank(S, j + 1) = IF j + 1 \in S THEN Rank(S, j) + 1 ELSE Rank(S, j)
<1> DEFINE UpTo(i) == {x \in S : x <= i}
<1>1. IsFiniteSet(S) /\ \A x \in S : x \in Nat /\ x > 0
  BY PlacesFinite
<1>2. IsFiniteSet(UpTo(j))
  BY <1>1, FS_Subset
<1>3. UpTo(j + 1) = IF j + 1 \in S THEN UpTo(j) \cup {j + 1} ELSE UpTo(j)
  <2>1. \A x \in S : x <= j + 1 <=> x <= j \/ x = j + 1
    BY <1>1
  <2>2. j <= j + 1
    OBVIOUS
  <2> QED  BY <2>1, <2>2
<1>4. j + 1 \notin UpTo(j) /\ UpTo(0) = {}
  BY <1>1
<1>6. \A i : Rank(S, i) = Cardinality(UpTo(i))
  BY DEF Rank
<1> HIDE DEF UpTo
<1>7. Rank(S, j) \in Nat
  BY <1>2, <1>6, FS_CardinalityType
<1>8. Rank(S, 0) = 0
  BY <1>4, <1>6, FS_EmptySet
<1>9. Rank(S, j + 1) = IF j + 1 \in S THEN Rank(S, j) + 1 ELSE Rank(S, j)
  <2>1. Cardinality(UpTo(j) \cup {j + 1}) = Cardinality(UpTo(j)) + 1
    BY <1>2, <1>4, FS_AddElement
  <2> QED  BY <1>3, <1>6, <2>1
<1> QED  BY <1>7, <1>8, <1>9

LEMMA RankEnds ==
    ASSUME NEW S, Places(S)
    PROVE  \E n \in Nat : S \subseteq 1 .. n /\ Rank(S, n) = Cardinality(S)
<1>1. PICK n \in Nat : S \subseteq 1 .. n
  BY DEF Places
<1>2. {x \in S : x <= n} = S
  <2>1. \A x \in S : x <= n
    BY <1>1
  <2> QED  BY <2>1, Zenon
<1> QED  BY <1>1, <1>2 DEF Rank

LEMMA RankGrows ==
    ASSUME NEW S, Places(S), NEW i \in Nat, NEW j \in Nat, i < j
    PROVE  /\ Rank(S, i) <= Rank(S, j)
           /\ j \in S => Rank(S, i) < Rank(S, j)
<1> DEFINE T == {d \in Nat : Rank(S, i) <= Rank(S, i + d)}
<1>1. \A d \in Nat : Rank(S, d) \in Nat
  BY RankStep
<1>2. ASSUME NEW d \in Nat
      PROVE  Rank(S, i + (d + 1)) = IF i + (d + 1) \in S THEN Rank(S, i + d) + 1 ELSE Rank(S, i + d)
  <2>1. (i + d) + 1 = i + (d + 1) /\ i + d \in Nat
    OBVIOUS
  <2> QED  BY <2>1, RankStep
<1>3. 0 \in T
  <2>1. i + 0 = i /\ Rank(S, i) \in Nat
    BY <1>1
  <2> QED  BY <2>1
<1>4. \A d \in Nat : d \in T => d + 1 \in T
  <2>1. SUFFICES ASSUME NEW d \in Nat, d \in T PROVE Rank(S, i) <= Rank(S, i + (d + 1))
    OBVIOUS
  <2>2. Rank(S, i + d) \in Nat /\ Rank(S, i) \in Nat
    BY <1>1
  <2> QED  BY <1>2, <2>1, <2>2
<1>5. 0 .. j - i \subseteq T
  <2>1. j - i \in Nat /\ \A d \in 0 .. (j - i) - 1 : d \in Nat
    OBVIOUS
  <2> HIDE DEF T
  <2> QED  BY <1>3, <1>4, <2>1, Induct
<1>6. j - i \in T /\ (j - i) - 1 \in T
  BY <1>5
<1>7. i + (j - i) = j /\ i + ((j - i) - 1) = j - 1 /\ (j - 1) + 1 = j /\ j - 1 \in Nat
  OBVIOUS
<1>8. Rank(S, i) <= Rank(S, j) /\ Rank(S, i) <= Rank(S, j - 1)
  BY <1>6, <1>7
<1>9. Rank(S, j) = IF j \in S THEN Rank(S, j - 1) + 1 ELSE Rank(S, j - 1)
  BY <1>7, RankStep
<1>10. Rank(S, i) \in Nat /\ Rank(S, j - 1) \in Nat
  BY <1>1, <1>7
<1> QED  BY <1>8, <1>9, <1>10

\* The element that Nth names, and its place.
LEMMA NthOfRank ==
    ASSUME NEW S, Places(S), NEW j \in S
    PROVE  Rank(S, j) \in 1 .. Cardinality(S) /\ Nth(S, Rank(S, j)) = j
<1>1. \A i \in S : i \in Nat /\ i > 0
  BY PlacesFinite
<1>2. ASSUME NEW i \in S, Rank(S, i) = Rank(S, j) PROVE i = j
  <2>1. i \in Nat /\ j \in Nat /\ Rank(S, j) \in Nat
    BY <1>1, RankStep
  <2>2. ~(i < j) /\ ~(j < i)
    BY <1>1, <1>2, <2>1, RankGrows
  <2> QED  BY <2>1, <2>2
<1>3. Nth(S, Rank(S, j)) = CHOOSE i \in S : Rank(S, i) = Rank(S, j)
  BY DEF Nth, Rank
<1>4. PICK n \in Nat : S \subseteq 1 .. n /\ Rank(S, n) = Cardinality(S)
  BY RankEnds
<1>5. Rank(S, 0) = 0 /\ Rank(S, j) \in Nat /\ Rank(S, n) \in Nat
  BY <1>1, RankStep
<1>6. Rank(S, 0) < Rank(S, j)
  BY <1>1, RankGrows
<1>7. Rank(S, j) <= Rank(S, n)
  <2>1. j = n \/ j < n
    BY <1>4
  <2> QED  BY <1>1, <1>5, <2>1, RankGrows
<1> QED  BY <1>2, <1>3, <1>4, <1>5, <1>6, <1>7

LEMMA RankOfNth ==
    ASSUME NEW S, Places(S), NEW k \in 1 .. Cardinality(S)
    PROVE  Nth(S, k) \in S /\ Rank(S, Nth(S, k)) = k
<1> DEFINE T == {j \in Nat : k <= Rank(S, j)}
<1>0. Cardinality(S) \in Nat /\ \A j \in Nat : Rank(S, j) \in Nat
  BY PlacesFinite, RankStep
<1>1. PICK n \in Nat : Rank(S, n) = Cardinality(S)
  BY RankEnds
<1>2. PICK j \in T : \A i \in T : j <= i
  <2>1. n \in T /\ T \subseteq Nat
    BY <1>0, <1>1
  <2> HIDE DEF T
  <2> QED  BY <2>1, Least
<1>3. j # 0
  BY <1>0, RankStep
<1>4. j - 1 \in Nat /\ j - 1 \notin T /\ (j - 1) + 1 = j
  BY <1>2, <1>3
<1>5. Rank(S, j - 1) < k
  BY <1>0, <1>4
<1>6. j \in S /\ Rank(S, j) = k
  <2>1. Rank(S, j) = IF j \in S THEN Rank(S, j - 1) + 1 ELSE Rank(S, j - 1)
    BY <1>4, RankStep
  <2>2. Rank(S, j - 1) \in Nat /\ k \in Nat /\ k <= Rank(S, j)
    BY <1>0, <1>4
  <2> QED  BY <1>5, <2>1, <2>2
<1> QED  BY <1>6, NthOfRank

\* Neighbours stay neighbours.
LEMMA RankRun ==
    ASSUME NEW S, Places(S), NEW p \in S, NEW k \in Nat, \A d \in 1 .. k : p + d \in S
    PROVE  Rank(S, p + k) = Rank(S, p) + k
<1> DEFINE T == {d \in 0 .. k : Rank(S, p + d) = Rank(S, p) + d}
<1>1. p \in Nat /\ p + 0 = p
  BY PlacesFinite
<1>2. Rank(S, p) \in Nat
  BY <1>1, RankStep
<1>3. 0 \in T
  BY <1>1, <1>2
<1>4. ASSUME NEW d \in 0 .. k - 1, d \in T PROVE d + 1 \in T
  <2>1. p + d \in Nat /\ (p + d) + 1 = p + (d + 1) /\ d + 1 \in 1 .. k
    BY <1>1
  <2>2. p + (d + 1) \in S
    BY <2>1
  <2>3. Rank(S, p + (d + 1)) = Rank(S, p + d) + 1
    BY <2>1, <2>2, RankStep
  <2>4. Rank(S, p + d) = Rank(S, p) + d
    BY <1>4
  <2>5. d + 1 \in 0 .. k /\ (Rank(S, p) + d) + 1 = Rank(S, p) + (d + 1)
    BY <1>2
  <2> QED  BY <2>3, <2>4, <2>5
<1>5. 0 .. k \subseteq T
  <2> HIDE DEF T
  <2> QED  BY <1>3, <1>4, Induct
<1> QED  BY <1>5

----------------------------------------------------------------------------
(* Steps repeated, and sequences put end to end                             *)

\* The states from a on, of a step h that depends on its number.
Iterated(g, a, h, n) == g[0] = a /\ \A i \in 1 .. n : g[i] = h[<<g[i - 1], i>>]

LEMMA Iterates ==
    ASSUME NEW n \in Nat, NEW S, NEW a \in S, NEW h \in [S \X (1 .. n) -> S]
    PROVE  \E g \in [0 .. n -> S] : Iterated(g, a, h, n)
<1> DEFINE Runs(g, m) == Iterated(g, a, h, m)
           T == {m \in 0 .. n : \E g \in [0 .. m -> S] : Runs(g, m)}
<1>1. 0 \in T
  <2> DEFINE g == [i \in 0 .. 0 |-> a]
  <2>1. g \in [0 .. 0 -> S] /\ g[0] = a /\ \A i \in 1 .. 0 : FALSE
    OBVIOUS
  <2> HIDE DEF g
  <2>2. Runs(g, 0) /\ 0 \in 0 .. n
    BY <2>1 DEF Iterated
  <2> QED  BY <2>1, <2>2
<1>2. ASSUME NEW m \in 0 .. n - 1, m \in T PROVE m + 1 \in T
  <2>1. PICK g \in [0 .. m -> S] : Runs(g, m)
    BY <1>2
  <2> DEFINE last == h[<<g[m], m + 1>>]
             f == [i \in 0 .. m + 1 |-> IF i = m + 1 THEN last ELSE g[i]]
  <2>2. last \in S
    <3>1. g[m] \in S /\ m + 1 \in 1 .. n
      BY <2>1
    <3> HIDE DEF T
    <3> QED  BY <3>1
  <2>3. /\ m \in Nat /\ \A i \in 0 .. m + 1 : i = m + 1 \/ i \in 0 .. m
        /\ \A i \in 1 .. m + 1 : i - 1 \in 0 .. m /\ i - 1 # m + 1 /\ i \in 0 .. m + 1
                                 /\ (i # m + 1 => i \in 1 .. m) /\ (i = m + 1 => i - 1 = m)
        /\ \A i \in 0 .. m : i \in 0 .. m + 1 /\ i # m + 1
        /\ 0 \in 0 .. m /\ m + 1 \in 0 .. n
    OBVIOUS
  <2> HIDE DEF last
  <2>4. f \in [0 .. m + 1 -> S]
    <3>1. \A i \in 0 .. m + 1 : (IF i = m + 1 THEN last ELSE g[i]) \in S
      BY <2>1, <2>2, <2>3
    <3> QED  BY <3>1
  <2>5. (\A i \in 0 .. m : f[i] = g[i]) /\ \A i \in 0 .. m + 1 : i = m + 1 => f[i] = last
    BY <2>3
  <2> HIDE DEF f
  <2>6. Runs(f, m + 1)
    <3>1. f[0] = a
      BY <2>1, <2>3, <2>5 DEF Iterated
    <3>2. ASSUME NEW i \in 1 .. m + 1 PROVE f[i] = h[<<f[i - 1], i>>]
      <4>1. f[i - 1] = g[i - 1]
        BY <2>3, <2>5
      <4>2. CASE i = m + 1
        BY <2>3, <2>5, <4>1, <4>2 DEF last
      <4>3. CASE i # m + 1
        <5>1. i \in 1 .. m /\ f[i] = g[i]
          BY <2>3, <2>5, <4>3
        <5> QED  BY <2>1, <4>1, <5>1 DEF Iterated
      <4> QED  BY <4>2, <4>3
    <3> QED  BY <3>1, <3>2 DEF Iterated
  <2> HIDE DEF Runs
  <2> QED  BY <2>3, <2>4, <2>6
<1>3. n \in T
  <2> HIDE DEF T
  <2>1. 0 .. n \subseteq T
    BY <1>1, <1>2, Induct
  <2> QED  BY <2>1
<1> QED  BY <1>3

\* FlattenSeq puts one element after the other.
Flattens(f, ss, n) ==
    f[0] = <<>> /\ f[n] = FlattenSeq(ss) /\ \A i \in 1 .. n : f[i] = f[i - 1] \o ss[i]

LEMMA FlattenIs ==
    ASSUME NEW M, NEW ss, NEW n \in Nat, ss \in [1 .. n -> Seq(M)]
    PROVE  \E f \in [0 .. n -> Seq(M)] : Flattens(f, ss, n)
<1> DEFINE h == [x \in Seq(M) \X (1 .. n) |-> x[1] \o ss[x[2]]]
<1>0. Len(ss) = n /\ \A s \in Seq(M) : <<>> \o s = s
  OBVIOUS
<1>1. PICK g \in [0 .. n -> Seq(M)] : g[0] = <<>> /\ \A i \in 1 .. n : g[i] = h[<<g[i - 1], i>>]
  <2>1. \A x \in Seq(M) \X (1 .. n) : x[1] \o ss[x[2]] \in Seq(M)
    <3> SUFFICES ASSUME NEW x \in Seq(M) \X (1 .. n) PROVE x[1] \o ss[x[2]] \in Seq(M)
      OBVIOUS
    <3>1. x[1] \in Seq(M) /\ x[2] \in 1 .. n
      OBVIOUS
    <3>2. ss[x[2]] \in Seq(M)
      BY <3>1
    <3> QED  BY <3>1, <3>2
  <2>2. h \in [Seq(M) \X (1 .. n) -> Seq(M)]
    BY <2>1
  <2>3. <<>> \in Seq(M)
    OBVIOUS
  <2>4. PICK S, a : S = Seq(M) /\ a = <<>>
    OBVIOUS
  <2> HIDE DEF h
  <2>5. h \in [S \X (1 .. n) -> S] /\ a \in S
    BY <2>2, <2>3, <2>4
  <2>6. \E g \in [0 .. n -> S] : Iterated(g, a, h, n)
    BY <2>5, Iterates
  <2> QED  BY <2>4, <2>6 DEF Iterated
<1>2. \A i \in 1 .. n : i - 1 \in 0 .. n /\ i \in 0 .. n /\ g[i - 1] \in Seq(M) /\ g[i] = g[i - 1] \o ss[i]
  <2> SUFFICES ASSUME NEW i \in 1 .. n
               PROVE  i - 1 \in 0 .. n /\ i \in 0 .. n /\ g[i - 1] \in Seq(M) /\ g[i] = g[i - 1] \o ss[i]
    OBVIOUS
  <2>1. i - 1 \in 0 .. n /\ i \in 0 .. n
    OBVIOUS
  <2>2. <<g[i - 1], i>> \in Seq(M) \X (1 .. n)
    BY <1>1, <2>1
  <2>3. h[<<g[i - 1], i>>] = g[i - 1] \o ss[i]
    BY <2>2
  <2> QED  BY <1>1, <2>1, <2>3
<1> DEFINE c == CHOOSE flatten : flatten = [i \in 1 .. Len(ss) |->
                     IF i = 1 THEN ss[i] ELSE flatten[i - 1] \o ss[i]]
<1>3. FlattenSeq(ss) = IF Len(ss) = 0 THEN ss ELSE c[Len(ss)]
  BY Zenon DEF FlattenSeq
<1>4. \E f : f = [i \in 1 .. Len(ss) |-> IF i = 1 THEN ss[i] ELSE f[i - 1] \o ss[i]]
  <2> DEFINE f == [i \in 1 .. n |-> g[i]]
  <2>1. ASSUME NEW i \in 1 .. n PROVE f[i] = IF i = 1 THEN ss[i] ELSE f[i - 1] \o ss[i]
    <3>1. CASE i = 1
      <4>1. ss[i] \in Seq(M) /\ g[0] = <<>> /\ i - 1 = 0
        BY <1>1, <3>1
      <4>2. g[i] = <<>> \o ss[i]
        BY <1>2, <4>1
      <4>3. g[i] = ss[i]
        BY <1>0, <4>1, <4>2
      <4> QED  BY <3>1, <4>3
    <3>2. CASE i # 1
      <4>1. i - 1 \in 1 .. n
        BY <3>2
      <4>2. f[i] = g[i] /\ f[i - 1] = g[i - 1]
        BY <4>1
      <4>3. g[i] = g[i - 1] \o ss[i]
        BY <1>2
      <4> QED  BY <3>2, <4>2, <4>3
    <3> QED  BY <3>1, <3>2
  <2>2. f = [i \in 1 .. n |-> f[i]]
    OBVIOUS
  <2> HIDE DEF f
  <2>3. f = [i \in 1 .. n |-> IF i = 1 THEN ss[i] ELSE f[i - 1] \o ss[i]]
    BY <2>1, <2>2
  <2> QED  BY <1>0, <2>3
<1>5. c = [i \in 1 .. Len(ss) |-> IF i = 1 THEN ss[i] ELSE c[i - 1] \o ss[i]]
  BY <1>4, Zenon
<1> HIDE DEF c, h
<1> DEFINE T == {i \in 0 .. n : i = 0 \/ c[i] = g[i]}
<1>6. n \in T
  <2>1. 0 \in T
    OBVIOUS
  <2>2. ASSUME NEW i \in 0 .. n - 1, i \in T PROVE i + 1 \in T
    <3>1. i + 1 \in 1 .. n /\ (i + 1) - 1 = i /\ i + 1 \in 0 .. n
      OBVIOUS
    <3>2. g[i + 1] = g[i] \o ss[i + 1] /\ ss[i + 1] \in Seq(M)
      BY <1>2, <3>1
    <3>3. c[i + 1] = IF i + 1 = 1 THEN ss[i + 1] ELSE c[i] \o ss[i + 1]
      BY <1>0, <1>5, <3>1
    <3>4. CASE i = 0
      <4>1. c[i + 1] = ss[i + 1]
        BY <3>3, <3>4
      <4>2. g[i + 1] = <<>> \o ss[i + 1]
        BY <1>1, <3>2, <3>4
      <4>3. g[i + 1] = ss[i + 1]
        BY <1>0, <3>2, <4>2
      <4> QED  BY <3>1, <4>1, <4>3
    <3>5. CASE i # 0
      <4>1. c[i] = g[i]
        BY <2>2, <3>5
      <4>2. c[i + 1] = c[i] \o ss[i + 1]
        <5>1. i + 1 # 1
          BY <3>5
        <5> QED  BY <3>3, <5>1
      <4> QED  BY <3>1, <3>2, <4>1, <4>2
    <3> QED  BY <3>4, <3>5
  <2> HIDE DEF T
  <2>3. 0 .. n \subseteq T
    BY <2>1, <2>2, Induct
  <2> QED  BY <2>3
<1>7. g[n] = FlattenSeq(ss)
  <2>1. n = 0 => ss = <<>>
    OBVIOUS
  <2>2. n # 0 => c[n] = g[n]
    BY <1>6
  <2> QED  BY <1>0, <1>1, <1>3, <2>1, <2>2
<1> QED  BY <1>1, <1>2, <1>7 DEF Flattens

----------------------------------------------------------------------------
(* Messages                                                                 *)

Call == [id : Seq(Nat), args : Seq(Seq(Nat))]
Message == [role : {"user", "assistant", "tool"}, answer : Nat, calls : Seq(Call), id : Seq(Nat)]

\* Only an assistant calls, and its calls have names and ids, but for the one
\* phantom of an old history.
Phantom == <<[id |-> NoId, args |-> <<>>]>>
Proper(m) == \A k \in DOMAIN m.calls : Named(m.calls[k].args) /\ m.calls[k].id # NoId
Sound == {m \in Message : /\ m.calls # <<>> => m.role = "assistant"
                          /\ m.calls = Phantom \/ Proper(m)}

LEMMA SoundCalls ==
    ASSUME NEW m \in Sound
    PROVE  /\ m.calls \in Seq(Call) /\ Len(m.calls) \in Nat /\ DOMAIN m.calls = 1 .. Len(m.calls)
           /\ m.role = "tool" => m.calls = <<>> /\ DOMAIN m.calls = {}
           /\ m.calls = <<>> <=> Len(m.calls) = 0
           /\ \A k \in DOMAIN m.calls : m.calls[k].id \in Seq(Nat)
<1>1. m.calls \in Seq(Call) /\ (m.calls # <<>> => m.role = "assistant")
  BY DEF Sound, Message
<1>2. \A k \in DOMAIN m.calls : m.calls[k] \in Call
  BY <1>1
<1>3. \A k \in DOMAIN m.calls : m.calls[k].id \in Seq(Nat)
  BY <1>2 DEF Call
<1> QED  BY <1>1, <1>3

LEMMA AdjacentConcat ==
    ASSUME NEW a \in Seq(Sound), NEW b \in Seq(Sound), Adjacent(a), Adjacent(b)
    PROVE  Adjacent(a \o b)
<1> DEFINE s == a \o b
<1>1. PICK n \in Nat : n = Len(a)
  OBVIOUS
<1>2. PICK l \in Nat : l = Len(b)
  OBVIOUS
<1>3. /\ Len(s) = n + l /\ DOMAIN s = 1 .. n + l /\ DOMAIN a = 1 .. n /\ DOMAIN b = 1 .. l
      /\ \A i \in 1 .. n : s[i] = a[i] /\ s[i] \in Sound
      /\ \A i \in 1 .. l : s[n + i] = b[i] /\ s[n + i] \in Sound
  BY <1>1, <1>2
<1> HIDE DEF s
<1>4. \A i \in DOMAIN s : i \in 1 .. n \/ (i - n \in 1 .. l /\ n + (i - n) = i)
  BY <1>3
<1>5. ASSUME NEW i \in DOMAIN s, NEW k \in DOMAIN s[i].calls
      PROVE  i + k <= Len(s) /\ s[i + k].role = "tool" /\ s[i + k].id = s[i].calls[k].id
  <2>0. i \in Nat /\ k \in Nat /\ k > 0
    <3>1. s[i] \in Sound
      BY <1>3, <1>4
    <3>2. k \in 1 .. Len(s[i].calls) /\ Len(s[i].calls) \in Nat
      BY <3>1, SoundCalls
    <3> QED  BY <1>3, <3>2
  <2>1. CASE i \in 1 .. n
    <3>1. i + k <= n /\ a[i + k].role = "tool" /\ a[i + k].id = a[i].calls[k].id
      BY <1>1, <1>3, <1>5, <2>1 DEF Adjacent
    <3>2. i + k \in 1 .. n
      BY <2>0, <2>1, <3>1
    <3> QED  BY <1>2, <1>3, <2>1, <3>1, <3>2
  <2>2. CASE i - n \in 1 .. l /\ n + (i - n) = i
    <3>1. s[i] = b[i - n] /\ k \in DOMAIN b[i - n].calls
      BY <1>3, <1>5, <2>2
    <3>2. (i - n) + k <= l /\ b[(i - n) + k].role = "tool" /\ b[(i - n) + k].id = b[i - n].calls[k].id
      BY <1>2, <1>3, <2>2, <3>1 DEF Adjacent
    <3>3. (i - n) + k \in 1 .. l /\ n + ((i - n) + k) = i + k /\ i + k <= n + l
      BY <2>0, <2>2, <3>2
    <3>4. s[i + k] = b[(i - n) + k]
      BY <1>3, <3>3
    <3> QED  BY <1>3, <3>1, <3>2, <3>3, <3>4
  <2> QED  BY <1>4, <2>1, <2>2
<1>6. ASSUME NEW j \in DOMAIN s, s[j].role = "tool"
      PROVE  \E i \in 1 .. j - 1 : j - i \in DOMAIN s[i].calls
  <2>0. j \in Nat
    BY <1>3
  <2>1. CASE j \in 1 .. n
    <3>1. PICK i \in 1 .. j - 1 : j - i \in DOMAIN a[i].calls
      BY <1>3, <1>6, <2>1 DEF Adjacent
    <3>2. s[i] = a[i]
      BY <1>3, <2>1
    <3> QED  BY <3>1, <3>2
  <2>2. CASE j - n \in 1 .. l /\ n + (j - n) = j
    <3>0. s[j] = b[j - n]
      BY <1>3, <2>2
    <3>1. PICK i \in 1 .. (j - n) - 1 : (j - n) - i \in DOMAIN b[i].calls
      BY <1>3, <1>6, <2>2, <3>0 DEF Adjacent
    <3>2. i \in 1 .. l /\ n + i \in 1 .. j - 1 /\ j - (n + i) = (j - n) - i
      BY <2>0, <2>2
    <3>3. s[n + i] = b[i]
      BY <1>3, <3>2
    <3> QED  BY <3>1, <3>2, <3>3
  <2> QED  BY <1>4, <2>1, <2>2
<1>7. Adjacent(s)
  BY <1>5, <1>6 DEF Adjacent
<1> QED  BY <1>7 DEF s

----------------------------------------------------------------------------
(* The request to Gemini                                                    *)

\* The reply put after a call is one with its id, and makes no calls.
LEMMA ReplyIs ==
    ASSUME NEW msgs \in Seq(Sound), NEW id \in Seq(Nat)
    PROVE  /\ ReplyTo(msgs, id) \in Sound
           /\ ReplyTo(msgs, id).role = "tool" /\ ReplyTo(msgs, id).id = id
<1> DEFINE found == {i \in DOMAIN msgs : msgs[i].role = "tool" /\ msgs[i].id = id}
<1>1. CASE found = {}
  <2>1. ReplyTo(msgs, id) = Result(0, id)
    BY <1>1 DEF ReplyTo
  <2>2. Result(0, id) \in Message /\ Result(0, id).calls = <<>> /\ DOMAIN <<>> = {}
    BY DEF Result, Message
  <2>3. Result(0, id) \in Sound
    BY <2>2 DEF Sound, Proper
  <2> QED  BY <2>1, <2>3 DEF Result
<1>2. CASE found # {}
  <2>1. Places(found)
    <3>1. Len(msgs) \in Nat /\ found \subseteq 1 .. Len(msgs)
      OBVIOUS
    <3> HIDE DEF found
    <3> QED  BY <3>1 DEF Places
  <2>2. ReplyTo(msgs, id) = msgs[Nth(found, 1)]
    BY <1>2 DEF ReplyTo
  <2>3. Nth(found, 1) \in found
    <3> HIDE DEF found
    <3>1. Cardinality(found) \in Nat /\ Cardinality(found) # 0
      BY <1>2, <2>1, PlacesFinite, FS_EmptySet
    <3>2. 1 \in 1 .. Cardinality(found)
      BY <3>1
    <3> QED  BY <2>1, <3>2, RankOfNth
  <2> QED  BY <2>2, <2>3
<1> QED  BY <1>1, <1>2

LEMMA TurnAdjacent ==
    ASSUME NEW msgs \in Seq(Sound), NEW m \in Sound
    PROVE  GeminiTurn(msgs, m) \in Seq(Sound) /\ Adjacent(GeminiTurn(msgs, m))
<1> DEFINE R(k) == ReplyTo(msgs, m.calls[k].id)
           replies == [k \in DOMAIN m.calls |-> R(k)]
           turn == <<m>> \o replies
<1>1. PICK n \in Nat : n = Len(m.calls) /\ DOMAIN m.calls = 1 .. n
  BY SoundCalls
<1>2. \A k \in 1 .. n : R(k) \in Sound /\ R(k).role = "tool" /\ R(k).id = m.calls[k].id
  BY <1>1, SoundCalls, ReplyIs
<1> HIDE DEF R
<1>3. replies \in Seq(Sound) /\ Len(replies) = n /\ \A k \in 1 .. n : replies[k] = R(k)
  BY <1>1, <1>2
<1> HIDE DEF replies
<1>4. /\ turn \in Seq(Sound) /\ Len(turn) = 1 + n /\ DOMAIN turn = 1 .. 1 + n
      /\ turn[1] = m /\ \A k \in 1 .. n : turn[1 + k] = replies[k]
  BY <1>3
<1> HIDE DEF turn
<1>5. CASE m.calls # <<>>
  <2>1. GeminiTurn(msgs, m) = turn
    BY <1>5 DEF GeminiTurn, turn, replies, R
  <2>2. m.role # "tool"
    BY <1>5, SoundCalls
  <2>3. ASSUME NEW i \in DOMAIN turn, i # 1
        PROVE  turn[i].role = "tool" /\ i - 1 \in 1 .. n /\ turn[i].id = m.calls[i - 1].id
               /\ DOMAIN turn[i].calls = {}
    <3>1. i - 1 \in 1 .. n /\ 1 + (i - 1) = i
      BY <1>4, <2>3
    <3>2. turn[i] = R(i - 1)
      BY <1>3, <1>4, <3>1
    <3> QED  BY <1>2, <3>1, <3>2, SoundCalls
  <2>4. ASSUME NEW i \in DOMAIN turn, NEW k \in DOMAIN turn[i].calls
        PROVE  i + k <= Len(turn) /\ turn[i + k].role = "tool" /\ turn[i + k].id = turn[i].calls[k].id
    <3>1. i = 1 /\ turn[i] = m /\ k \in 1 .. n
      BY <1>1, <1>4, <2>3, <2>4
    <3>2. 1 + k \in DOMAIN turn /\ 1 + k # 1 /\ (1 + k) - 1 = k /\ 1 + k <= 1 + n
      BY <1>4, <3>1
    <3>3. turn[1 + k].role = "tool" /\ turn[1 + k].id = m.calls[k].id
      BY <2>3, <3>2
    <3> QED  BY <1>4, <3>1, <3>2, <3>3
  <2>5. ASSUME NEW j \in DOMAIN turn, turn[j].role = "tool"
        PROVE  \E i \in 1 .. j - 1 : j - i \in DOMAIN turn[i].calls
    <3>1. j # 1
      BY <1>4, <2>2, <2>5
    <3>2. j - 1 \in 1 .. n /\ 1 \in 1 .. j - 1
      BY <1>4, <2>3, <3>1
    <3> QED  BY <1>1, <1>4, <3>2
  <2>6. Adjacent(turn)
    BY <2>4, <2>5 DEF Adjacent
  <2> QED  BY <1>4, <2>1, <2>6
<1>6. CASE m.calls = <<>>
  <2>1. CASE m.role = "tool"
    <3>1. GeminiTurn(msgs, m) = <<>>
      BY <1>6, <2>1 DEF GeminiTurn
    <3>2. Adjacent(<<>>)
      BY DEF Adjacent
    <3> QED  BY <3>1, <3>2
  <2>2. CASE m.role # "tool"
    <3> DEFINE one == <<m>>
    <3>1. GeminiTurn(msgs, m) = one
      BY <1>6, <2>2 DEF GeminiTurn
    <3>2. DOMAIN one = {1} /\ one[1] = m /\ one \in Seq(Sound)
      OBVIOUS
    <3>3. DOMAIN m.calls = {}
      BY <1>6
    <3> HIDE DEF one
    <3>4. Adjacent(one)
      BY <2>2, <3>2, <3>3 DEF Adjacent
    <3> QED  BY <3>1, <3>2, <3>4
  <2> QED  BY <2>1, <2>2
<1> QED  BY <1>5, <1>6

LEMMA NormalizedAdjacent ==
    ASSUME NEW msgs \in Seq(Sound)
    PROVE  Normalized(msgs) \in Seq(Sound) /\ Adjacent(Normalized(msgs))
<1> DEFINE ss == [i \in DOMAIN msgs |-> GeminiTurn(msgs, msgs[i])]
           Good(s) == s \in Seq(Sound) /\ Adjacent(s)
<1>1. PICK n \in Nat : n = Len(msgs) /\ DOMAIN msgs = 1 .. n
  OBVIOUS
<1>2. \A i \in 1 .. n : Good(GeminiTurn(msgs, msgs[i]))
  <2>1. \A i \in 1 .. n : msgs[i] \in Sound
    BY <1>1
  <2> QED  BY <2>1, TurnAdjacent
<1>3. ss \in [1 .. n -> Seq(Sound)] /\ \A i \in 1 .. n : Good(ss[i])
  BY <1>1, <1>2
<1>4. Normalized(msgs) = FlattenSeq(ss)
  BY DEF Normalized
<1> HIDE DEF ss
<1>0. PICK f \in [0 .. n -> Seq(Sound)] : Flattens(f, ss, n)
  BY <1>3, FlattenIs
<1>5. /\ f[0] = <<>> /\ f[n] = FlattenSeq(ss)
      /\ \A i \in 1 .. n : f[i] = f[i - 1] \o ss[i]
  BY <1>0 DEF Flattens
<1> DEFINE T == {i \in 0 .. n : Adjacent(f[i])}
<1>6. 0 \in T
  <2>1. Adjacent(<<>>)
    BY DEF Adjacent
  <2> QED  BY <1>5, <2>1
<1>7. ASSUME NEW i \in 0 .. n - 1, i \in T PROVE i + 1 \in T
  <2>1. i + 1 \in 1 .. n /\ (i + 1) - 1 = i /\ i \in 0 .. n /\ i + 1 \in 0 .. n
    OBVIOUS
  <2>2. f[i + 1] = f[i] \o ss[i + 1] /\ f[i] \in Seq(Sound)
    BY <1>5, <2>1
  <2>3. Adjacent(f[i]) /\ Good(ss[i + 1])
    BY <1>3, <1>7, <2>1
  <2>4. Adjacent(f[i + 1])
    BY <2>2, <2>3, AdjacentConcat
  <2> QED  BY <2>1, <2>4
<1>8. n \in T
  <2> HIDE DEF T
  <2>1. 0 .. n \subseteq T
    BY <1>6, <1>7, Induct
  <2> QED  BY <2>1
<1>9. f[n] \in Seq(Sound)
  BY <1>5
<1> QED  BY <1>4, <1>5, <1>8, <1>9

----------------------------------------------------------------------------
(* Phantom calls                                                            *)

LEMMA KeepAll ==
    ASSUME NEW S, NEW s \in Seq(S) PROVE Keep(s, DOMAIN s) = s /\ Keep(s, {}) = <<>>
<1>1. PICK n \in Nat : n = Len(s) /\ DOMAIN s = 1 .. n
  OBVIOUS
<1>2. Cardinality(1 .. n) = n /\ \A k \in 1 .. n : Nth(1 .. n, k) = k
  <2>1. 0 \in Nat /\ 0 + 1 = 1 /\ 0 + n = n
    OBVIOUS
  <2>2. Cardinality(0 + 1 .. 0 + n) = n
    BY <2>1, IntervalSize
  <2>3. \A k \in 1 .. n : Nth(0 + 1 .. 0 + n, k) = 0 + k
    BY <2>1, NthOfInterval
  <2> QED  BY <2>1, <2>2, <2>3
<1>3. Keep(s, 1 .. n) = [k \in 1 .. n |-> s[Nth(1 .. n, k)]]
  BY <1>2 DEF Keep
<1>4. Keep(s, 1 .. n) = [k \in 1 .. n |-> s[k]]
  BY <1>2, <1>3
<1>5. Keep(s, {}) = <<>>
  <2>1. Cardinality({}) = 0
    BY FS_EmptySet
  <2>2. Keep(s, {}) = [k \in 1 .. 0 |-> s[Nth({}, k)]]
    BY <2>1 DEF Keep
  <2> QED  BY <2>2
<1> QED  BY <1>1, <1>4, <1>5

LEMMA WithoutCalls ==
    ASSUME NEW m \in Sound, NEW w, w = [m EXCEPT !.calls = <<>>]
    PROVE  /\ w \in Sound /\ w.calls = <<>> /\ DOMAIN w.calls = {}
           /\ w.role = m.role /\ w.answer = m.answer /\ w.id = m.id
<1>1. PICK none \in Seq(Call) : none = <<>> /\ DOMAIN none = {}
  <2>1. <<>> \in Seq(Call) /\ DOMAIN <<>> = {}
    OBVIOUS
  <2> QED  BY <2>1
<1>2. m \in Message
  BY DEF Sound
<1>3. /\ w \in Message /\ w.calls = none
      /\ w.role = m.role /\ w.answer = m.answer /\ w.id = m.id
  BY <1>1, <1>2 DEF Message
<1>4. Proper(w)
  BY <1>1, <1>3 DEF Proper
<1>5. w \in Sound
  BY <1>1, <1>3, <1>4 DEF Sound
<1> QED  BY <1>1, <1>3, <1>5

LEMMA CleanIs ==
    ASSUME NEW m \in Sound
    PROVE  /\ Clean(m) \in Sound
           /\ Clean(m).role = m.role /\ Clean(m).answer = m.answer /\ Clean(m).id = m.id
           /\ Clean(m).calls = IF Proper(m) THEN m.calls ELSE <<>>
           /\ ~Proper(m) => m.calls = Phantom
           /\ \A k \in Phantoms(m) : m.calls[k].id = NoId
<1>1. m \in Message /\ m.calls \in Seq(Call) /\ (m.calls = Phantom \/ Proper(m))
  BY SoundCalls DEF Sound
<1> DEFINE calls == Keep(m.calls, DOMAIN m.calls \ Phantoms(m))
<1>2. Clean(m) = [m EXCEPT !.calls = calls]
  BY DEF Clean
<1>3. CASE Proper(m)
  <2>1. Phantoms(m) = {}
    BY <1>3 DEF Proper, Phantoms
  <2>2. calls = m.calls
    <3>1. DOMAIN m.calls \ Phantoms(m) = DOMAIN m.calls
      BY <2>1
    <3> QED  BY <1>1, <3>1, KeepAll
  <2> HIDE DEF calls
  <2>3. Clean(m) = m
    BY <1>1, <1>2, <2>2 DEF Message
  <2> QED  BY <1>3, <2>1, <2>3
<1>4. CASE ~Proper(m)
  <2>1. m.calls = Phantom
    BY <1>1, <1>4
  <2>2. DOMAIN Phantom = {1} /\ Phantom[1].id = NoId /\ Phantom[1].args = <<>>
    BY DEF Phantom
  <2>3. Phantoms(m) = {1}
    BY <2>1, <2>2, FirstPieces DEF Phantoms
  <2>4. calls = <<>>
    <3>1. DOMAIN m.calls \ Phantoms(m) = {}
      BY <2>1, <2>2, <2>3
    <3> QED  BY <1>1, <3>1, KeepAll
  <2> HIDE DEF calls
  <2>5. Clean(m) = [m EXCEPT !.calls = <<>>]
    BY <1>2, <2>4
  <2>6. /\ Clean(m) \in Sound /\ Clean(m).calls = <<>>
        /\ Clean(m).role = m.role /\ Clean(m).answer = m.answer /\ Clean(m).id = m.id
    BY <2>5, WithoutCalls
  <2> QED  BY <1>4, <2>1, <2>2, <2>3, <2>6
<1> QED  BY <1>3, <1>4

\* The messages that stay when a phantom has been found, and what is left.
Staying(msgs) == {i \in DOMAIN msgs : msgs[i].role # "tool" \/ msgs[i].id # NoId}
Kept(msgs) == Keep([i \in DOMAIN msgs |-> Clean(msgs[i])], Staying(msgs))

LEMMA StayingPlaces ==
    ASSUME NEW msgs \in Seq(Sound) PROVE Places(Staying(msgs)) /\ Staying(msgs) \subseteq DOMAIN msgs
<1>1. Len(msgs) \in Nat /\ Staying(msgs) \subseteq 1 .. Len(msgs)
  BY DEF Staying
<1>2. DOMAIN msgs = 1 .. Len(msgs)
  OBVIOUS
<1> QED  BY <1>1, <1>2 DEF Places

LEMMA SanitizedIs ==
    ASSUME NEW msgs \in Seq(Sound)
    PROVE  \/ Sanitized(msgs) = msgs /\ \A i \in DOMAIN msgs : Proper(msgs[i])
           \/ Sanitized(msgs) = Kept(msgs)
<1> DEFINE Ids(m) == {m.calls[k].id : k \in Phantoms(m)}
           dropped == UNION {Ids(msgs[i]) : i \in DOMAIN msgs}
           stay == {i \in DOMAIN msgs : msgs[i].role # "tool" \/ msgs[i].id \notin dropped \cup {NoId}}
<1>1. Sanitized(msgs) = IF dropped = {} THEN msgs ELSE Keep([i \in DOMAIN msgs |-> Clean(msgs[i])], stay)
  BY DEF Sanitized
<1>2. \A i \in DOMAIN msgs : msgs[i] \in Sound
  OBVIOUS
<1>3. \A i \in DOMAIN msgs : Ids(msgs[i]) \subseteq {NoId}
  BY <1>2, CleanIs
<1>4. dropped \subseteq {NoId}
  BY <1>3
<1>5. ASSUME dropped = {} PROVE \A i \in DOMAIN msgs : Proper(msgs[i])
  <2> SUFFICES ASSUME NEW i \in DOMAIN msgs, ~Proper(msgs[i]) PROVE FALSE
    OBVIOUS
  <2>1. msgs[i].calls = Phantom
    BY <1>2, CleanIs
  <2>2. 1 \in DOMAIN Phantom /\ Phantom[1].args = <<>>
    BY DEF Phantom
  <2>3. 1 \in Phantoms(msgs[i])
    BY <2>1, <2>2, FirstPieces DEF Phantoms
  <2>4. msgs[i].calls[1].id \in Ids(msgs[i])
    BY <2>3
  <2>5. msgs[i].calls[1].id \in dropped
    BY <2>4
  <2> HIDE DEF dropped
  <2> QED  BY <1>5, <2>5
<1>6. stay = Staying(msgs)
  <2>1. dropped \cup {NoId} = {NoId}
    BY <1>4
  <2> HIDE DEF dropped
  <2> QED  BY <2>1 DEF Staying
<1> HIDE DEF dropped, stay
<1> QED  BY <1>1, <1>5, <1>6 DEF Kept

LEMMA KeptIs ==
    ASSUME NEW msgs \in Seq(Sound), NEW S, S = Staying(msgs), NEW out, out = Kept(msgs)
    PROVE  /\ out \in Seq(Sound) /\ Len(out) = Cardinality(S)
           /\ DOMAIN out = 1 .. Cardinality(S) /\ Cardinality(S) \in Nat
           /\ \A q \in DOMAIN out :
                /\ Nth(S, q) \in S /\ Rank(S, Nth(S, q)) = q
                /\ out[q] = Clean(msgs[Nth(S, q)])
           /\ \A p \in S : Rank(S, p) \in DOMAIN out /\ out[Rank(S, p)] = Clean(msgs[p])
<1>1. Places(S) /\ S \subseteq DOMAIN msgs
  BY StayingPlaces
<1>2. PICK n \in Nat : n = Cardinality(S)
  BY <1>1, PlacesFinite
<1> DEFINE clean == [i \in DOMAIN msgs |-> Clean(msgs[i])]
<1>3. ASSUME NEW p \in S PROVE clean[p] = Clean(msgs[p]) /\ clean[p] \in Sound
  <2>1. p \in DOMAIN msgs /\ msgs[p] \in Sound
    BY <1>1
  <2> QED  BY <2>1, CleanIs
<1>4. out = [q \in 1 .. n |-> clean[Nth(S, q)]]
  BY <1>2 DEF Kept, Keep
<1> HIDE DEF clean
<1>5. ASSUME NEW q \in 1 .. n
      PROVE  /\ Nth(S, q) \in S /\ Rank(S, Nth(S, q)) = q
             /\ clean[Nth(S, q)] = Clean(msgs[Nth(S, q)]) /\ clean[Nth(S, q)] \in Sound
  BY <1>1, <1>2, <1>3, RankOfNth
<1>6. out \in Seq(Sound) /\ Len(out) = n /\ DOMAIN out = 1 .. n
  BY <1>4, <1>5
<1>7. \A q \in 1 .. n : out[q] = Clean(msgs[Nth(S, q)])
  BY <1>4, <1>5
<1>8. ASSUME NEW p \in S PROVE Rank(S, p) \in 1 .. n /\ out[Rank(S, p)] = Clean(msgs[p])
  <2>1. Rank(S, p) \in 1 .. n /\ Nth(S, Rank(S, p)) = p
    BY <1>1, <1>2, NthOfRank
  <2> QED  BY <1>7, <2>1
<1> QED  BY <1>2, <1>5, <1>6, <1>7, <1>8

\* Without the phantoms and what answers them, calls and replies stay together.
LEMMA KeptAdjacent ==
    ASSUME NEW msgs \in Seq(Sound), Adjacent(msgs)
    PROVE  Adjacent(Kept(msgs))
<1>1. PICK S, out : S = Staying(msgs) /\ out = Kept(msgs)
  OBVIOUS
<1>2. Places(S) /\ S \subseteq DOMAIN msgs /\ \A i \in DOMAIN msgs : i \in Nat /\ i > 0 /\ msgs[i] \in Sound
  BY <1>1, StayingPlaces
<1>3. /\ Len(out) = Cardinality(S) /\ DOMAIN out = 1 .. Cardinality(S) /\ Cardinality(S) \in Nat
      /\ \A q \in DOMAIN out :
           Nth(S, q) \in S /\ Rank(S, Nth(S, q)) = q /\ out[q] = Clean(msgs[Nth(S, q)])
      /\ \A p \in S : Rank(S, p) \in DOMAIN out /\ out[Rank(S, p)] = Clean(msgs[p])
  BY <1>1, KeptIs
\* The replies to a proper message follow it, and stay.
<1>4. ASSUME NEW i \in DOMAIN msgs, NEW k \in DOMAIN msgs[i].calls, Proper(msgs[i])
      PROVE  /\ i \in S /\ k \in Nat /\ k > 0 /\ i + k \in S /\ Rank(S, i + k) = Rank(S, i) + k
             /\ msgs[i + k].role = "tool" /\ msgs[i + k].id = msgs[i].calls[k].id
  <2>1. PICK n \in Nat : n = Len(msgs[i].calls) /\ DOMAIN msgs[i].calls = 1 .. n
    BY <1>2, SoundCalls
  <2>2. ASSUME NEW d \in 1 .. n
        PROVE  i + d \in S /\ msgs[i + d].role = "tool" /\ msgs[i + d].id = msgs[i].calls[d].id
    <3>1. i + d <= Len(msgs) /\ msgs[i + d].role = "tool" /\ msgs[i + d].id = msgs[i].calls[d].id
      BY <2>1 DEF Adjacent
    <3>2. i + d \in DOMAIN msgs
      BY <1>2, <3>1
    <3>3. msgs[i].calls[d].id # NoId
      BY <1>4, <2>1 DEF Proper
    <3> QED  BY <1>1, <3>1, <3>2, <3>3 DEF Staying
  <2>3. i \in S
    <3>1. msgs[i].role # "tool"
      BY <1>2, SoundCalls
    <3> QED  BY <1>1, <3>1 DEF Staying
  <2>4. k \in Nat /\ k > 0 /\ \A d \in 1 .. k : d \in 1 .. n
    BY <2>1
  <2>5. Rank(S, i + k) = Rank(S, i) + k
    BY <1>2, <2>2, <2>3, <2>4, RankRun
  <2> QED  BY <2>1, <2>2, <2>3, <2>4, <2>5
<1>5. ASSUME NEW q \in DOMAIN out, NEW k \in DOMAIN out[q].calls
      PROVE  q + k <= Len(out) /\ out[q + k].role = "tool" /\ out[q + k].id = out[q].calls[k].id
  <2>1. PICK i \in S : i = Nth(S, q) /\ Rank(S, i) = q /\ out[q] = Clean(msgs[i]) /\ msgs[i] \in Sound
    BY <1>2, <1>3
  <2>2. Proper(msgs[i]) /\ out[q].calls = msgs[i].calls
    <3>1. ~Proper(msgs[i]) => DOMAIN out[q].calls = {}
      BY <2>1, CleanIs
    <3> QED  BY <1>5, <2>1, <3>1, CleanIs
  <2>3. /\ k \in Nat /\ i + k \in S /\ Rank(S, i + k) = q + k
        /\ msgs[i + k].role = "tool" /\ msgs[i + k].id = msgs[i].calls[k].id
    BY <1>2, <1>4, <2>1, <2>2
  <2>4. q + k \in DOMAIN out /\ out[q + k] = Clean(msgs[i + k]) /\ msgs[i + k] \in Sound
    BY <1>2, <1>3, <2>3
  <2>5. out[q + k].role = "tool" /\ out[q + k].id = msgs[i].calls[k].id
    BY <2>3, <2>4, CleanIs
  <2> QED  BY <1>3, <2>2, <2>4, <2>5
<1>6. ASSUME NEW q \in DOMAIN out, out[q].role = "tool"
      PROVE  \E j \in 1 .. q - 1 : q - j \in DOMAIN out[j].calls
  <2>1. PICK p \in S : p = Nth(S, q) /\ Rank(S, p) = q /\ out[q] = Clean(msgs[p]) /\ msgs[p] \in Sound
    BY <1>2, <1>3
  <2>2. msgs[p].role = "tool" /\ msgs[p].id # NoId /\ p \in DOMAIN msgs
    <3>1. msgs[p].role = "tool"
      BY <1>6, <2>1, CleanIs
    <3> QED  BY <1>1, <1>2, <3>1 DEF Staying
  <2>3. PICK i \in 1 .. p - 1 : p - i \in DOMAIN msgs[i].calls
    BY <2>2 DEF Adjacent
  <2>4. i \in DOMAIN msgs /\ i + (p - i) = p /\ i \in Nat
    BY <1>2, <2>2
  <2>5. msgs[p].id = msgs[i].calls[p - i].id
    BY <2>3, <2>4 DEF Adjacent
  <2>6. Proper(msgs[i])
    <3>1. ASSUME msgs[i].calls = Phantom PROVE FALSE
      <4>1. p - i = 1 /\ Phantom[1].id = NoId
        BY <2>3, <3>1 DEF Phantom
      <4> QED  BY <2>2, <2>5, <3>1, <4>1
    <3> QED  BY <1>2, <2>4, <3>1, CleanIs
  <2>7. i \in S /\ p - i \in Nat /\ p - i > 0 /\ q = Rank(S, i) + (p - i)
    BY <1>4, <2>1, <2>3, <2>4, <2>6
  <2>8. PICK j \in 1 .. Cardinality(S) : j = Rank(S, i) /\ out[j] = Clean(msgs[i])
    BY <1>3, <2>7
  <2>9. out[j].calls = msgs[i].calls
    BY <1>2, <2>4, <2>6, <2>8, CleanIs
  <2>10. j \in 1 .. q - 1 /\ q - j = p - i
    BY <1>3, <2>7, <2>8
  <2> QED  BY <2>3, <2>9, <2>10
<1>7. Adjacent(out)
  BY <1>5, <1>6 DEF Adjacent
<1> QED  BY <1>1, <1>7

LEMMA SanitizedAdjacent ==
    ASSUME NEW msgs \in Seq(Sound), Adjacent(msgs)
    PROVE  Adjacent(Sanitized(msgs))
BY SanitizedIs, KeptAdjacent

----------------------------------------------------------------------------
(* The request to Anthropic                                                 *)

Results == [role : {"results"}, of : Seq(Sound)]
Accs == [out : Seq(Sound \cup Results), results : Seq(Sound)]

LEMMA FlushIs ==
    ASSUME NEW acc \in Accs
    PROVE  /\ Flush(acc) \in Seq(Sound \cup Results)
           /\ acc.results # <<>> =>
                \E t \in DOMAIN Flush(acc) : Flush(acc)[t] = [role |-> "results", of |-> acc.results]
<1>1. PICK U : U = Sound \cup Results
  OBVIOUS
<1>2. acc.out \in Seq(U) /\ acc.results \in Seq(Sound)
  BY <1>1 DEF Accs
<1>3. PICK r \in U : r = [role |-> "results", of |-> acc.results]
  BY <1>1, <1>2 DEF Results
<1>4. CASE acc.results = <<>>
  BY <1>1, <1>2, <1>4 DEF Flush
<1>5. CASE acc.results # <<>>
  <2>1. Flush(acc) = Append(acc.out, r)
    BY <1>3, <1>5 DEF Flush
  <2>2. Append(acc.out, r) \in Seq(U) /\ Len(acc.out) + 1 \in DOMAIN Append(acc.out, r)
        /\ Append(acc.out, r)[Len(acc.out) + 1] = r
    BY <1>2
  <2> QED  BY <1>1, <1>3, <2>1, <2>2
<1> QED  BY <1>4, <1>5

LEMMA TakeIs ==
    ASSUME NEW acc \in Accs, NEW m \in Sound
    PROVE  /\ Take(acc, m) \in Accs
           /\ m.role = "tool" =>
                Take(acc, m).results = IF m.id = NoId THEN acc.results ELSE Append(acc.results, m)
<1>1. acc.out \in Seq(Sound \cup Results) /\ acc.results \in Seq(Sound)
  BY DEF Accs
<1>2. CASE m.role = "tool" /\ m.id = NoId
  BY <1>2 DEF Take
<1>3. CASE m.role = "tool" /\ m.id # NoId
  <2>1. Take(acc, m) = [acc EXCEPT !.results = Append(acc.results, m)]
    BY <1>3 DEF Take
  <2>2. Append(acc.results, m) \in Seq(Sound)
    BY <1>1
  <2>3. PICK more \in Seq(Sound) : more = Append(acc.results, m)
    BY <2>2
  <2>4. [acc EXCEPT !.results = more] \in Accs /\ [acc EXCEPT !.results = more].results = more
    BY DEF Accs
  <2> QED  BY <1>3, <2>1, <2>3, <2>4
<1>4. CASE m.role # "tool"
  <2>1. Take(acc, m) = [out |-> Append(Flush(acc), m), results |-> <<>>]
    BY <1>4 DEF Take
  <2>2. PICK U : U = Sound \cup Results
    OBVIOUS
  <2>3. Flush(acc) \in Seq(U) /\ m \in U
    BY <2>2, FlushIs
  <2>4. PICK more \in Seq(U) : more = Append(Flush(acc), m)
    <3>1. \A s \in Seq(U) : Append(s, m) \in Seq(U)
      BY <2>3
    <3> QED  BY <2>3, <3>1
  <2>5. PICK none \in Seq(Sound) : none = <<>>
    <3>1. <<>> \in Seq(Sound)
      OBVIOUS
    <3> QED  BY <3>1
  <2>6. [out |-> more, results |-> none] \in Accs
    BY <2>2 DEF Accs
  <2> QED  BY <1>4, <2>1, <2>4, <2>5, <2>6
<1> QED  BY <1>2, <1>3, <1>4

TakesInTurn(f, msgs) ==
    /\ f \in [0 .. Len(msgs) -> Accs] /\ Translated(msgs) = Flush(f[Len(msgs)])
    /\ \A i \in 1 .. Len(msgs) : f[i] = Take(f[i - 1], msgs[i])

LEMMA TranslatedIs ==
    ASSUME NEW msgs \in Seq(Sound)
    PROVE  \E f : TakesInTurn(f, msgs)
<1> DEFINE h == [x \in Accs \X (1 .. Len(msgs)) |-> Take(x[1], msgs[x[2]])]
           a == [out |-> <<>>, results |-> <<>>]
<1>1. PICK n \in Nat : n = Len(msgs) /\ DOMAIN msgs = 1 .. n
  OBVIOUS
<1>2. a \in Accs
  <2>1. PICK none : none = <<>> /\ none \in Seq(Sound) /\ none \in Seq(Sound \cup Results)
    <3>1. \A U : <<>> \in Seq(U)
      OBVIOUS
    <3> QED  BY <3>1, Zenon
  <2>2. [out |-> none, results |-> none] \in Accs
    BY <2>1 DEF Accs
  <2> QED  BY <2>1, <2>2
<1>3. PICK g \in [0 .. n -> Accs] : Iterated(g, a, h, n)
  <2>1. \A x \in Accs \X (1 .. n) : Take(x[1], msgs[x[2]]) \in Accs
    <3> SUFFICES ASSUME NEW x \in Accs \X (1 .. n) PROVE Take(x[1], msgs[x[2]]) \in Accs
      OBVIOUS
    <3>1. x[1] \in Accs /\ x[2] \in 1 .. n
      OBVIOUS
    <3>2. msgs[x[2]] \in Sound
      BY <1>1, <3>1
    <3> QED  BY <3>1, <3>2, TakeIs
  <2>2. h \in [Accs \X (1 .. n) -> Accs]
    BY <1>1, <2>1
  <2> HIDE DEF h, a
  <2> QED  BY <1>2, <2>2, Iterates
<1>4. g[0] = a /\ \A i \in 1 .. n : g[i] = Take(g[i - 1], msgs[i])
  <2>1. g[0] = a /\ \A i \in 1 .. n : g[i] = h[<<g[i - 1], i>>]
    BY <1>3 DEF Iterated
  <2> HIDE DEF a
  <2>2. ASSUME NEW i \in 1 .. n PROVE g[i] = Take(g[i - 1], msgs[i])
    <3>1. g[i - 1] \in Accs
      <4>1. i - 1 \in 0 .. n
        OBVIOUS
      <4> QED  BY <1>3, <4>1
    <3>2. h[<<g[i - 1], i>>] = Take(g[i - 1], msgs[i])
      <4>1. <<g[i - 1], i>> \in Accs \X (1 .. Len(msgs))
        BY <1>1, <3>1
      <4> QED  BY <4>1
    <3> HIDE DEF h
    <3> QED  BY <2>1, <3>2
  <2> HIDE DEF h
  <2> QED  BY <2>1, <2>2
<1> DEFINE c == CHOOSE taken : taken = [i \in 0 .. Len(msgs) |->
                     IF i = 0 THEN a ELSE Take(taken[i - 1], msgs[i])]
<1>5. Translated(msgs) = Flush(c[Len(msgs)])
  BY Zenon DEF Translated
<1>6. \E f : f = [i \in 0 .. Len(msgs) |-> IF i = 0 THEN a ELSE Take(f[i - 1], msgs[i])]
  <2> HIDE DEF h, a
  <2>1. g = [i \in 0 .. n |-> g[i]]
    BY <1>3
  <2>2. \A i \in 0 .. n : g[i] = IF i = 0 THEN a ELSE Take(g[i - 1], msgs[i])
    <3>1. \A i \in 0 .. n : i = 0 \/ i \in 1 .. n
      OBVIOUS
    <3> QED  BY <1>4, <3>1
  <2>3. g = [i \in 0 .. n |-> IF i = 0 THEN a ELSE Take(g[i - 1], msgs[i])]
    BY <2>1, <2>2
  <2> QED  BY <1>1, <2>3
<1>7. c = [i \in 0 .. Len(msgs) |-> IF i = 0 THEN a ELSE Take(c[i - 1], msgs[i])]
  <2> HIDE DEF a, h
  <2> QED  BY <1>6, Zenon
<1> HIDE DEF c, h, a
<1>8. c[0] = a /\ \A i \in 1 .. n : c[i] = Take(c[i - 1], msgs[i])
  <2>1. 0 \in 0 .. n /\ \A i \in 1 .. n : i \in 0 .. n /\ i # 0
    OBVIOUS
  <2> QED  BY <1>1, <1>7, <2>1
<1> DEFINE T == {i \in 0 .. n : c[i] \in Accs}
<1>9. 0 .. n \subseteq T
  <2>1. 0 \in T
    BY <1>2, <1>8
  <2>2. ASSUME NEW i \in 0 .. n - 1, i \in T PROVE i + 1 \in T
    <3>1. i + 1 \in 1 .. n /\ (i + 1) - 1 = i /\ i + 1 \in 0 .. n
      OBVIOUS
    <3>2. c[i] \in Accs /\ msgs[i + 1] \in Sound
      BY <1>1, <2>2, <3>1
    <3>3. c[i + 1] = Take(c[i], msgs[i + 1])
      BY <1>8, <3>1
    <3> QED  BY <3>1, <3>2, <3>3, TakeIs
  <2> HIDE DEF T
  <2> QED  BY <2>1, <2>2, Induct
<1>10. c \in [0 .. n -> Accs]
  <2>1. c = [i \in 0 .. n |-> c[i]]
    BY <1>1, <1>7
  <2>2. \A i \in 0 .. n : c[i] \in Accs
    BY <1>9
  <2> QED  BY <2>1, <2>2
<1>11. TakesInTurn(c, msgs)
  BY <1>1, <1>5, <1>8, <1>10 DEF TakesInTurn
<1> QED  BY <1>11

\* The replies at the end of a request go together in one message.
Together(msgs, h, r) ==
    \A j \in h + 1 .. Len(msgs) : msgs[j].id # NoId =>
        \E i \in DOMAIN r : r[i] = msgs[j]

LEMMA TranslatedTail ==
    ASSUME NEW msgs \in Seq(Sound), NEW h \in 0 .. Len(msgs),
           \A j \in h + 1 .. Len(msgs) : msgs[j].role = "tool",
           \E j \in h + 1 .. Len(msgs) : msgs[j].id # NoId
    PROVE  \E t \in DOMAIN Translated(msgs) :
             /\ Translated(msgs)[t].role = "results" /\ Translated(msgs)[t].of \in Seq(Sound)
             /\ Together(msgs, h, Translated(msgs)[t].of)
<1>1. PICK n \in Nat : n = Len(msgs) /\ DOMAIN msgs = 1 .. n
  OBVIOUS
<1>2. PICK f : TakesInTurn(f, msgs)
  BY TranslatedIs
<1>3. /\ f \in [0 .. n -> Accs] /\ Translated(msgs) = Flush(f[n])
      /\ \A i \in 1 .. n : f[i] = Take(f[i - 1], msgs[i])
  BY <1>1, <1>2 DEF TakesInTurn
<1> DEFINE In(r, m) == \E i \in DOMAIN r : r[i] = m
           T == {d \in 0 .. n - h : \A j \in h + 1 .. h + d :
                    msgs[j].id # NoId => In(f[h + d].results, msgs[j])}
<1>4. \A r \in Seq(Sound), m \in Sound : In(Append(r, m), m) /\ \A x : In(r, x) => In(Append(r, m), x)
  <2> SUFFICES ASSUME NEW r \in Seq(Sound), NEW m \in Sound
               PROVE  In(Append(r, m), m) /\ \A x : In(r, x) => In(Append(r, m), x)
    OBVIOUS
  <2> DEFINE a == Append(r, m)
  <2>1. /\ Len(r) \in Nat /\ DOMAIN a = 1 .. Len(r) + 1 /\ a[Len(r) + 1] = m /\ DOMAIN r = 1 .. Len(r)
        /\ \A i \in 1 .. Len(r) : a[i] = r[i] /\ i \in 1 .. Len(r) + 1
        /\ Len(r) + 1 \in 1 .. Len(r) + 1
    OBVIOUS
  <2> HIDE DEF a
  <2>2. In(a, m) /\ \A x : In(r, x) => In(a, x)
    BY <2>1
  <2> QED  BY <2>2 DEF a
<1> HIDE DEF In
<1>5. 0 \in T
  <2>1. \A j \in h + 1 .. h + 0 : FALSE
    OBVIOUS
  <2>2. 0 \in 0 .. n - h
    BY <1>1
  <2> QED  BY <2>1, <2>2
<1>6. ASSUME NEW d \in 0 .. n - h - 1, d \in T PROVE d + 1 \in T
  <2>1. /\ h + (d + 1) \in 1 .. n /\ h + (d + 1) \in h + 1 .. n /\ h + d \in 0 .. n
        /\ (h + (d + 1)) - 1 = h + d /\ d + 1 \in 0 .. n - h
        /\ \A j \in h + 1 .. h + (d + 1) : j = h + (d + 1) \/ j \in h + 1 .. h + d
    BY <1>1
  <2>2. PICK acc \in Accs : acc = f[h + d]
    BY <1>3, <2>1
  <2>3. PICK m \in Sound : m = msgs[h + (d + 1)] /\ m.role = "tool"
    BY <1>1, <2>1
  <2>4. f[h + (d + 1)].results = IF m.id = NoId THEN acc.results ELSE Append(acc.results, m)
    <3>1. f[h + (d + 1)] = Take(acc, m)
      BY <1>3, <2>1, <2>2, <2>3
    <3> QED  BY <2>3, <3>1, TakeIs
  <2>5. acc.results \in Seq(Sound)
    BY DEF Accs
  <2>6. \A j \in h + 1 .. h + d : msgs[j].id # NoId => In(acc.results, msgs[j])
    BY <1>6, <2>2
  <2>7. ASSUME NEW j \in h + 1 .. h + (d + 1), msgs[j].id # NoId
        PROVE  In(f[h + (d + 1)].results, msgs[j])
    <3>1. CASE j = h + (d + 1)
      BY <1>4, <2>3, <2>4, <2>5, <2>7, <3>1
    <3>2. CASE j \in h + 1 .. h + d
      <4>1. In(acc.results, msgs[j])
        BY <2>6, <2>7, <3>2
      <4> QED  BY <1>4, <2>3, <2>4, <2>5, <4>1
    <3> QED  BY <2>1, <3>1, <3>2
  <2> QED  BY <2>1, <2>7
<1>7. n - h \in T
  <2>1. n - h \in Nat /\ (n - h) - 1 = n - h - 1
    BY <1>1
  <2> HIDE DEF T
  <2>2. 0 .. n - h \subseteq T
    BY <1>5, <1>6, <2>1, Induct
  <2> QED  BY <2>1, <2>2
<1>8. \A j \in h + 1 .. n : msgs[j].id # NoId => In(f[n].results, msgs[j])
  <2>1. h + (n - h) = n
    BY <1>1
  <2> QED  BY <1>7, <2>1
<1>9. f[n] \in Accs /\ f[n].results \in Seq(Sound)
  <2>1. n \in 0 .. n
    OBVIOUS
  <2>2. f[n] \in Accs
    BY <1>3, <2>1
  <2> QED  BY <2>2 DEF Accs
<1>10. f[n].results # <<>>
  <2>1. PICK j \in h + 1 .. n : In(f[n].results, msgs[j])
    BY <1>1, <1>8
  <2>2. \A x : ~In(<<>>, x)
    BY DEF In
  <2> QED  BY <2>1, <2>2
<1>11. PICK t \in DOMAIN Translated(msgs) :
         Translated(msgs)[t] = [role |-> "results", of |-> f[n].results]
  BY <1>3, <1>9, <1>10, FlushIs
<1>12. Translated(msgs)[t].role = "results" /\ Translated(msgs)[t].of = f[n].results
  BY <1>11
<1>13. Together(msgs, h, f[n].results)
  BY <1>1, <1>8 DEF Together, In
<1> QED  BY <1>9, <1>12, <1>13

----------------------------------------------------------------------------
(* The replies of a dispatch in the requests                                *)

\* Every message after h is a reply, and each call of an answer has its one
\* reply of that dispatch there.
TailReplies(msgs, n, ids, h) ==
    /\ h \in 0 .. Len(msgs)
    /\ \A i \in h + 1 .. Len(msgs) : msgs[i].role = "tool"
    /\ \A id \in ids : \E i \in h + 1 .. Len(msgs) : RepliesIn(msgs, n, id) = {i}

LEMMA KeptReply ==
    ASSUME NEW msgs \in Seq(Sound), NEW n, NEW id, id # NoId,
           NEW i, RepliesIn(msgs, n, id) = {i}, NEW S, S = Staying(msgs)
    PROVE  i \in S /\ RepliesIn(Kept(msgs), n, id) = {Rank(S, i)}
<1>1. PICK out : out = Kept(msgs)
  OBVIOUS
<1>2. /\ DOMAIN out = 1 .. Cardinality(S)
      /\ \A q \in DOMAIN out :
           Nth(S, q) \in S /\ Rank(S, Nth(S, q)) = q /\ out[q] = Clean(msgs[Nth(S, q)])
      /\ \A p \in S : Rank(S, p) \in DOMAIN out /\ out[Rank(S, p)] = Clean(msgs[p])
  BY <1>1, KeptIs
<1>3. i \in DOMAIN msgs /\ msgs[i].role = "tool" /\ msgs[i].answer = n /\ msgs[i].id = id
  BY DEF RepliesIn
<1>4. i \in S
  BY <1>3 DEF Staying
<1>5. \A p \in S : p \in DOMAIN msgs /\ msgs[p] \in Sound
  BY StayingPlaces
<1>6. Rank(S, i) \in RepliesIn(out, n, id)
  <2>1. Rank(S, i) \in DOMAIN out /\ out[Rank(S, i)] = Clean(msgs[i]) /\ msgs[i] \in Sound
    BY <1>2, <1>4, <1>5
  <2>2. out[Rank(S, i)].role = "tool" /\ out[Rank(S, i)].answer = n /\ out[Rank(S, i)].id = id
    BY <1>3, <2>1, CleanIs
  <2> QED  BY <2>1, <2>2 DEF RepliesIn
<1>7. ASSUME NEW q \in RepliesIn(out, n, id) PROVE q = Rank(S, i)
  <2>1. q \in DOMAIN out /\ out[q].role = "tool" /\ out[q].answer = n /\ out[q].id = id
    BY DEF RepliesIn
  <2>2. PICK p \in S : p = Nth(S, q) /\ Rank(S, p) = q /\ out[q] = Clean(msgs[p])
                       /\ p \in DOMAIN msgs /\ msgs[p] \in Sound
    BY <1>2, <1>5, <2>1
  <2>3. msgs[p].role = "tool" /\ msgs[p].answer = n /\ msgs[p].id = id
    BY <2>1, <2>2, CleanIs
  <2>4. p \in RepliesIn(msgs, n, id)
    BY <2>2, <2>3 DEF RepliesIn
  <2> QED  BY <2>2, <2>4
<1> QED  BY <1>1, <1>4, <1>6, <1>7

LEMMA KeptTail ==
    ASSUME NEW msgs \in Seq(Sound), NEW n, NEW ids, NoId \notin ids, NEW h, TailReplies(msgs, n, ids, h)
    PROVE  TailReplies(Kept(msgs), n, ids, Rank(Staying(msgs), h))
<1>1. PICK S, out : S = Staying(msgs) /\ out = Kept(msgs)
  OBVIOUS
<1>2. /\ DOMAIN out = 1 .. Cardinality(S) /\ Cardinality(S) \in Nat /\ Len(out) = Cardinality(S)
      /\ \A q \in DOMAIN out :
           Nth(S, q) \in S /\ Rank(S, Nth(S, q)) = q /\ out[q] = Clean(msgs[Nth(S, q)])
  BY <1>1, KeptIs
<1>3. Places(S) /\ \A p \in S : p \in DOMAIN msgs /\ p \in Nat /\ msgs[p] \in Sound
  BY <1>1, StayingPlaces
<1>4. PICK l \in Nat : l = Len(msgs) /\ DOMAIN msgs = 1 .. l
  OBVIOUS
<1>5. /\ h \in 0 .. l /\ h \in Nat
      /\ \A i \in h + 1 .. l : msgs[i].role = "tool"
      /\ \A id \in ids : \E i \in h + 1 .. l : RepliesIn(msgs, n, id) = {i}
  BY <1>4 DEF TailReplies
<1> DEFINE g == Rank(S, h)
<1>6. g \in 0 .. Len(out)
  <2>1. Rank(S, h) \in Nat
    BY <1>3, <1>5, RankStep
  <2>2. PICK m \in Nat : S \subseteq 1 .. m /\ Rank(S, m) = Cardinality(S)
    BY <1>3, RankEnds
  <2>3. h < m => Rank(S, h) <= Rank(S, m)
    BY <1>3, <1>5, <2>2, RankGrows
  <2>4. h > m => Rank(S, h) = Cardinality(S)
    <3>1. ASSUME h > m PROVE {x \in S : x <= h} = S
      <4>1. \A x \in S : x <= h
        BY <1>5, <2>2, <3>1
      <4> QED  BY <4>1, Zenon
    <3> QED  BY <3>1 DEF Rank
  <2> QED  BY <1>2, <1>5, <2>1, <2>2, <2>3, <2>4
<1>7. ASSUME NEW q \in g + 1 .. Len(out) PROVE out[q].role = "tool"
  <2>1. q \in DOMAIN out /\ q > g
    BY <1>2, <1>6
  <2>2. PICK p \in S : p = Nth(S, q) /\ Rank(S, p) = q /\ out[q] = Clean(msgs[p])
                       /\ p \in DOMAIN msgs /\ p \in Nat /\ msgs[p] \in Sound
    BY <1>2, <1>3, <2>1
  <2>3. p > h
    <3>1. p < h => Rank(S, p) <= Rank(S, h)
      BY <1>3, <1>5, <2>2, RankGrows
    <3> QED  BY <1>5, <1>6, <2>1, <2>2, <3>1
  <2>4. msgs[p].role = "tool"
    BY <1>4, <1>5, <2>2, <2>3
  <2> QED  BY <2>2, <2>4, CleanIs
<1>8. ASSUME NEW id \in ids PROVE \E q \in g + 1 .. Len(out) : RepliesIn(out, n, id) = {q}
  <2>1. PICK i \in h + 1 .. l : RepliesIn(msgs, n, id) = {i}
    BY <1>5
  <2>2. i \in S /\ RepliesIn(out, n, id) = {Rank(S, i)}
    BY <1>1, <2>1, KeptReply
  <2>3. Rank(S, h) < Rank(S, i)
    <3>1. i \in Nat /\ h < i
      BY <1>5
    <3> QED  BY <1>3, <1>5, <2>2, <3>1, RankGrows
  <2>4. Rank(S, i) \in 1 .. Cardinality(S)
    BY <1>3, <2>2, NthOfRank
  <2>5. Rank(S, i) \in g + 1 .. Len(out)
    BY <1>2, <1>6, <2>3, <2>4
  <2> QED  BY <2>2, <2>5
<1> HIDE DEF g
<1>9. TailReplies(out, n, ids, g)
  BY <1>6, <1>7, <1>8 DEF TailReplies
<1> QED  BY <1>1, <1>9 DEF g

\* The requests to OpenAI and Anthropic bring the replies to a dispatch.
LEMMA TailSent ==
    ASSUME NEW msgs \in Seq(Sound), NEW n, NEW ids, NoId \notin ids, ids # {},
           NEW h, TailReplies(msgs, n, ids, h)
    PROVE  /\ \A id \in ids : Cardinality(RepliesIn(Sanitized(msgs), n, id)) = 1
           /\ \E t \in DOMAIN Translated(Sanitized(msgs)) :
                /\ Translated(Sanitized(msgs))[t].role = "results"
                /\ \A id \in ids : RepliesIn(Translated(Sanitized(msgs))[t].of, n, id) # {}
<1>1. PICK out : out = Sanitized(msgs)
  OBVIOUS
<1>2. out \in Seq(Sound) /\ \E g : TailReplies(out, n, ids, g)
  <2>1. CASE out = msgs
    BY <2>1
  <2>2. CASE out = Kept(msgs)
    <3>1. Kept(msgs) \in Seq(Sound)
      BY KeptIs
    <3> QED  BY <2>2, <3>1, KeptTail
  <2> QED  BY <1>1, <2>1, <2>2, SanitizedIs
<1>3. PICK g : TailReplies(out, n, ids, g)
  BY <1>2
<1>4. PICK l \in Nat : l = Len(out) /\ DOMAIN out = 1 .. l
  BY <1>2
<1>5. /\ g \in 0 .. l /\ \A i \in g + 1 .. l : out[i].role = "tool"
      /\ \A id \in ids : \E i \in g + 1 .. l : RepliesIn(out, n, id) = {i}
  BY <1>3, <1>4 DEF TailReplies
<1>6. ASSUME NEW id \in ids
      PROVE  /\ Cardinality(RepliesIn(out, n, id)) = 1
             /\ \E j \in g + 1 .. l : /\ out[j].role = "tool" /\ out[j].answer = n /\ out[j].id = id
                                      /\ out[j].id # NoId
  <2>1. PICK i \in g + 1 .. l : RepliesIn(out, n, id) = {i}
    BY <1>5
  <2>2. out[i].role = "tool" /\ out[i].answer = n /\ out[i].id = id
    BY <2>1 DEF RepliesIn
  <2>3. Cardinality({i}) = 1
    BY FS_Singleton
  <2> QED  BY <2>1, <2>2, <2>3
<1>7. \E j \in g + 1 .. l : out[j].id # NoId
  BY <1>6
<1>8. PICK t \in DOMAIN Translated(out) :
        /\ Translated(out)[t].role = "results" /\ Translated(out)[t].of \in Seq(Sound)
        /\ Together(out, g, Translated(out)[t].of)
  BY <1>2, <1>4, <1>5, <1>7, TranslatedTail
<1>9. ASSUME NEW id \in ids PROVE RepliesIn(Translated(out)[t].of, n, id) # {}
  <2>1. PICK j \in g + 1 .. l : /\ out[j].role = "tool" /\ out[j].answer = n /\ out[j].id = id
                                /\ out[j].id # NoId
    BY <1>6
  <2>2. PICK i \in DOMAIN Translated(out)[t].of : Translated(out)[t].of[i] = out[j]
    BY <1>4, <1>8, <2>1 DEF Together
  <2>3. i \in RepliesIn(Translated(out)[t].of, n, id)
    BY <2>1, <2>2 DEF RepliesIn
  <2> QED  BY <2>3
<1> QED  BY <1>1, <1>6, <1>8, <1>9

----------------------------------------------------------------------------
(* The history, message by message                                          *)

\* The id of a call of answer n: the provider's own, or one of the recovered.
IdOf(id, n) == id # NoId /\ id[1] \in {0, n}

\* An answer that is dispatched makes calls; a reply is one to an answer whose
\* dispatch has ended, or the old reply to a phantom.
Placed(m, last, open) ==
    /\ m.role = "assistant" /\ m.answer # 0 =>
        /\ \A k \in DOMAIN m.calls : IdOf(m.calls[k].id, m.answer)
        /\ m.answer \in open => m.calls # <<>>
    /\ m.role = "tool" =>
        IF m.answer = 0 THEN m.id = NoId
        ELSE m.answer \in 1 .. last /\ m.answer \notin open /\ IdOf(m.id, m.answer)

MessageInv ==
    /\ history \in Seq(Sound)
    /\ \A i \in DOMAIN history : Placed(history[i], answers, openCalls)

IdsOf(n) == {CallsOf(n)[k].id : k \in DOMAIN CallsOf(n)}

PairInv ==
    /\ MessageInv
    /\ continues # 0 =>
        /\ continues \in 1 .. answers /\ DOMAIN CallsOf(continues) # {}
        /\ OwnIds(continues) => \E h : TailReplies(history, continues, IdsOf(continues), h)

\* The message of an answer.
LEMMA AnswerIs ==
    ASSUME HistoryInv, MessageInv, NEW n \in 1 .. answers
    PROVE  \E i \in DOMAIN history :
             /\ history[i] \in Sound /\ Answers(i, n) /\ \A j \in DOMAIN history : Answers(j, n) => j = i
             /\ CallsOf(n) = history[i].calls
             /\ \A k \in DOMAIN CallsOf(n) : CallsOf(n)[k].id \in Seq(Nat) /\ IdOf(CallsOf(n)[k].id, n)
             /\ n \in openCalls => DOMAIN CallsOf(n) # {}
<1>1. PICK i \in DOMAIN history : Answers(i, n) /\ \A j \in DOMAIN history : Answers(j, n) => j = i
  BY DEF HistoryInv, Stored
<1>2. CallsOf(n) = history[i].calls
  <2>1. (CHOOSE j \in DOMAIN history : Answers(j, n)) = i
    BY <1>1
  <2> QED  BY <2>1 DEF CallsOf
<1>3. history[i] \in Sound /\ Placed(history[i], answers, openCalls)
  BY DEF MessageInv
<1>4. history[i].role = "assistant" /\ history[i].answer = n /\ n # 0
  BY <1>1 DEF Answers
<1>5. /\ \A k \in DOMAIN history[i].calls : IdOf(history[i].calls[k].id, n)
      /\ n \in openCalls => history[i].calls # <<>>
  BY <1>3, <1>4 DEF Placed
<1>6. /\ \A k \in DOMAIN history[i].calls : history[i].calls[k].id \in Seq(Nat)
      /\ history[i].calls # <<>> => DOMAIN history[i].calls # {}
  <2>1. PICK m \in Sound : m = history[i]
    BY <1>3
  <2>2. PICK l \in Nat : l = Len(m.calls) /\ DOMAIN m.calls = 1 .. l /\ (m.calls = <<>> <=> l = 0)
    BY SoundCalls
  <2>3. l # 0 => 1 \in 1 .. l
    OBVIOUS
  <2> QED  BY <2>1, <2>2, <2>3, SoundCalls
<1> QED  BY <1>1, <1>2, <1>3, <1>5, <1>6

\* A reply with the id that a provider gave a call of answer n is a reply to
\* answer n, whose dispatch has ended.
LEMMA ReplyOfOwn ==
    ASSUME MessageInv, NEW i \in DOMAIN history, history[i].role = "tool",
           NEW n \in 1 .. answers, NEW k, history[i].id = <<n, k>>
    PROVE  n \notin openCalls
<1>1. Placed(history[i], answers, openCalls)
  BY DEF MessageInv
<1>2. <<n, k>> # NoId /\ <<n, k>>[1] = n /\ n # 0
  BY DEF NoId
<1>3. history[i].answer = n
  BY <1>1, <1>2 DEF Placed, IdOf
<1> QED  BY <1>1, <1>2, <1>3 DEF Placed

----------------------------------------------------------------------------
(* The replies land                                                         *)

\* What a dispatch writes: replies to its calls, one each or some of them.
RepliesOf(n, results) ==
    results \in Seq({Result(n, id) : id \in IdsOf(n)})
OneEach(n, results) ==
    \A id \in IdsOf(n) : \E i \in DOMAIN results :
        results[i].id = id /\ \A j \in DOMAIN results : results[j].id = id => j = i

LEMMA ResultIs ==
    ASSUME NEW n \in Nat, NEW id \in Seq(Nat)
    PROVE  /\ Result(n, id) \in Sound
           /\ Result(n, id).role = "tool" /\ Result(n, id).answer = n /\ Result(n, id).id = id
<1>1. PICK none \in Seq(Call) : none = <<>> /\ DOMAIN none = {}
  <2>1. <<>> \in Seq(Call) /\ DOMAIN <<>> = {}
    OBVIOUS
  <2> QED  BY <2>1
<1>2. Result(n, id) = [role |-> "tool", answer |-> n, calls |-> none, id |-> id]
  BY <1>1 DEF Result
<1>3. Result(n, id) \in Message /\ Result(n, id).calls = none
  BY <1>2 DEF Message
<1>4. Result(n, id) \in Sound
  BY <1>1, <1>3 DEF Sound, Proper
<1> QED  BY <1>2, <1>4

LEMMA RepliesLanded ==
    ASSUME HistoryInv, MessageInv, NEW n \in openCalls, NEW results, RepliesOf(n, results),
           ContinueWith(n, results), OwnIds(n) => OneEach(n, results)
    PROVE  PairInv'
<1>1. n \in 1 .. answers /\ n \in Nat /\ n # 0 /\ answers \in Nat
  BY ModelCallsAssumption DEF HistoryInv
<1>2. PICK a \in DOMAIN history :
        /\ Answers(a, n) /\ \A j \in DOMAIN history : Answers(j, n) => j = a
        /\ CallsOf(n) = history[a].calls
        /\ \A k \in DOMAIN CallsOf(n) : CallsOf(n)[k].id \in Seq(Nat) /\ IdOf(CallsOf(n)[k].id, n)
        /\ DOMAIN CallsOf(n) # {}
  BY <1>1, AnswerIs
<1>3. \A id \in IdsOf(n) : id \in Seq(Nat) /\ IdOf(id, n)
  BY <1>2 DEF IdsOf
<1>4. /\ history' = history \o results /\ openCalls' = openCalls \ {n} /\ continues' = n
      /\ answers' = answers
  BY DEF ContinueWith
<1>5. PICK l \in Nat : l = Len(history) /\ DOMAIN history = 1 .. l /\ history \in Seq(Sound)
  BY DEF MessageInv
<1> DEFINE R == {Result(n, id) : id \in IdsOf(n)}
<1>6. \A m \in R : /\ m \in Sound /\ m.role = "tool" /\ m.answer = n
                   /\ \E id \in IdsOf(n) : m.id = id /\ IdOf(id, n)
  BY <1>1, <1>3, ResultIs
<1>7. results \in Seq(R)
  BY DEF RepliesOf
<1> HIDE DEF R
<1>8. PICK r \in Nat : r = Len(results) /\ DOMAIN results = 1 .. r
                       /\ \A i \in 1 .. r : results[i] \in R
  BY <1>7
<1>9. results \in Seq(Sound)
  BY <1>6, <1>7
<1>10. /\ history' \in Seq(Sound) /\ Len(history') = l + r /\ DOMAIN history' = 1 .. l + r
       /\ \A i \in 1 .. l : history'[i] = history[i]
       /\ \A i \in 1 .. r : history'[l + i] = results[i]
  BY <1>4, <1>5, <1>8, <1>9
<1>11. \A i \in 1 .. l + r : i \in 1 .. l \/ (i - l \in 1 .. r /\ l + (i - l) = i /\ i \in l + 1 .. l + r)
  OBVIOUS
\* The replies are those of answer n.
<1>12. ASSUME NEW i \in 1 .. l + r, i - l \in 1 .. r
       PROVE  /\ history'[i] = results[i - l]
              /\ history'[i].role = "tool" /\ history'[i].answer = n /\ IdOf(history'[i].id, n)
  <2>1. l + (i - l) = i
    OBVIOUS
  <2>2. history'[i] = results[i - l] /\ results[i - l] \in R
    BY <1>8, <1>10, <1>12, <2>1
  <2> QED  BY <1>6, <2>2
<1>13. MessageInv'
  <2>1. ASSUME NEW i \in DOMAIN history' PROVE Placed(history'[i], answers, openCalls \ {n})
    <3>1. CASE i \in 1 .. l
      <4>1. history'[i] = history[i] /\ Placed(history[i], answers, openCalls)
        BY <1>5, <1>10, <3>1 DEF MessageInv
      <4> QED  BY <4>1 DEF Placed
    <3>2. CASE i - l \in 1 .. r
      <4>1. history'[i].role = "tool" /\ history'[i].answer = n /\ IdOf(history'[i].id, n)
        BY <1>10, <1>12, <3>2
      <4> QED  BY <1>1, <4>1 DEF Placed
    <3> QED  BY <1>10, <1>11, <3>1, <3>2
  <2> QED  BY <1>4, <1>10, <2>1 DEF MessageInv
\* The answer's calls are where they were.
<1>14. CallsOf(n)' = CallsOf(n)
  <2>1. a \in 1 .. l /\ history'[a] = history[a]
    BY <1>5, <1>10
  <2>2. ASSUME NEW j \in DOMAIN history', history'[j].role = "assistant" /\ history'[j].answer = n
        PROVE  j = a
    <3>1. j \in 1 .. l
      BY <1>10, <1>11, <1>12, <2>2
    <3> QED  BY <1>2, <1>5, <1>10, <2>2, <3>1 DEF Answers
  <2>3. (CHOOSE j \in DOMAIN history' : history'[j].role = "assistant" /\ history'[j].answer = n) = a
    BY <1>2, <1>10, <1>11, <2>1, <2>2 DEF Answers
  <2> QED  BY <1>2, <2>1, <2>3 DEF CallsOf, Answers
<1>15. ASSUME OwnIds(n) PROVE TailReplies(history', n, IdsOf(n), l)
  <2>1. \A i \in l + 1 .. l + r : history'[i].role = "tool"
    BY <1>12
  <2>2. ASSUME NEW id \in IdsOf(n) PROVE \E i \in l + 1 .. l + r : RepliesIn(history', n, id) = {i}
    <3>1. PICK p \in 1 .. r : results[p].id = id /\ \A j \in 1 .. r : results[j].id = id => j = p
      BY <1>8, <1>15 DEF OneEach
    <3>2. l + p \in 1 .. l + r /\ (l + p) - l = p /\ l + p \in l + 1 .. l + r
      OBVIOUS
    <3>3. l + p \in RepliesIn(history', n, id)
      <4>1. history'[l + p].role = "tool" /\ history'[l + p].answer = n /\ history'[l + p].id = id
        BY <1>12, <3>1, <3>2
      <4> QED  BY <1>10, <3>2, <4>1 DEF RepliesIn
    <3>4. ASSUME NEW j \in RepliesIn(history', n, id) PROVE j = l + p
      <4>1. j \in 1 .. l + r /\ history'[j].role = "tool" /\ history'[j].answer = n /\ history'[j].id = id
        BY <1>10 DEF RepliesIn
      <4>2. ~(j \in 1 .. l)
        <5>1. ASSUME j \in 1 .. l PROVE FALSE
          <6>1. history[j].role = "tool" /\ history[j].answer = n /\ Placed(history[j], answers, openCalls)
            BY <1>5, <1>10, <4>1, <5>1 DEF MessageInv
          <6> QED  BY <1>1, <6>1 DEF Placed
        <5> QED  BY <5>1
      <4>3. j - l \in 1 .. r /\ l + (j - l) = j
        BY <1>11, <4>1, <4>2
      <4>4. results[j - l].id = id
        BY <1>12, <4>1, <4>3
      <4>5. j - l = p
        BY <3>1, <4>3, <4>4
      <4> QED  BY <4>3, <4>5
    <3> QED  BY <3>2, <3>3, <3>4
  <2>3. l \in 0 .. l + r
    OBVIOUS
  <2> QED  BY <1>10, <2>1, <2>2, <2>3 DEF TailReplies
<1>16. OwnIds(n)' = OwnIds(n) /\ IdsOf(n)' = IdsOf(n)
  BY <1>14 DEF OwnIds, IdsOf
<1>17. continues' # 0 => /\ continues' \in 1 .. answers' /\ DOMAIN CallsOf(continues)' # {}
                         /\ OwnIds(continues)' => \E h : TailReplies(history', continues', IdsOf(continues)', h)
  <2>1. CallsOf(continues)' = CallsOf(n)' /\ OwnIds(continues)' = OwnIds(n)' /\ IdsOf(continues)' = IdsOf(n)'
    BY <1>4 DEF CallsOf, OwnIds, IdsOf, Answers
  <2> QED  BY <1>1, <1>2, <1>4, <1>14, <1>15, <1>16, <2>1
<1> QED  BY <1>13, <1>17 DEF PairInv

\* The replies to the calls ks of an answer, in their order.
LEMMA InOrderIs ==
    ASSUME HistoryInv, MessageInv, NEW n \in openCalls, NEW ks, ks \subseteq DOMAIN CallsOf(n)
    PROVE  /\ RepliesOf(n, InOrder(n, ks)) /\ Places(ks) /\ Cardinality(ks) \in Nat
           /\ Len(InOrder(n, ks)) = Cardinality(ks)
           /\ DOMAIN InOrder(n, ks) = 1 .. Cardinality(ks)
           /\ \A i \in 1 .. Cardinality(ks) :
                /\ Nth(ks, i) \in ks /\ Rank(ks, Nth(ks, i)) = i
                /\ InOrder(n, ks)[i].id = CallsOf(n)[Nth(ks, i)].id
<1>1. n \in 1 .. answers /\ n \in Nat
  BY DEF HistoryInv
<1>2. PICK a \in DOMAIN history :
        /\ history[a] \in Sound /\ CallsOf(n) = history[a].calls
        /\ \A k \in DOMAIN CallsOf(n) : CallsOf(n)[k].id \in Seq(Nat)
  BY <1>1, AnswerIs
<1>3. PICK l \in Nat : DOMAIN CallsOf(n) = 1 .. l
  BY <1>2, SoundCalls
<1>4. Places(ks)
  BY <1>3 DEF Places
<1>5. PICK c \in Nat : c = Cardinality(ks)
  BY <1>4, PlacesFinite
<1>6. \A i \in 1 .. c : Nth(ks, i) \in ks /\ Rank(ks, Nth(ks, i)) = i
  BY <1>4, <1>5, RankOfNth
<1> DEFINE T == {Result(n, id) : id \in IdsOf(n)}
           F(i) == Result(n, CallsOf(n)[Nth(ks, i)].id)
<1>7. ASSUME NEW i \in 1 .. c PROVE F(i) \in T /\ F(i).id = CallsOf(n)[Nth(ks, i)].id
  <2>1. PICK k \in DOMAIN CallsOf(n) : k = Nth(ks, i)
    BY <1>6
  <2>2. CallsOf(n)[k].id \in IdsOf(n) /\ CallsOf(n)[k].id \in Seq(Nat)
    BY <1>2 DEF IdsOf
  <2>3. Result(n, CallsOf(n)[k].id).id = CallsOf(n)[k].id
    BY <1>1, <2>2, ResultIs
  <2> QED  BY <2>1, <2>2, <2>3
<1>8. InOrder(n, ks) = [i \in 1 .. c |-> F(i)]
  BY <1>5 DEF InOrder
<1> HIDE DEF T, F
<1>9. PICK s : s = [i \in 1 .. c |-> F(i)]
  OBVIOUS
<1>10. s \in Seq(T) /\ Len(s) = c /\ DOMAIN s = 1 .. c /\ \A i \in 1 .. c : s[i] = F(i)
  BY <1>7, <1>9
<1>11. RepliesOf(n, s)
  BY <1>10 DEF RepliesOf, T
<1> QED  BY <1>4, <1>5, <1>6, <1>7, <1>8, <1>9, <1>10, <1>11

\* All the calls, in two lots: one reply to each.
LEMMA TwoLots ==
    ASSUME HistoryInv, MessageInv, NEW n \in openCalls,
           NEW A, NEW B, A \cup B = DOMAIN CallsOf(n), A \cap B = {}
    PROVE  LET results == InOrder(n, A) \o InOrder(n, B)
           IN RepliesOf(n, results) /\ (OwnIds(n) => OneEach(n, results))
<1>1. PICK s : s = InOrder(n, A)
  OBVIOUS
<1>2. PICK t : t = InOrder(n, B)
  OBVIOUS
<1>3. PICK a \in Nat : a = Cardinality(A) /\ Places(A) /\ RepliesOf(n, s) /\ Len(s) = a /\ DOMAIN s = 1 .. a
        /\ \A i \in 1 .. a : Nth(A, i) \in A /\ Rank(A, Nth(A, i)) = i /\ s[i].id = CallsOf(n)[Nth(A, i)].id
  <2>1. A \subseteq DOMAIN CallsOf(n)
    OBVIOUS
  <2> QED  BY <1>1, <2>1, InOrderIs
<1>4. PICK b \in Nat : b = Cardinality(B) /\ Places(B) /\ RepliesOf(n, t) /\ Len(t) = b /\ DOMAIN t = 1 .. b
        /\ \A i \in 1 .. b : Nth(B, i) \in B /\ Rank(B, Nth(B, i)) = i /\ t[i].id = CallsOf(n)[Nth(B, i)].id
  <2>1. B \subseteq DOMAIN CallsOf(n)
    OBVIOUS
  <2> QED  BY <1>2, <2>1, InOrderIs
<1> DEFINE R == {Result(n, id) : id \in IdsOf(n)}
           r == s \o t
<1>5. s \in Seq(R) /\ t \in Seq(R)
  BY <1>3, <1>4 DEF RepliesOf
<1> HIDE DEF R
<1>6. /\ r \in Seq(R) /\ DOMAIN r = 1 .. a + b
      /\ \A i \in 1 .. a : r[i] = s[i]
      /\ \A i \in 1 .. b : r[a + i] = t[i]
  <2>1. Len(s) = a /\ Len(t) = b
    BY <1>3, <1>4
  <2> QED  BY <1>5, <2>1
<1> HIDE DEF r
<1>7. \A i \in 1 .. a + b : i \in 1 .. a \/ (i - a \in 1 .. b /\ a + (i - a) = i)
  OBVIOUS
<1>8. ASSUME OwnIds(n) PROVE OneEach(n, r)
  <2>1. \A k \in A \cup B : CallsOf(n)[k].id = <<n, k>>
    BY <1>8 DEF OwnIds
  <2>2. \A i \in 1 .. a : r[i].id = <<n, Nth(A, i)>> /\ Nth(A, i) \in A
    BY <1>3, <1>6, <2>1
  <2>3. \A i \in 1 .. b : r[a + i].id = <<n, Nth(B, i)>> /\ Nth(B, i) \in B
    BY <1>4, <1>6, <2>1
  <2>4. ASSUME NEW k \in A \cup B
        PROVE  \E i \in 1 .. a + b : r[i].id = <<n, k>> /\ \A j \in 1 .. a + b : r[j].id = <<n, k>> => j = i
    <3>1. CASE k \in A
      <4>1. PICK i \in 1 .. a : i = Rank(A, k) /\ Nth(A, i) = k
        BY <1>3, <3>1, NthOfRank
      <4>2. i \in 1 .. a + b /\ r[i].id = <<n, k>>
        BY <2>2, <4>1
      <4>3. ASSUME NEW j \in 1 .. a + b, r[j].id = <<n, k>> PROVE j = i
        <5>1. CASE j \in 1 .. a
          <6>1. Nth(A, j) = k
            BY <2>2, <4>3, <5>1
          <6> QED  BY <1>3, <4>1, <5>1, <6>1
        <5>2. CASE j - a \in 1 .. b /\ a + (j - a) = j
          <6>1. Nth(B, j - a) = k /\ Nth(B, j - a) \in B
            BY <2>3, <4>3, <5>2
          <6> QED  BY <3>1, <6>1
        <5> QED  BY <1>7, <5>1, <5>2
      <4> QED  BY <4>2, <4>3
    <3>2. CASE k \in B
      <4>1. PICK i \in 1 .. b : i = Rank(B, k) /\ Nth(B, i) = k
        BY <1>4, <3>2, NthOfRank
      <4>2. a + i \in 1 .. a + b /\ r[a + i].id = <<n, k>>
        BY <2>3, <4>1
      <4>3. ASSUME NEW j \in 1 .. a + b, r[j].id = <<n, k>> PROVE j = a + i
        <5>1. CASE j \in 1 .. a
          <6>1. Nth(A, j) = k /\ Nth(A, j) \in A
            BY <2>2, <4>3, <5>1
          <6> QED  BY <3>2, <6>1
        <5>2. CASE j - a \in 1 .. b /\ a + (j - a) = j
          <6>1. Nth(B, j - a) = k
            BY <2>3, <4>3, <5>2
          <6>2. j - a = i
            BY <1>4, <4>1, <5>2, <6>1
          <6> QED  BY <5>2, <6>2
        <5> QED  BY <1>7, <5>1, <5>2
      <4> QED  BY <4>2, <4>3
    <3> QED  BY <3>1, <3>2
  <2>5. ASSUME NEW id \in IdsOf(n)
        PROVE  \E i \in DOMAIN r : r[i].id = id /\ \A j \in DOMAIN r : r[j].id = id => j = i
    <3>1. PICK k \in A \cup B : id = <<n, k>>
      BY <2>1 DEF IdsOf
    <3> QED  BY <1>6, <2>4, <3>1
  <2> QED  BY <2>5 DEF OneEach
<1>9. RepliesOf(n, r)
  BY <1>6 DEF RepliesOf, R
<1> QED  BY <1>1, <1>2, <1>8, <1>9 DEF r

LEMMA AllLanded == ASSUME HistoryInv, MessageInv, RepliesLand PROVE PairInv'
<1>0. PICK n \in openCalls : \E atOnce \in SUBSET DOMAIN CallsOf(n) :
        ContinueWith(n, InOrder(n, atOnce) \o InOrder(n, DOMAIN CallsOf(n) \ atOnce))
  BY DEF RepliesLand
<1>1. PICK A \in SUBSET DOMAIN CallsOf(n) :
        ContinueWith(n, InOrder(n, A) \o InOrder(n, DOMAIN CallsOf(n) \ A))
  BY <1>0
<1>2. PICK B : B = DOMAIN CallsOf(n) \ A
  OBVIOUS
<1>3. PICK results : results = InOrder(n, A) \o InOrder(n, B)
  OBVIOUS
<1>4. RepliesOf(n, results) /\ (OwnIds(n) => OneEach(n, results))
  <2>1. A \cup B = DOMAIN CallsOf(n) /\ A \cap B = {}
    BY <1>2
  <2> QED  BY <1>3, <2>1, TwoLots
<1> QED  BY <1>1, <1>2, <1>3, <1>4, RepliesLanded

\* No call with an id of its own is answered while its dispatch is open.
LEMMA MissingLanded == ASSUME HistoryInv, MessageInv, DispatchDies PROVE PairInv'
<1>1. PICK n \in openCalls : ContinueWith(n, InOrder(n, Missing(n)))
  BY DEF DispatchDies
<1>2. PICK s : s = InOrder(n, Missing(n))
  OBVIOUS
<1>3. Missing(n) \subseteq DOMAIN CallsOf(n)
  BY DEF Missing
<1>4. RepliesOf(n, s)
  BY <1>2, <1>3, InOrderIs
<1>5. ASSUME OwnIds(n) PROVE OneEach(n, s)
  <2>1. ASSUME NEW k \in DOMAIN CallsOf(n), Replied(CallsOf(n)[k].id) PROVE FALSE
    <3>1. CallsOf(n)[k].id = <<n, k>>
      BY <1>5 DEF OwnIds
    <3>2. PICK i \in DOMAIN history : history[i].role = "tool" /\ history[i].id = <<n, k>>
      BY <2>1, <3>1 DEF Replied
    <3>3. n \in 1 .. answers
      BY DEF HistoryInv
    <3> QED  BY <3>2, <3>3, ReplyOfOwn
  <2>2. Missing(n) = DOMAIN CallsOf(n)
    BY <2>1 DEF Missing
  <2>3. InOrder(n, {}) = <<>>
    <3>1. Cardinality({}) = 0 /\ 1 .. 0 = {}
      BY FS_EmptySet
    <3>2. InOrder(n, {}) = [i \in 1 .. 0 |-> Result(n, CallsOf(n)[Nth({}, i)].id)]
      BY <3>1 DEF InOrder
    <3> QED  BY <3>1, <3>2
  <2>4. s \o <<>> = s
    <3>1. \A R : \A r \in Seq(R) : r \o <<>> = r
      OBVIOUS
    <3> QED  BY <1>4, <3>1 DEF RepliesOf
  <2>5. PICK A, B : A = Missing(n) /\ B = {}
    OBVIOUS
  <2>6. A \cup B = DOMAIN CallsOf(n) /\ A \cap B = {}
    BY <2>2, <2>5
  <2>7. OneEach(n, InOrder(n, A) \o InOrder(n, B))
    BY <1>5, <2>6, TwoLots
  <2> QED  BY <1>2, <2>3, <2>4, <2>5, <2>7
<1> QED  BY <1>1, <1>2, <1>4, <1>5, RepliesLanded

----------------------------------------------------------------------------
(* The other steps                                                          *)

LEMMA NoneContinued ==
    ASSUME MessageInv', continues' = 0 PROVE PairInv'
BY DEF PairInv

LEMMA HistoryStays ==
    ASSUME MessageInv, UNCHANGED <<history, answers>>, openCalls' \subseteq openCalls
    PROVE  MessageInv'
<1>1. ASSUME NEW i \in DOMAIN history PROVE Placed(history[i], answers, openCalls')
  <2>1. Placed(history[i], answers, openCalls)
    BY DEF MessageInv
  <2> QED  BY <2>1 DEF Placed
<1> QED  BY <1>1 DEF MessageInv

LEMMA QuestionIs ==
    Question \in Sound /\ \A last, open : Placed(Question, last, open)
<1>1. PICK none \in Seq(Call) : none = <<>> /\ DOMAIN none = {}
  <2>1. <<>> \in Seq(Call) /\ DOMAIN <<>> = {}
    OBVIOUS
  <2> QED  BY <2>1
<1>2. NoId \in Seq(Nat)
  BY DEF NoId
<1>3. Question = [role |-> "user", answer |-> 0, calls |-> none, id |-> NoId]
  BY <1>1 DEF Question
<1>4. Question \in Message /\ Question.calls = none /\ Question.role = "user"
  BY <1>2, <1>3 DEF Message
<1>5. Question \in Sound
  BY <1>1, <1>4 DEF Sound, Proper
<1> QED  BY <1>4, <1>5 DEF Placed

LEMMA QuestionAsked == ASSUME MessageInv, AskSession PROVE MessageInv'
<1>1. /\ history' = Append(history, Question) /\ openCalls' = openCalls /\ answers' = answers
  BY DEF AskSession
<1>2. PICK l \in Nat : l = Len(history) /\ DOMAIN history = 1 .. l /\ history \in Seq(Sound)
  BY DEF MessageInv
<1>3. /\ history' \in Seq(Sound) /\ DOMAIN history' = 1 .. l + 1 /\ history'[l + 1] = Question
      /\ \A i \in 1 .. l : history'[i] = history[i]
  BY <1>1, <1>2, QuestionIs
<1>4. \A i \in 1 .. l + 1 : i = l + 1 \/ i \in 1 .. l
  OBVIOUS
<1>5. ASSUME NEW i \in DOMAIN history' PROVE Placed(history'[i], answers, openCalls)
  <2>1. CASE i = l + 1
    BY <1>3, <2>1, QuestionIs
  <2>2. CASE i \in 1 .. l
    BY <1>2, <1>3, <2>2 DEF MessageInv
  <2> QED  BY <1>3, <1>4, <2>1, <2>2
<1> QED  BY <1>1, <1>3, <1>5 DEF MessageInv

\* The calls that an answer brings have names, and ids of that answer.
Own(calls, n) ==
    /\ calls \in Seq(Call)
    /\ \A k \in DOMAIN calls : Named(calls[k].args) /\ IdOf(calls[k].id, n)

LEMMA SaysIs ==
    ASSUME NEW n \in Nat, n # 0, NEW calls, Own(calls, n)
    PROVE  /\ Says(n, calls) \in Sound /\ Says(n, calls).role = "assistant"
           /\ Says(n, calls).answer = n /\ Says(n, calls).calls = calls
<1>1. NoId \in Seq(Nat)
  BY DEF NoId
<1>2. calls \in Seq(Call)
  BY DEF Own
<1>3. Says(n, calls) = [role |-> "assistant", answer |-> n, calls |-> calls, id |-> NoId]
  BY DEF Says
<1>4. Says(n, calls) \in Message /\ Says(n, calls).calls = calls /\ Says(n, calls).role = "assistant"
      /\ Says(n, calls).answer = n
  BY <1>1, <1>2, <1>3 DEF Message
<1>5. Proper(Says(n, calls))
  BY <1>4 DEF Proper, Own, IdOf
<1> QED  BY <1>4, <1>5 DEF Sound

LEMMA AnswerPlaced ==
    ASSUME HistoryInv, MessageInv, NEW calls, NEW k, NEW dispatch, Store(calls, k, dispatch),
           Own(calls, answers + 1)
    PROVE  MessageInv'
<1> DEFINE new == answers + 1
           m == Says(new, calls)
<1>1. /\ answers' = new /\ history' = Append(history, m)
      /\ openCalls' = IF dispatch /\ calls # <<>> THEN openCalls \cup {new} ELSE openCalls
  BY DEF Store
<1>2. answers \in Nat /\ new \in Nat /\ new # 0
  BY ModelCallsAssumption DEF HistoryInv
<1>3. m \in Sound /\ m.role = "assistant" /\ m.answer = new /\ m.calls = calls
  BY <1>2, SaysIs
<1>4. PICK l \in Nat : l = Len(history) /\ DOMAIN history = 1 .. l /\ history \in Seq(Sound)
  BY DEF MessageInv
<1> HIDE DEF m
<1>5. /\ history' \in Seq(Sound) /\ DOMAIN history' = 1 .. l + 1 /\ history'[l + 1] = m
      /\ \A i \in 1 .. l : history'[i] = history[i]
  BY <1>1, <1>3, <1>4
<1>6. \A i \in 1 .. l + 1 : i = l + 1 \/ i \in 1 .. l
  OBVIOUS
<1>7. ASSUME NEW i \in DOMAIN history' PROVE Placed(history'[i], new, openCalls')
  <2>1. CASE i = l + 1
    <3>1. history'[i] = m
      BY <1>5, <2>1
    <3>2. \A c \in DOMAIN calls : IdOf(calls[c].id, new)
      BY DEF Own
    <3>3. new \in openCalls' => calls # <<>>
      <4>1. new \notin openCalls
        BY <1>2 DEF HistoryInv
      <4> QED  BY <1>1, <4>1
    <3> HIDE DEF new
    <3> QED  BY <1>3, <3>1, <3>2, <3>3 DEF Placed
  <2>2. CASE i \in 1 .. l
    <3>1. history'[i] = history[i] /\ Placed(history[i], answers, openCalls)
      BY <1>4, <1>5, <2>2 DEF MessageInv
    <3>2. history[i].role = "assistant" => history[i].answer \in 0 .. answers
      BY <1>4, <2>2 DEF HistoryInv
    <3>3. PICK x : x = history[i]
      OBVIOUS
    <3>4. /\ x.role = "assistant" => x.answer # new
          /\ x.role = "tool" /\ x.answer # 0 => x.answer \in 1 .. new /\ x.answer # new
      BY <1>2, <3>1, <3>2, <3>3 DEF Placed
    <3>5. x.answer # new => (x.answer \in openCalls' <=> x.answer \in openCalls)
      BY <1>1
    <3> HIDE DEF new
    <3> QED  BY <3>1, <3>3, <3>4, <3>5 DEF Placed
  <2> QED  BY <1>5, <1>6, <2>1, <2>2
<1> QED  BY <1>1, <1>5, <1>7 DEF MessageInv

LEMMA AssembledOwn ==
    ASSUME HandInv, Streams, NEW n \in Nat, n # 0
    PROVE  Own(Assembled(n), n)
<1>1. PICK b \in 0 .. hand.calls :
        Assembled(n) = [c \in 1 .. b |-> [id |-> <<n, c>>, args |-> Got(hand.sent, c)]]
  BY CallsSoFar
<1>2. b \in Nat
  BY ModelCallsAssumption DEF HandInv
<1> DEFINE F(c) == [id |-> <<n, c>>, args |-> Got(hand.sent, c)]
<1>3. ASSUME NEW c \in 1 .. b PROVE F(c) \in Call /\ Named(F(c).args) /\ IdOf(F(c).id, n)
  <2>1. c \in Nat
    BY <1>2
  <2>2. Got(hand.sent, c) \in Seq(Seq(Nat))
    <3>1. <<c, 1>> \in Seq(Nat) /\ <<c, 2>> \in Seq(Nat)
      BY <2>1
    <3>2. \A p, q \in Seq(Nat) : <<p>> \in Seq(Seq(Nat)) /\ <<p, q>> \in Seq(Seq(Nat))
      OBVIOUS
    <3> QED  BY <3>1, <3>2 DEF Got, Whole
  <2>3. <<n, c>> \in Seq(Nat) /\ <<n, c>> # NoId /\ <<n, c>>[1] = n
    BY <2>1 DEF NoId
  <2>4. Named(Got(hand.sent, c))
    BY FirstPieces
  <2> QED  BY <2>2, <2>3, <2>4 DEF Call, IdOf
<1> HIDE DEF F
<1>4. Assembled(n) = [c \in 1 .. b |-> F(c)]
  BY <1>1 DEF F
<1>5. Assembled(n) \in Seq(Call) /\ DOMAIN Assembled(n) = 1 .. b
      /\ \A c \in 1 .. b : Assembled(n)[c] = F(c)
  BY <1>2, <1>3, <1>4
<1> QED  BY <1>3, <1>5 DEF Own

LEMMA RecoveredOwn ==
    ASSUME NEW b \in Nat, NEW n \in Nat
    PROVE  Own(Recovered(b), n)
<1> DEFINE F(c) == [id |-> <<0, c>>, args |-> Whole(c)]
<1>3. ASSUME NEW c \in 1 .. b PROVE F(c) \in Call /\ Named(F(c).args) /\ IdOf(F(c).id, n)
  <2>1. c \in Nat
    OBVIOUS
  <2>2. Whole(c) \in Seq(Seq(Nat)) /\ Named(Whole(c))
    <3>1. <<c, 1>> \in Seq(Nat) /\ <<c, 2>> \in Seq(Nat)
      BY <2>1
    <3>2. \A p, q \in Seq(Nat) : <<p, q>> \in Seq(Seq(Nat)) /\ 1 \in DOMAIN <<p, q>> /\ <<p, q>>[1] = p
      OBVIOUS
    <3> QED  BY <3>1, <3>2 DEF Whole, Named
  <2>3. <<0, c>> \in Seq(Nat) /\ <<0, c>> # NoId /\ <<0, c>>[1] = 0
    BY <2>1 DEF NoId
  <2> QED  BY <2>2, <2>3 DEF Call, IdOf
<1> HIDE DEF F
<1>4. Recovered(b) = [c \in 1 .. b |-> F(c)]
  BY DEF Recovered, F
<1>5. Recovered(b) \in Seq(Call) /\ DOMAIN Recovered(b) = 1 .. b
      /\ \A c \in 1 .. b : Recovered(b)[c] = F(c)
  BY <1>3, <1>4
<1> QED  BY <1>3, <1>5 DEF Own

LEMMA AnswerStays ==
    ASSUME CallsInv, MessageInv, AnswerDone \/ AnswerTruncated \/ StreamEndsEarly \/ AnswerInMarkup
    PROVE  MessageInv' /\ continues' = 0
<1>1. Streams /\ HandInv /\ HistoryInv
  BY DEF AnswerDone, AnswerTruncated, StreamEndsEarly, AnswerInMarkup, CallsInv
<1>2. answers + 1 \in Nat /\ answers + 1 # 0 /\ hand.calls \in Nat
  BY <1>1, ModelCallsAssumption DEF HistoryInv, HandInv
<1>3. PICK calls : Own(calls, answers + 1) /\ \E k, dispatch : Store(calls, k, dispatch)
  <2>1. Own(Assembled(answers + 1), answers + 1) /\ Own(Recovered(hand.calls), answers + 1)
    BY <1>1, <1>2, AssembledOwn, RecoveredOwn
  <2> QED  BY <2>1 DEF AnswerDone, AnswerTruncated, StreamEndsEarly, AnswerInMarkup
<1>4. PICK k, dispatch : Store(calls, k, dispatch)
  BY <1>3
<1>5. continues' = 0
  BY <1>4 DEF Store
<1> QED  BY <1>1, <1>3, <1>4, <1>5, AnswerPlaced

LEMMA PairInitially == ModelInit => PairInv
<1> SUFFICES ASSUME ModelInit PROVE PairInv
  OBVIOUS
<1>1. continues = 0 /\ answers = 0 /\ openCalls = {}
  BY DEF ModelInit
<1>2. CASE history = <<>>
  <2>1. history \in Seq(Sound) /\ DOMAIN history = {}
    BY <1>2
  <2> QED  BY <1>1, <2>1 DEF PairInv, MessageInv
<1>3. CASE history = Legacy
  <2> DEFINE says == Says(0, Phantom)
             reply == Result(0, NoId)
  <2>1. NoId \in Seq(Nat) /\ 0 \in Nat
    BY DEF NoId
  <2>2. says \in Sound /\ Placed(says, 0, {})
    <3>1. Phantom \in Seq(Call)
      <4>1. <<>> \in Seq(Seq(Nat)) /\ <<>> \in Seq(Nat)
        OBVIOUS
      <4>2. [id |-> NoId, args |-> <<>>] \in Call
        BY <4>1 DEF NoId, Call
      <4>3. \A c \in Call : <<c>> \in Seq(Call)
        OBVIOUS
      <4> QED  BY <4>2, <4>3 DEF Phantom
    <3>2. PICK calls \in Seq(Call) : calls = Phantom
      BY <3>1
    <3>3. says = [role |-> "assistant", answer |-> 0, calls |-> calls, id |-> NoId]
      BY <3>2 DEF Says
    <3> HIDE DEF says
    <3>4. says \in Message /\ says.calls = calls /\ says.role = "assistant" /\ says.answer = 0
      BY <2>1, <3>3 DEF Message
    <3>5. says \in Sound
      BY <3>2, <3>4 DEF Sound
    <3> QED  BY <3>4, <3>5 DEF Placed
  <2>3. reply \in Sound /\ Placed(reply, 0, {})
    <3>1. reply \in Sound /\ reply.role = "tool" /\ reply.answer = 0 /\ reply.id = NoId
      BY <2>1, ResultIs
    <3> QED  BY <3>1 DEF Placed
  <2>4. history = <<Question, says, reply>>
    BY <1>3 DEF Legacy, Phantom
  <2> HIDE DEF says, reply
  <2>5. /\ history \in Seq(Sound) /\ DOMAIN history = {1, 2, 3}
        /\ history[1] = Question /\ history[2] = says /\ history[3] = reply
    <3>1. \A p, q, r \in Sound : <<p, q, r>> \in Seq(Sound) /\ DOMAIN <<p, q, r>> = {1, 2, 3}
      OBVIOUS
    <3> QED  BY <2>2, <2>3, <2>4, <3>1, QuestionIs
  <2> QED  BY <1>1, <2>2, <2>3, <2>5, QuestionIs DEF PairInv, MessageInv
<1> QED  BY <1>2, <1>3 DEF ModelInit

LEMMA PairInvKept == CallsInv /\ PairInv /\ [ModelNext]_modelVars => PairInv'
<1> SUFFICES ASSUME CallsInv, PairInv, [ModelNext]_modelVars PROVE PairInv'
  OBVIOUS
<1>1. HistoryInv /\ MessageInv
  BY DEF CallsInv, PairInv
<1>2. CASE TakeChat \/ ChatErrs \/ AnswerBegins \/ PieceComes \/ DispatchDropped \/ PullLever
  <2>1. UNCHANGED <<history, answers>> /\ openCalls' \subseteq openCalls /\ continues' = 0
    BY <1>2 DEF TakeChat, ChatErrs, AnswerBegins, PieceComes, HandOnly, DispatchDropped, PullLever
  <2> QED  BY <1>1, <2>1, HistoryStays, NoneContinued
<1>3. CASE AnswerDone \/ AnswerTruncated \/ StreamEndsEarly \/ AnswerInMarkup
  BY <1>1, <1>3, AnswerStays, NoneContinued
<1>4. CASE AskSession
  <2>1. continues' = 0
    BY <1>4 DEF AskSession
  <2> QED  BY <1>1, <1>4, <2>1, QuestionAsked, NoneContinued
<1>5. CASE RepliesLand \/ DispatchDies
  BY <1>1, <1>5, AllLanded, MissingLanded
<1>6. CASE UNCHANGED modelVars
  <2>1. history' = history /\ answers' = answers /\ openCalls' = openCalls /\ continues' = continues
    BY <1>6 DEF modelVars
  <2>2. MessageInv'
    BY <1>1, <2>1, HistoryStays
  <2>3. CallsOf(continues)' = CallsOf(continues)
    BY <2>1 DEF CallsOf, Answers
  <2>4. OwnIds(continues)' = OwnIds(continues) /\ IdsOf(continues)' = IdsOf(continues)
    BY <2>1, <2>3 DEF OwnIds, IdsOf
  <2> QED  BY <2>1, <2>2, <2>3, <2>4 DEF PairInv
<1> QED  BY <1>2, <1>3, <1>4, <1>5, <1>6 DEF ModelNext, Streaming

LEMMA ComposedIs ==
    ASSUME MessageInv
    PROVE  /\ Composed \in Seq(Sound) /\ Len(Composed) = Len(history)
           /\ \A n, id : RepliesIn(Composed, n, id) = RepliesIn(history, n, id)
           /\ \A i \in DOMAIN history : Composed[i].role = history[i].role
<1>1. PICK l \in Nat : l = Len(history) /\ DOMAIN history = 1 .. l
                       /\ \A i \in 1 .. l : history[i] \in Sound
  BY DEF MessageInv
<1> DEFINE F(i) == IF i \in muted THEN [history[i] EXCEPT !.calls = <<>>] ELSE history[i]
<1>2. ASSUME NEW i \in 1 .. l
      PROVE  F(i) \in Sound /\ F(i).role = history[i].role /\ F(i).answer = history[i].answer
             /\ F(i).id = history[i].id
  <2>1. PICK m \in Sound : m = history[i]
    BY <1>1
  <2>2. PICK w : w = [m EXCEPT !.calls = <<>>]
    OBVIOUS
  <2>3. w \in Sound /\ w.role = m.role /\ w.answer = m.answer /\ w.id = m.id
    BY <2>2, WithoutCalls
  <2> QED  BY <2>1, <2>2, <2>3
<1>3. Composed = [i \in 1 .. l |-> F(i)]
  BY <1>1 DEF Composed
<1> HIDE DEF F
<1>4. Composed \in Seq(Sound) /\ Len(Composed) = l /\ DOMAIN Composed = 1 .. l
      /\ \A i \in 1 .. l : Composed[i] = F(i)
  BY <1>2, <1>3
<1>5. ASSUME NEW n, NEW id PROVE RepliesIn(Composed, n, id) = RepliesIn(history, n, id)
  <2>1. \A i \in 1 .. l : Composed[i].role = history[i].role /\ Composed[i].answer = history[i].answer
                          /\ Composed[i].id = history[i].id
    BY <1>2, <1>4
  <2> QED  BY <1>1, <1>4, <2>1 DEF RepliesIn
<1> QED  BY <1>1, <1>2, <1>4, <1>5

LEMMA PairInvMeans == CallsInv /\ PairInv => RequestsPaired
<1> SUFFICES ASSUME CallsInv, PairInv PROVE RequestsPaired
  OBVIOUS
<1>1. HistoryInv /\ MessageInv
  BY DEF CallsInv, PairInv
<1>2. PICK msgs \in Seq(Sound) : msgs = Composed
  BY <1>1, ComposedIs
<1>3. Adjacent(GeminiRequest)
  <2>1. Normalized(msgs) \in Seq(Sound) /\ Adjacent(Normalized(msgs))
    BY NormalizedAdjacent
  <2>2. Adjacent(Sanitized(Normalized(msgs)))
    BY <2>1, SanitizedAdjacent
  <2> QED  BY <1>2, <2>2 DEF GeminiRequest
<1>4. ASSUME continues # 0, OwnIds(continues)
      PROVE  /\ \A id \in IdsOf(continues) : Cardinality(RepliesIn(OpenAIRequest, continues, id)) = 1
             /\ \E i \in DOMAIN AnthropicRequest :
                  /\ AnthropicRequest[i].role = "results"
                  /\ \A id \in IdsOf(continues) : RepliesIn(AnthropicRequest[i].of, continues, id) # {}
  <2>1. PICK n : n = continues /\ n \in 1 .. answers
    BY <1>4 DEF PairInv
  <2>2. PICK ids : ids = IdsOf(n)
    OBVIOUS
  <2>3. PICK h : TailReplies(history, n, ids, h)
    BY <1>4, <2>1, <2>2 DEF PairInv
  <2>4. TailReplies(msgs, n, ids, h)
    <3>1. Len(msgs) = Len(history) /\ \A id : RepliesIn(msgs, n, id) = RepliesIn(history, n, id)
      BY <1>1, <1>2, ComposedIs
    <3>2. \A i \in h + 1 .. Len(history) : i \in DOMAIN history
      <4>1. h \in 0 .. Len(history) /\ Len(history) \in Nat /\ DOMAIN history = 1 .. Len(history)
        BY <1>1, <2>3 DEF TailReplies, MessageInv
      <4> QED  BY <4>1
    <3>3. \A i \in h + 1 .. Len(history) : msgs[i].role = "tool"
      BY <1>1, <1>2, <2>3, <3>2, ComposedIs DEF TailReplies
    <3> QED  BY <2>3, <3>1, <3>3 DEF TailReplies
  <2>5. NoId \notin ids
    BY <1>1, <2>1, <2>2, AnswerIs DEF IdsOf, IdOf
  <2>6. ids # {}
    <3>1. DOMAIN CallsOf(n) # {}
      BY <1>4, <2>1 DEF PairInv
    <3> QED  BY <2>2, <3>1 DEF IdsOf
  <2>7. OpenAIRequest = Sanitized(msgs) /\ AnthropicRequest = Translated(Sanitized(msgs))
    BY <1>2 DEF OpenAIRequest, AnthropicRequest
  <2>8. PICK out : out = Sanitized(msgs)
    OBVIOUS
  <2>9. /\ \A id \in ids : Cardinality(RepliesIn(out, n, id)) = 1
        /\ \E t \in DOMAIN Translated(out) :
             /\ Translated(out)[t].role = "results"
             /\ \A id \in ids : RepliesIn(Translated(out)[t].of, n, id) # {}
    BY <2>4, <2>5, <2>6, <2>8, TailSent
  <2>10. ids = IdsOf(continues) /\ n = continues /\ OpenAIRequest = out /\ AnthropicRequest = Translated(out)
    BY <2>1, <2>2, <2>7, <2>8
  <2> QED  BY <2>9, <2>10
<1> QED  BY <1>3, <1>4 DEF RequestsPaired, IdsOf

\* Any history of a session becomes a request that Gemini takes, and the request
\* that continues an answer brings one reply to each of its calls, to Anthropic
\* in one message (v10-chat.sql, compose_messages; bgworker.rs, the bodies).
THEOREM RequestsStayPaired == ModelSpec => []RequestsPaired
<1>1. ModelInit => CallsInv /\ PairInv
  BY CallsInitially, PairInitially
<1>2. CallsInv /\ PairInv /\ [ModelNext]_modelVars => CallsInv' /\ PairInv'
  BY CallsInvKept, PairInvKept
<1>3. CallsInv /\ PairInv => RequestsPaired
  BY PairInvMeans
<1> QED  BY <1>1, <1>2, <1>3, PTL DEF ModelSpec

----------------------------------------------------------------------------
(* Every variable has its type                                              *)

\* A message is kept as it is, and one that comes after it answers something
\* only if it is no question.
Plain(m) == m.role = "user" => m.answer = 0
Grows ==
    /\ \A i \in DOMAIN history : i \in DOMAIN history' /\ history'[i] = history[i]
    /\ \A i \in DOMAIN history' \ DOMAIN history : Plain(history'[i])

LEMMA GrowsBy ==
    ASSUME NEW S, history \in Seq(S), NEW T, NEW more \in Seq(T), \A m \in T : Plain(m),
           history' = history \o more
    PROVE  Grows
<1>1. PICK k \in Nat : k = Len(history) /\ DOMAIN history = 1 .. k
  OBVIOUS
<1>2. PICK l \in Nat : l = Len(more) /\ DOMAIN more = 1 .. l
  OBVIOUS
<1>3. /\ DOMAIN history' = 1 .. k + l
      /\ \A i \in 1 .. k : history'[i] = history[i]
      /\ \A i \in 1 .. k + l : i > k => history'[i] = more[i - k]
  <2>1. history \in Seq(S \cup T) /\ more \in Seq(S \cup T)
    OBVIOUS
  <2> QED  BY <1>1, <1>2, <2>1
<1>4. ASSUME NEW i \in 1 .. k + l, i \notin 1 .. k PROVE Plain(history'[i])
  <2>1. i > k /\ i - k \in 1 .. l
    BY <1>4
  <2>2. more[i - k] \in T
    BY <1>2, <2>1
  <2> QED  BY <1>3, <2>1, <2>2
<1>5. \A i \in 1 .. k : i \in 1 .. k + l
  OBVIOUS
<1> QED  BY <1>1, <1>3, <1>4, <1>5 DEF Grows

LEMMA GrowsByOne ==
    ASSUME MessageInv, NEW m, Plain(m), history' = Append(history, m)
    PROVE  Grows
<1>1. PICK k \in Nat : k = Len(history) /\ DOMAIN history = 1 .. k /\ history \in Seq(Sound)
  BY DEF MessageInv
<1>2. /\ DOMAIN history' = 1 .. k + 1 /\ history'[k + 1] = m
      /\ \A i \in 1 .. k : history'[i] = history[i]
  BY <1>1
<1>3. \A i \in 1 .. k + 1 : i = k + 1 \/ i \in 1 .. k
  OBVIOUS
<1>4. \A i \in 1 .. k : i \in 1 .. k + 1
  OBVIOUS
<1> QED  BY <1>1, <1>2, <1>3, <1>4 DEF Grows

LEMMA RepliesGrow ==
    ASSUME HistoryInv, MessageInv, NEW n \in openCalls, NEW results, RepliesOf(n, results),
           history' = history \o results
    PROVE  Grows
<1>1. n \in Nat
  BY DEF HistoryInv
<1>2. \A m \in {Result(n, id) : id \in IdsOf(n)} : Plain(m)
  BY DEF Result, Plain
<1>3. history \in Seq(Sound)
  BY DEF MessageInv
<1> QED  BY <1>2, <1>3, GrowsBy DEF RepliesOf

LEMMA HistoryGrows ==
    ASSUME CallsInv, MessageInv, [ModelNext]_modelVars PROVE Grows
<1>1. HistoryInv /\ HandInv
  BY DEF CallsInv
<1>2. CASE UNCHANGED history
  BY <1>2 DEF Grows
<1>3. CASE AskSession
  <2>1. Plain(Question) /\ history' = Append(history, Question)
    BY <1>3 DEF Plain, Question, AskSession
  <2> QED  BY <2>1, GrowsByOne
<1>4. CASE AnswerDone \/ AnswerTruncated \/ StreamEndsEarly \/ AnswerInMarkup
  <2>1. PICK calls : history' = Append(history, Says(answers', calls))
    BY <1>4 DEF AnswerDone, AnswerTruncated, StreamEndsEarly, AnswerInMarkup, Store
  <2>2. Plain(Says(answers', calls))
    BY DEF Plain, Says
  <2> QED  BY <2>1, <2>2, GrowsByOne
<1>5. CASE RepliesLand
  <2>0. PICK n \in openCalls : \E atOnce \in SUBSET DOMAIN CallsOf(n) :
          ContinueWith(n, InOrder(n, atOnce) \o InOrder(n, DOMAIN CallsOf(n) \ atOnce))
    BY <1>5 DEF RepliesLand
  <2>1. PICK A \in SUBSET DOMAIN CallsOf(n) :
          ContinueWith(n, InOrder(n, A) \o InOrder(n, DOMAIN CallsOf(n) \ A))
    BY <2>0
  <2>2. PICK B : B = DOMAIN CallsOf(n) \ A
    OBVIOUS
  <2>3. A \cup B = DOMAIN CallsOf(n) /\ A \cap B = {}
    BY <2>2
  <2>4. RepliesOf(n, InOrder(n, A) \o InOrder(n, B))
    BY <1>1, <2>3, TwoLots
  <2> QED  BY <1>1, <2>1, <2>2, <2>4, RepliesGrow DEF ContinueWith
<1>6. CASE DispatchDies
  <2>1. PICK n \in openCalls : ContinueWith(n, InOrder(n, Missing(n)))
    BY <1>6 DEF DispatchDies
  <2>2. Missing(n) \subseteq DOMAIN CallsOf(n)
    BY DEF Missing
  <2>3. RepliesOf(n, InOrder(n, Missing(n)))
    BY <1>1, <2>2, InOrderIs
  <2> QED  BY <1>1, <2>1, <2>3, RepliesGrow DEF ContinueWith
<1>7. CASE TakeChat \/ ChatErrs \/ AnswerBegins \/ PieceComes \/ DispatchDropped \/ PullLever
           \/ UNCHANGED modelVars
  BY <1>2, <1>7 DEF TakeChat, ChatErrs, AnswerBegins, PieceComes, HandOnly, DispatchDropped, PullLever,
     modelVars
<1> QED  BY <1>3, <1>4, <1>5, <1>6, <1>7 DEF ModelNext, Streaming

\* What the invariants of calls and pairs do not say of the types.
RestInv ==
    /\ \A i \in DOMAIN history : Plain(history[i])
    /\ muted \subseteq DOMAIN history
    /\ toAsk \in Nat /\ levers \in 0 .. MaxLevers
    /\ made \in [1 .. MaxAnswers -> 0 .. CallsPerAnswer]

LEMMA RestInitially == ModelInit => RestInv
<1> SUFFICES ASSUME ModelInit PROVE RestInv
  OBVIOUS
<1>1. \A i \in DOMAIN history : Plain(history[i])
  <2>1. CASE history = <<>>
    BY <2>1
  <2>2. CASE history = Legacy
    <3> DEFINE says == Says(0, <<[id |-> NoId, args |-> <<>>]>>)
               reply == Result(0, NoId)
    <3>1. Plain(Question) /\ Plain(says) /\ Plain(reply)
      BY DEF Plain, Question, Says, Result
    <3>2. history = <<Question, says, reply>>
      BY <2>2 DEF Legacy
    <3> HIDE DEF says, reply
    <3>3. DOMAIN history = {1, 2, 3} /\ history[1] = Question /\ history[2] = says /\ history[3] = reply
      BY <3>2
    <3> QED  BY <3>1, <3>3
  <2> QED  BY <2>1, <2>2 DEF ModelInit
<1>2. 0 \in 0 .. MaxLevers /\ 0 \in 0 .. CallsPerAnswer
  BY ModelCallsAssumption
<1> QED  BY <1>1, <1>2 DEF ModelInit, RestInv

LEMMA MadeOf ==
    ASSUME CallsInv, RestInv, NEW calls, NEW k \in 0 .. CallsPerAnswer, NEW dispatch, Store(calls, k, dispatch)
    PROVE  made' \in [1 .. MaxAnswers -> 0 .. CallsPerAnswer]
BY DEF RestInv, Store

LEMMA RestKept ==
    ASSUME CallsInv, MessageInv, RestInv, [ModelNext]_modelVars PROVE RestInv'
<1>1. Grows
  BY HistoryGrows
<1>2. \A i \in DOMAIN history' : Plain(history'[i])
  BY <1>1 DEF Grows, RestInv
<1>3. DOMAIN history \subseteq DOMAIN history'
  BY <1>1 DEF Grows
<1>4. toAsk \in Nat /\ levers \in 0 .. MaxLevers /\ MaxLevers \in Nat
  BY ModelCallsAssumption DEF RestInv
<1>5. toAsk' \in Nat /\ levers' \in 0 .. MaxLevers
  <2>1. CASE TakeChat
    BY <1>4, <2>1 DEF TakeChat
  <2>2. CASE AskSession
    BY <1>4, <2>2 DEF AskSession
  <2>3. CASE RepliesLand \/ DispatchDies
    <3>1. \E n, results : ContinueWith(n, results)
      BY <2>3 DEF RepliesLand, DispatchDies
    <3>2. toAsk' = toAsk + 1 /\ levers' = levers
      BY <3>1 DEF ContinueWith
    <3> QED  BY <1>4, <3>2
  <2>4. CASE PullLever
    BY <1>4, <2>4 DEF PullLever
  <2>5. CASE ChatErrs \/ AnswerBegins \/ PieceComes \/ DispatchDropped \/ UNCHANGED modelVars
    BY <1>4, <2>5 DEF ChatErrs, AnswerBegins, PieceComes, HandOnly, DispatchDropped, modelVars
  <2>6. CASE AnswerDone \/ AnswerTruncated \/ StreamEndsEarly \/ AnswerInMarkup
    BY <1>4, <2>6 DEF AnswerDone, AnswerTruncated, StreamEndsEarly, AnswerInMarkup, Store
  <2> QED  BY <2>1, <2>2, <2>3, <2>4, <2>5, <2>6 DEF ModelNext, Streaming
<1>6. muted' \subseteq DOMAIN history
  <2>1. muted \subseteq DOMAIN history
    BY DEF RestInv
  <2>2. CASE PullLever
    BY <2>1, <2>2 DEF PullLever
  <2>3. CASE UNCHANGED muted
    BY <2>1, <2>3
  <2>4. CASE AnswerDone \/ AnswerTruncated \/ StreamEndsEarly \/ AnswerInMarkup
    BY <2>3, <2>4 DEF AnswerDone, AnswerTruncated, StreamEndsEarly, AnswerInMarkup, Store
  <2>5. CASE TakeChat \/ ChatErrs \/ AnswerBegins \/ PieceComes \/ AskSession \/ RepliesLand \/ DispatchDies
             \/ DispatchDropped \/ UNCHANGED modelVars
    BY <2>3, <2>5 DEF TakeChat, ChatErrs, AnswerBegins, PieceComes, HandOnly, AskSession, RepliesLand,
       DispatchDies, ContinueWith, DispatchDropped, modelVars
  <2> QED  BY <2>2, <2>4, <2>5 DEF ModelNext, Streaming
<1>7. made' \in [1 .. MaxAnswers -> 0 .. CallsPerAnswer]
  <2>1. hand.calls \in 0 .. CallsPerAnswer /\ 0 \in 0 .. CallsPerAnswer
    BY ModelCallsAssumption DEF CallsInv, HandInv
  <2>2. CASE AnswerDone
    BY <2>1, <2>2, MadeOf DEF AnswerDone
  <2>3. CASE AnswerTruncated
    BY <2>1, <2>3, MadeOf DEF AnswerTruncated
  <2>4. CASE StreamEndsEarly
    BY <2>1, <2>4, MadeOf DEF StreamEndsEarly
  <2>5. CASE AnswerInMarkup
    BY <2>1, <2>5, MadeOf DEF AnswerInMarkup
  <2>6. CASE TakeChat \/ ChatErrs \/ AnswerBegins \/ PieceComes \/ AskSession \/ RepliesLand \/ DispatchDies
             \/ DispatchDropped \/ PullLever \/ UNCHANGED modelVars
    BY <2>6 DEF RestInv, TakeChat, ChatErrs, AnswerBegins, PieceComes, HandOnly, AskSession, RepliesLand,
       DispatchDies, ContinueWith, DispatchDropped, PullLever, modelVars
  <2> QED  BY <2>2, <2>3, <2>4, <2>5, <2>6 DEF ModelNext, Streaming
<1> QED  BY <1>2, <1>3, <1>5, <1>6, <1>7 DEF RestInv

LEMMA RestMeans == CallsInv /\ PairInv /\ RestInv => ModelTypeOK
<1> SUFFICES ASSUME CallsInv, PairInv, RestInv PROVE ModelTypeOK
  OBVIOUS
<1>1. HandInv /\ HistoryInv /\ MessageInv
  BY DEF CallsInv, PairInv
<1>2. answers \in 0 .. MaxAnswers /\ MaxAnswers \in Nat /\ openCalls \subseteq 1 .. answers
  BY <1>1, ModelCallsAssumption DEF HistoryInv
<1>3. \A x : x \in 0 .. answers \/ x \in 1 .. answers => x \in 0 .. MaxAnswers
  BY <1>2
<1>4. ASSUME NEW i \in DOMAIN history
      PROVE  history[i].role \in {"user", "assistant", "tool"} /\ history[i].answer \in 0 .. MaxAnswers
  <2>1. history[i] \in Sound /\ Placed(history[i], answers, openCalls) /\ Plain(history[i])
    BY <1>1 DEF MessageInv, RestInv
  <2>2. history[i].role \in {"user", "assistant", "tool"}
    BY <2>1 DEF Sound, Message
  <2>3. 0 \in 0 .. answers
    BY <1>2
  <2>4. history[i].role = "tool" => history[i].answer = 0 \/ history[i].answer \in 1 .. answers
    BY <2>1 DEF Placed
  <2>5. history[i].role = "assistant" => history[i].answer \in 0 .. answers
    BY <1>1 DEF HistoryInv
  <2>6. history[i].role = "user" => history[i].answer = 0
    BY <2>1 DEF Plain
  <2> QED  BY <1>3, <2>2, <2>3, <2>4, <2>5, <2>6
<1>5. continues \in 0 .. MaxAnswers
  <2>1. 0 \in 0 .. answers
    BY <1>2
  <2> QED  BY <1>3, <2>1 DEF PairInv
<1>6. openCalls \subseteq 1 .. MaxAnswers
  BY <1>2
<1>7. hand.via \in Gateways \cup {NoGateway} /\ hand.held \in BOOLEAN /\ hand.calls \in 0 .. CallsPerAnswer
  BY <1>1 DEF HandInv
<1> QED  BY <1>2, <1>4, <1>5, <1>6, <1>7 DEF ModelTypeOK, RestInv

LEMMA ModelTypes == ModelSpec => []ModelTypeOK
<1>1. ModelInit => CallsInv /\ PairInv /\ RestInv
  BY CallsInitially, PairInitially, RestInitially
<1>2. CallsInv /\ PairInv /\ RestInv /\ [ModelNext]_modelVars => CallsInv' /\ PairInv' /\ RestInv'
  BY CallsInvKept, PairInvKept, RestKept DEF PairInv
<1>3. CallsInv /\ PairInv /\ RestInv => ModelTypeOK
  BY RestMeans
<1> QED  BY <1>1, <1>2, <1>3, PTL DEF ModelSpec
=============================================================================
