---------------------------- MODULE BatchService ----------------------------
(***************************************************************************)
(* What the batch interface promises whoever enqueues a chat, with no batch, *)
(* provider or leader in sight: the chat waits, is away, and ends by being   *)
(* answered or by failing; it may come back unanswered a limited number of   *)
(* times; and no more is ever away or answered than the cap pays for.        *)
(***************************************************************************)
EXTENDS Naturals, FiniteSets

CONSTANTS Chat,         \* the chats
          Cap,          \* the chats that can be paid for
          Retries       \* times a chat may come back unanswered

VARIABLES status,       \* of each chat: free, batch_pending, batched, done, error
          attempts      \* times it came back

vars == <<status, attempts>>

Having(s) == {c \in Chat : status[c] \in s}

Init == status = [c \in Chat |-> "free"] /\ attempts = [c \in Chat |-> 0]

Enqueue ==
    /\ \E c \in Having({"free"}) : status' = [status EXCEPT ![c] = "batch_pending"]
    /\ UNCHANGED attempts

Cancel ==
    /\ \E c \in Having({"batch_pending", "batched"}) : status' = [status EXCEPT ![c] = "error"]
    /\ UNCHANGED attempts

\* Some waiting chats leave together, if the cap pays for all of them.
GoAway ==
    /\ \E S \in SUBSET Having({"batch_pending"}) :
         /\ Cardinality(Having({"batched", "done"}) \cup S) <= Cap
         /\ status' = [c \in Chat |-> IF c \in S THEN "batched" ELSE status[c]]
    /\ UNCHANGED attempts

Answer ==
    /\ \E c \in Having({"batched"}) : status' = [status EXCEPT ![c] = "done"]
    /\ UNCHANGED attempts

\* Some come back to wait again, and others have failed.
ComeBack ==
    \E back, lost \in SUBSET Having({"batched"}) :
      /\ back \cap lost = {} /\ \A c \in back : attempts[c] < Retries
      /\ status' = [c \in Chat |-> IF c \in back THEN "batch_pending"
                                   ELSE IF c \in lost THEN "error" ELSE status[c]]
      /\ attempts' = [c \in Chat |-> IF c \in back THEN attempts[c] + 1 ELSE attempts[c]]

Next == Enqueue \/ Cancel \/ GoAway \/ Answer \/ ComeBack

Spec == Init /\ [][Next]_vars
=============================================================================
