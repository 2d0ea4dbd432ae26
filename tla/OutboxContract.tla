--------------------------- MODULE OutboxContract ---------------------------
(* What apps/outbox-worker promises of a row of outbox_events, with no batch,  *)
(* no lock, no transaction and no retry counter: a row leaves the queue only   *)
(* after it has been published, or with its retries used up, and for good.     *)
CONSTANT Events

VARIABLES queued,      \* rows waiting to be published
          published,   \* events that reached their Redis channel at least once
          settled,     \* rows with processed_at set
          exhausted    \* settled rows whose retries were used up

vars == <<queued, published, settled, exhausted>>

Init == /\ queued = {} /\ published = {} /\ settled = {} /\ exhausted = {}

Enqueue(e) == /\ e \notin queued \cup settled
              /\ queued' = queued \cup {e}
              /\ UNCHANGED <<published, settled, exhausted>>

\* At least once: a queued event may be published any number of times.
Publish(e) == /\ e \in queued
              /\ published' = published \cup {e}
              /\ UNCHANGED <<queued, settled, exhausted>>

\* A batch settles atomically; X are its rows that ran out of retries.
Settle(S, X) == /\ S \subseteq queued /\ X \subseteq S
                /\ S \ X \subseteq published
                /\ settled' = settled \cup S
                /\ exhausted' = exhausted \cup X
                /\ queued' = queued \ S
                /\ UNCHANGED published

Next == \/ \E e \in Events : Enqueue(e) \/ Publish(e)
        \/ \E S \in SUBSET Events : \E X \in SUBSET S : Settle(S, X)

Spec == Init /\ [][Next]_vars
=============================================================================
