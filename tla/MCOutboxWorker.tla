--------------------------- MODULE MCOutboxWorker ---------------------------
EXTENDS OutboxWorker
CONSTANTS notify, email, broken
\* Two rows share a sequence: rows written without one get 0
\* (outbox.repository.ts), so ties are ordinary.
MCSeq == [e \in Events |-> IF e = email THEN 1 ELSE 0]
=============================================================================
