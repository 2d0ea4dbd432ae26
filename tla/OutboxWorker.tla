---------------------------- MODULE OutboxWorker ----------------------------
(* apps/outbox-worker/src/index.ts: workers poll outbox_events with SELECT ... *)
(* FOR UPDATE SKIP LOCKED, publish each claimed row to Redis, run the handler  *)
(* of its event type, and record the outcome, all in one transaction a poll.   *)
(* Until it commits, nothing a worker wrote is visible to another one, and a   *)
(* crash, a lost connection or a statement that fails undoes all of it; what   *)
(* was published stays published.                                              *)
EXTENDS Naturals, FiniteSets

CONSTANTS
    Events,        \* rows that may be appended to outbox_events
    Workers,       \* worker processes
    Seq,           \* the sequence column of each row
    NotifyEvents,  \* rows whose handler inserts a notification through the tx
    EmailEvents,   \* rows whose handler sends an email and throws if it fails
    Poison,        \* rows whose handler issues a statement PostgreSQL rejects
    BatchSize,     \* OUTBOX_BATCH_SIZE
    MaxRetries,    \* OUTBOX_MAX_RETRIES
    MaxAborts,     \* bound: transactions lost to a crash or a lost connection
    NoEvent        \* not an event

ASSUME EventAssumption == /\ IsFiniteSet(Events) /\ NoEvent \notin Events
                          /\ Seq \in [Events -> Nat]
                          /\ NotifyEvents \subseteq Events
                          /\ EmailEvents \subseteq Events
                          /\ NotifyEvents \cap EmailEvents = {}
                          /\ Poison \subseteq NotifyEvents \cup EmailEvents
ASSUME LimitAssumption == /\ BatchSize \in Nat \ {0} /\ MaxRetries \in Nat \ {0}
                          /\ MaxAborts \in Nat

VARIABLES
    appended,    \* committed rows of outbox_events
    processed,   \* rows whose processed_at is set
    retryCount,  \* the retry_count column
    inbox,       \* notifications rows inserted for each event
    published,   \* events Redis has received at least once
    dlq,         \* events the dead-letter channel has received
    pc,          \* where each worker is in pollOnce
    claimed,     \* rows each worker has locked
    todo,        \* claimed rows it has not reached yet
    current,     \* the row processClaimed is at
    done,        \* uncommitted: rows it set processed_at on
    bumped,      \* uncommitted: rows whose retry_count it raised
    inserted,    \* uncommitted: notifications it inserted
    aborts       \* transactions lost so far

table == <<appended, processed, retryCount, inbox>>
redis == <<published, dlq>>
tx    == <<claimed, todo, current, done, bumped, inserted>>
vars  == <<table, redis, pc, tx, aborts>>

Init == /\ appended = {} /\ processed = {}
        /\ retryCount = [e \in Events |-> 0] /\ inbox = [e \in Events |-> 0]
        /\ published = {} /\ dlq = {}
        /\ pc = [w \in Workers |-> "idle"]
        /\ claimed = [w \in Workers |-> {}] /\ todo = [w \in Workers |-> {}]
        /\ current = [w \in Workers |-> NoEvent]
        /\ done = [w \in Workers |-> {}] /\ bumped = [w \in Workers |-> {}]
        /\ inserted = [w \in Workers |-> {}]
        /\ aborts = 0
-----------------------------------------------------------------------------
\* A command's transaction commits its row.
Append(e) == /\ e \notin appended
             /\ appended' = appended \cup {e}
             /\ UNCHANGED <<processed, retryCount, inbox, redis, pc, tx, aborts>>

\* Variant: a WHERE clause that only takes rows never tried.
ClaimableFirstTry == {e \in appended \ processed :
                        /\ retryCount[e] = 0
                        /\ \A w \in Workers : e \notin claimed[w]}

\* WHERE processed_at IS NULL AND retry_count < MAX_RETRIES ... SKIP LOCKED
Claimable == {e \in appended \ processed :
                /\ retryCount[e] < MaxRetries
                /\ \A w \in Workers : e \notin claimed[w]}

\* ORDER BY sequence ASC LIMIT BATCH_SIZE; rows of equal sequence in any order.
Batches == {B \in SUBSET Claimable :
              /\ B # {}
              /\ Cardinality(B) <= BatchSize
              /\ Cardinality(B) < BatchSize => B = Claimable
              /\ \A e \in B, f \in Claimable \ B : Seq[e] <= Seq[f]}

\* Variant: processed_at set when the row is claimed, before it is published.
ClaimMarksProcessed(w) ==
    /\ pc[w] = "idle"
    /\ \E B \in Batches : /\ claimed' = [claimed EXCEPT ![w] = B]
                          /\ todo' = [todo EXCEPT ![w] = B]
                          /\ processed' = processed \cup B
    /\ pc' = [pc EXCEPT ![w] = "publish"]
    /\ UNCHANGED <<appended, retryCount, inbox, redis, current, done, bumped,
                   inserted, aborts>>

Claim(w) == /\ pc[w] = "idle"
            /\ \E B \in Batches : /\ claimed' = [claimed EXCEPT ![w] = B]
                                  /\ todo' = [todo EXCEPT ![w] = B]
            /\ pc' = [pc EXCEPT ![w] = "publish"]
            /\ UNCHANGED <<table, redis, current, done, bumped, inserted, aborts>>

MarkProcessed(w, e) == done' = [done EXCEPT ![w] = @ \cup {e}]

\* redis.publish of the next row, in claim order.
Publish(w, e) == /\ pc[w] = "publish"
                 /\ e \in todo[w] /\ \A f \in todo[w] : Seq[e] <= Seq[f]
                 /\ todo' = [todo EXCEPT ![w] = @ \ {e}]
                 /\ published' = published \cup {e}
                 /\ IF e \in NotifyEvents \cup EmailEvents
                    THEN /\ pc' = [pc EXCEPT ![w] = "handle"]
                         /\ current' = [current EXCEPT ![w] = e]
                         /\ UNCHANGED done
                    ELSE MarkProcessed(w, e) /\ UNCHANGED <<pc, current>>
                 /\ UNCHANGED <<table, dlq, claimed, bumped, inserted, aborts>>

\* The publish rejects; the message may have reached Redis all the same.
PublishFails(w, e) ==
    /\ pc[w] = "publish"
    /\ e \in todo[w] /\ \A f \in todo[w] : Seq[e] <= Seq[f]
    /\ todo' = [todo EXCEPT ![w] = @ \ {e}]
    /\ \/ published' = published \cup {e}
       \/ UNCHANGED published
    /\ pc' = [pc EXCEPT ![w] = "failed"]
    /\ current' = [current EXCEPT ![w] = e]
    /\ UNCHANGED <<table, dlq, claimed, done, bumped, inserted, aborts>>

\* Variant: the INSERT runs outside the claim's transaction.
InsertAutocommitted(w) ==
    /\ inbox' = [inbox EXCEPT ![current[w]] = @ + 1]
    /\ UNCHANGED inserted

InsertNotification(w) == /\ inserted' = [inserted EXCEPT ![w] = @ \cup {current[w]}]
                         /\ UNCHANGED inbox

HandlerSucceeds(w) ==
    /\ pc[w] = "handle"
    /\ current[w] \notin Poison
    /\ IF current[w] \in NotifyEvents THEN InsertNotification(w)
                                      ELSE UNCHANGED <<inserted, inbox>>
    /\ MarkProcessed(w, current[w])
    /\ current' = [current EXCEPT ![w] = NoEvent]
    /\ pc' = [pc EXCEPT ![w] = "publish"]
    /\ UNCHANGED <<appended, processed, retryCount, redis, claimed, todo, bumped, aborts>>

\* workspaceInvitationCreatedHandler throws outside SQL: lookup or email failed.
HandlerThrows(w) == /\ pc[w] = "handle"
                    /\ current[w] \in EmailEvents \ Poison
                    /\ pc' = [pc EXCEPT ![w] = "failed"]
                    /\ UNCHANGED <<table, redis, tx, aborts>>

\* Variant: a dead-lettered row keeps its counter.
RaisesOnRetryOnly(w, e) ==
    bumped' = IF retryCount[e] + 1 >= MaxRetries THEN bumped
              ELSE [bumped EXCEPT ![w] = @ \cup {e}]

LastAttempt(e) == retryCount[e] + 1 >= MaxRetries
RaiseRetryCount(w, e) == bumped' = [bumped EXCEPT ![w] = @ \cup {e}]

\* The catch block of processClaimed: retry later, or dead-letter and give up.
RecordFailure(w) ==
    /\ pc[w] = "failed"
    /\ RaiseRetryCount(w, current[w])
    /\ IF LastAttempt(current[w])
       THEN /\ MarkProcessed(w, current[w])
            /\ \/ dlq' = dlq \cup {current[w]}
               \/ UNCHANGED dlq                  \* best effort
       ELSE UNCHANGED <<done, dlq>>
    /\ current' = [current EXCEPT ![w] = NoEvent]
    /\ pc' = [pc EXCEPT ![w] = "publish"]
    /\ UNCHANGED <<table, published, claimed, todo, inserted, aborts>>

Release(w) == /\ pc' = [pc EXCEPT ![w] = "idle"]
              /\ claimed' = [claimed EXCEPT ![w] = {}]
              /\ todo' = [todo EXCEPT ![w] = {}]
              /\ current' = [current EXCEPT ![w] = NoEvent]
              /\ done' = [done EXCEPT ![w] = {}]
              /\ bumped' = [bumped EXCEPT ![w] = {}]
              /\ inserted' = [inserted EXCEPT ![w] = {}]

CommittedRetries(w) ==
    [e \in Events |-> IF e \in bumped[w] THEN retryCount[e] + 1 ELSE retryCount[e]]

Commit(w) ==
    /\ pc[w] = "publish" /\ todo[w] = {}
    /\ processed' = processed \cup done[w]
    /\ retryCount' = CommittedRetries(w)
    /\ inbox' = [e \in Events |->
                   IF e \in inserted[w] THEN inbox[e] + 1 ELSE inbox[e]]
    /\ Release(w)
    /\ UNCHANGED <<appended, redis, aborts>>

\* A failed statement aborts the transaction.  The catch block dead-letters the
\* row on its last attempt, but its own UPDATE is rejected too: pollOnce throws
\* and every row of the batch is rolled back.
HandlerSqlError(w) == /\ pc[w] = "handle"
                      /\ current[w] \in Poison
                      /\ \/ LastAttempt(current[w]) /\ dlq' = dlq \cup {current[w]}
                         \/ UNCHANGED dlq
                      /\ Release(w)
                      /\ UNCHANGED <<table, published, aborts>>

\* The worker dies, or its connection does, and it starts again.
Abort(w) == /\ pc[w] # "idle"
            /\ aborts < MaxAborts
            /\ aborts' = aborts + 1
            /\ Release(w)
            /\ UNCHANGED <<table, redis>>

Step(w) == \/ Claim(w) \/ HandlerSucceeds(w) \/ HandlerThrows(w) \/ HandlerSqlError(w)
           \/ RecordFailure(w) \/ Commit(w)
           \/ \E e \in Events : Publish(w, e) \/ PublishFails(w, e)

Next == \/ \E e \in Events : Append(e)
        \/ \E w \in Workers : Step(w) \/ Abort(w)

Spec == Init /\ [][Next]_vars

\* loop() polls again POLL_MS after each poll for as long as the process runs.
FairSpec == Spec /\ \A w \in Workers : WF_vars(Step(w))
-----------------------------------------------------------------------------
TypeOK == /\ appended \in SUBSET Events /\ processed \in SUBSET Events
          /\ retryCount \in [Events -> 0..MaxRetries] /\ inbox \in [Events -> Nat]
          /\ published \in SUBSET Events /\ dlq \in SUBSET Events
          /\ pc \in [Workers -> {"idle", "publish", "handle", "failed"}]
          /\ claimed \in [Workers -> SUBSET Events]
          /\ todo \in [Workers -> SUBSET Events]
          /\ current \in [Workers -> Events \cup {NoEvent}]
          /\ done \in [Workers -> SUBSET Events]
          /\ bumped \in [Workers -> SUBSET Events]
          /\ inserted \in [Workers -> SUBSET Events]
          /\ aborts \in 0..MaxAborts

\* Two workers never hold the same row (SKIP LOCKED, one transaction a poll).
ClaimsDisjoint == \A v, w \in Workers : v # w => claimed[v] \cap claimed[w] = {}

\* The crash-consistency contract (index.ts, "Bug #7 fix"): a row that left the
\* queue with retries to spare was published before its processed_at committed.
CrashConsistency ==
    \A e \in processed : retryCount[e] < MaxRetries => e \in published

\* The poll's WHERE clause never hides a row that still has to be delivered.
NoRowHiddenFromPoll == \A e \in appended \ processed : retryCount[e] < MaxRetries

\* The notification is in the claim's transaction: however often the event is
\* published, the recipient's inbox gets it once, and when the row is settled.
InboxExactlyOnce ==
    \A e \in NotifyEvents :
        inbox[e] = IF e \in processed /\ retryCount[e] < MaxRetries THEN 1 ELSE 0

\* A step never brings a processed row back, and raises a retry count by one
\* at most, and never for a row already settled.
SettledForGood ==
    [][/\ processed \subseteq processed'
       /\ \A e \in Events : /\ retryCount'[e] \in {retryCount[e], retryCount[e] + 1}
                            /\ e \in processed => retryCount'[e] = retryCount[e]]_vars

Contract == INSTANCE OutboxContract
              WITH queued <- appended \ processed, settled <- processed,
                   exhausted <- {e \in processed : retryCount[e] >= MaxRetries}

\* The worker implements the contract.
ImplementsContract == Contract!Spec

\* Every row reaches its terminal state, "leaving it visible would cause infinite
\* poll churn" (index.ts), as long as no handler's statement is rejected: such a
\* row rolls its whole batch back at every poll, and its retry count with it.
EventuallySettled == [](Poison \cap appended = {}) =>
                       \A e \in Events : e \in appended ~> e \in processed
=============================================================================
