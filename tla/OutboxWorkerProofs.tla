------------------------- MODULE OutboxWorkerProofs -------------------------
(* The safety of the outbox worker for every set of rows and workers, batch   *)
(* size, retry limit and number of lost transactions. CrashConsistency is not *)
(* inductive: what a worker has not committed yet must be tied to the locks   *)
(* it holds (Locked) and to what it has published (Uncommitted).              *)
EXTENDS OutboxWorker, TLAPS

\* Everything worker w works on is locked by it, and a locked row is unsettled.
Locked(w) == /\ claimed[w] \subseteq appended \ processed
             /\ todo[w] \subseteq claimed[w]
             /\ done[w] \subseteq claimed[w] \ todo[w]
             /\ bumped[w] \subseteq claimed[w] \ todo[w]
             /\ inserted[w] \subseteq done[w]
             /\ pc[w] = "idle" => claimed[w] = {}
             /\ pc[w] \in {"handle", "failed"} =>
                  current[w] \in claimed[w] \ (todo[w] \cup done[w] \cup bumped[w])

\* What w will commit: a row is settled as published or with its retries used
\* up, and a notification is inserted for the published ones only.
Uncommitted(w) == /\ \A e \in done[w] \ bumped[w] : e \in published
                  /\ \A e \in done[w] \cap bumped[w] : retryCount[e] + 1 >= MaxRetries
                  /\ \A e \in bumped[w] \ done[w] : retryCount[e] + 1 < MaxRetries
                  /\ inserted[w] = (done[w] \ bumped[w]) \cap NotifyEvents
                  /\ pc[w] = "handle" => current[w] \in published

\* The committed table.
Table == /\ processed \subseteq appended
         /\ NoRowHiddenFromPoll
         /\ \A e \in Events \ appended : retryCount[e] = 0
         /\ CrashConsistency
         /\ InboxExactlyOnce

IInv == /\ TypeOK /\ ClaimsDisjoint /\ Table
        /\ \A w \in Workers : Locked(w) /\ Uncommitted(w)

USE EventAssumption, LimitAssumption

LEMMA InitIInv == Init => IInv
  BY DEF Init, IInv, TypeOK, ClaimsDisjoint, Table, NoRowHiddenFromPoll,
         CrashConsistency, InboxExactlyOnce, Locked, Uncommitted

LEMMA AppendIInv == ASSUME IInv, NEW e \in Events, Append(e) PROVE IInv'
  BY DEF Append, IInv, TypeOK, ClaimsDisjoint, Table, NoRowHiddenFromPoll,
         CrashConsistency, InboxExactlyOnce, Locked, Uncommitted, table, redis, tx

LEMMA ClaimIInv == ASSUME IInv, NEW w \in Workers, Claim(w) PROVE IInv'
<1> USE DEF Claim, IInv, table, redis
<1>1. PICK B \in SUBSET Claimable :
        /\ claimed' = [claimed EXCEPT ![w] = B] /\ todo' = [todo EXCEPT ![w] = B]
  BY DEF Batches
<1>2. B \subseteq appended \ processed /\ B \subseteq Events
  BY DEF Claimable, TypeOK
<1>3. TypeOK'
  BY <1>1, <1>2 DEF TypeOK
<1>4. ClaimsDisjoint'
  BY <1>1 DEF ClaimsDisjoint, Claimable, TypeOK
<1>5. Table'
  BY DEF Table, NoRowHiddenFromPoll, CrashConsistency, InboxExactlyOnce
<1>6. ASSUME NEW v \in Workers PROVE (Locked(v) /\ Uncommitted(v))'
  <2>1. CASE v = w
    BY <1>1, <1>2, <2>1 DEF Locked, Uncommitted, TypeOK
  <2>2. CASE v # w
    BY <1>1, <2>2 DEF Locked, Uncommitted, TypeOK
  <2> QED BY <2>1, <2>2
<1> QED BY <1>3, <1>4, <1>5, <1>6

LEMMA PublishIInv ==
  ASSUME IInv, NEW w \in Workers, NEW e \in Events, Publish(w, e)
  PROVE  IInv'
<1> USE DEF Publish, IInv, table, MarkProcessed
<1>1. e \in claimed[w] /\ e \notin done[w] \cup bumped[w]
  BY DEF Locked
<1>2. TypeOK'
  BY DEF TypeOK
<1>3. ClaimsDisjoint' /\ Table'
  BY DEF ClaimsDisjoint, Table, NoRowHiddenFromPoll, CrashConsistency, InboxExactlyOnce
<1>4. ASSUME NEW v \in Workers PROVE (Locked(v) /\ Uncommitted(v))'
  <2>1. CASE v # w
    BY <2>1 DEF Locked, Uncommitted, TypeOK
  <2>2. CASE v = w /\ e \in NotifyEvents \cup EmailEvents
    BY <1>1, <2>2 DEF Locked, Uncommitted, TypeOK
  <2>3. CASE v = w /\ e \notin NotifyEvents \cup EmailEvents
    BY <1>1, <2>3 DEF Locked, Uncommitted, TypeOK
  <2> QED BY <2>1, <2>2, <2>3
<1> QED BY <1>2, <1>3, <1>4

LEMMA PublishFailsIInv ==
  ASSUME IInv, NEW w \in Workers, NEW e \in Events, PublishFails(w, e)
  PROVE  IInv'
<1> USE DEF PublishFails, IInv, table
<1>1. e \in claimed[w] /\ e \notin done[w] \cup bumped[w]
  BY DEF Locked
<1>2. TypeOK'
  BY DEF TypeOK
<1>3. ClaimsDisjoint' /\ Table'
  BY DEF ClaimsDisjoint, Table, NoRowHiddenFromPoll, CrashConsistency, InboxExactlyOnce
<1>4. ASSUME NEW v \in Workers PROVE (Locked(v) /\ Uncommitted(v))'
  <2>1. CASE v # w
    BY <2>1 DEF Locked, Uncommitted, TypeOK
  <2>2. CASE v = w
    BY <1>1, <2>2 DEF Locked, Uncommitted, TypeOK
  <2> QED BY <2>1, <2>2
<1> QED BY <1>2, <1>3, <1>4

LEMMA HandlerSucceedsIInv ==
  ASSUME IInv, NEW w \in Workers, HandlerSucceeds(w) PROVE IInv'
<1> USE DEF HandlerSucceeds, IInv, redis, MarkProcessed, InsertNotification
<1>1. /\ current[w] \in claimed[w] \ (todo[w] \cup done[w] \cup bumped[w])
      /\ current[w] \in published
  BY DEF Locked, Uncommitted
<1>2. TypeOK'
  BY <1>1 DEF TypeOK
<1>3. ClaimsDisjoint' /\ Table'
  BY DEF ClaimsDisjoint, Table, NoRowHiddenFromPoll, CrashConsistency, InboxExactlyOnce
<1>4. ASSUME NEW v \in Workers PROVE (Locked(v) /\ Uncommitted(v))'
  <2>1. CASE v # w
    BY <2>1 DEF Locked, Uncommitted, TypeOK
  <2>2. CASE v = w
    BY <1>1, <2>2 DEF Locked, Uncommitted, TypeOK
  <2> QED BY <2>1, <2>2
<1> QED BY <1>2, <1>3, <1>4

LEMMA HandlerThrowsIInv ==
  ASSUME IInv, NEW w \in Workers, HandlerThrows(w) PROVE IInv'
  BY DEF HandlerThrows, IInv, table, redis, tx, TypeOK, ClaimsDisjoint, Table,
         NoRowHiddenFromPoll, CrashConsistency, InboxExactlyOnce, Locked, Uncommitted

LEMMA RecordFailureIInv ==
  ASSUME IInv, NEW w \in Workers, RecordFailure(w) PROVE IInv'
<1> USE DEF RecordFailure, IInv, table, MarkProcessed, RaiseRetryCount, LastAttempt
<1>1. current[w] \in claimed[w] \ (todo[w] \cup done[w] \cup bumped[w])
  BY DEF Locked
<1>2. TypeOK'
  BY <1>1 DEF TypeOK
<1>3. ClaimsDisjoint' /\ Table'
  BY DEF ClaimsDisjoint, Table, NoRowHiddenFromPoll, CrashConsistency, InboxExactlyOnce
<1>4. ASSUME NEW v \in Workers PROVE (Locked(v) /\ Uncommitted(v))'
  <2>1. CASE v # w
    BY <2>1 DEF Locked, Uncommitted, TypeOK
  <2>2. CASE v = w /\ retryCount[current[w]] + 1 >= MaxRetries
    BY <1>1, <2>2 DEF Locked, Uncommitted, TypeOK
  <2>3. CASE v = w /\ ~(retryCount[current[w]] + 1 >= MaxRetries)
    BY <1>1, <2>3 DEF Locked, Uncommitted, TypeOK
  <2> QED BY <2>1, <2>2, <2>3
<1> QED BY <1>2, <1>3, <1>4

LEMMA CommitIInv == ASSUME IInv, NEW w \in Workers, Commit(w) PROVE IInv'
<1>1. /\ claimed[w] \subseteq appended \ processed
      /\ done[w] \subseteq claimed[w] /\ bumped[w] \subseteq claimed[w]
      /\ inserted[w] = (done[w] \ bumped[w]) \cap NotifyEvents
      /\ \A e \in done[w] \ bumped[w] : e \in published
      /\ \A e \in done[w] \cap bumped[w] : retryCount[e] + 1 >= MaxRetries
      /\ \A e \in bumped[w] \ done[w] : retryCount[e] + 1 < MaxRetries
  BY DEF IInv, Locked, Uncommitted
<1>2. /\ appended \subseteq Events /\ processed \subseteq appended
      /\ \A e \in Events : retryCount[e] \in 0..MaxRetries /\ inbox[e] \in Nat
      /\ \A e \in Events \ processed : retryCount[e] < MaxRetries
      /\ \A e \in processed : retryCount[e] < MaxRetries => e \in published
      /\ \A e \in NotifyEvents :
           inbox[e] = IF e \in processed /\ retryCount[e] < MaxRetries THEN 1 ELSE 0
      /\ \A e \in Events \ appended : retryCount[e] = 0
  BY DEF IInv, TypeOK, Table, NoRowHiddenFromPoll, CrashConsistency, InboxExactlyOnce
<1>3. /\ processed' = processed \cup done[w] /\ appended' = appended
      /\ published' = published /\ dlq' = dlq /\ aborts' = aborts
      /\ retryCount' = [e \in Events |-> retryCount'[e]]
      /\ inbox' = [e \in Events |-> inbox'[e]]
      /\ \A e \in Events :
           /\ retryCount'[e] = IF e \in bumped[w] THEN retryCount[e] + 1 ELSE retryCount[e]
           /\ inbox'[e] = IF e \in inserted[w] THEN inbox[e] + 1 ELSE inbox[e]
  BY DEF Commit, CommittedRetries, redis
<1>4. TypeOK'
  <2>1. \A e \in Events : retryCount'[e] \in 0..MaxRetries /\ inbox'[e] \in Nat
    BY <1>1, <1>2, <1>3
  <2>2. retryCount' \in [Events -> 0..MaxRetries] /\ inbox' \in [Events -> Nat]
    BY <2>1, <1>3
  <2>3. processed' \subseteq Events
    BY <1>1, <1>2, <1>3
  <2> QED BY <1>3, <2>2, <2>3 DEF IInv, TypeOK, Commit, Release
<1>5. ClaimsDisjoint'
  BY DEF IInv, ClaimsDisjoint, TypeOK, Commit, Release
<1>6. Table'
  <2>1. processed' \subseteq appended' /\ \A e \in Events \ appended' : retryCount'[e] = 0
    BY <1>1, <1>2, <1>3
  <2>2. ASSUME NEW e \in appended', e \notin processed' PROVE retryCount'[e] < MaxRetries
    BY <1>1, <1>2, <1>3, <2>2
  <2>3. ASSUME NEW e \in processed', retryCount'[e] < MaxRetries PROVE e \in published'
    BY <1>1, <1>2, <1>3, <2>3
  <2>4. ASSUME NEW e \in NotifyEvents
        PROVE  inbox'[e] = IF e \in processed' /\ retryCount'[e] < MaxRetries THEN 1 ELSE 0
    BY <1>1, <1>2, <1>3
  <2> QED BY <2>1, <2>2, <2>3, <2>4 DEF Table, NoRowHiddenFromPoll, CrashConsistency,
                                        InboxExactlyOnce
<1>7. ASSUME NEW v \in Workers PROVE (Locked(v) /\ Uncommitted(v))'
  <2>1. CASE v = w
    BY <1>3, <2>1 DEF IInv, Locked, Uncommitted, TypeOK, Commit, Release
  <2>2. CASE v # w
    <3>1. claimed[v] \cap claimed[w] = {}
      BY <2>2 DEF IInv, ClaimsDisjoint
    <3>2. \A e \in claimed[v] : retryCount'[e] = retryCount[e] /\ e \notin processed'
      BY <3>1, <1>1, <1>2, <1>3 DEF IInv, Locked
    <3>3. /\ pc'[v] = pc[v] /\ claimed'[v] = claimed[v] /\ todo'[v] = todo[v]
          /\ current'[v] = current[v] /\ done'[v] = done[v] /\ bumped'[v] = bumped[v]
          /\ inserted'[v] = inserted[v]
      BY <2>2 DEF IInv, TypeOK, Commit, Release
    <3> QED BY <1>3, <3>2, <3>3 DEF IInv, Locked, Uncommitted
  <2> QED BY <2>1, <2>2
<1> QED BY <1>4, <1>5, <1>6, <1>7 DEF IInv

LEMMA ReleaseIInv ==
  ASSUME IInv, NEW w \in Workers, Release(w), UNCHANGED <<table, published>>,
         dlq' \in SUBSET Events, aborts' \in 0..MaxAborts
  PROVE  IInv'
<1> USE DEF Release, IInv, table
<1>1. TypeOK'
  BY DEF TypeOK
<1>2. ClaimsDisjoint' /\ Table'
  BY DEF ClaimsDisjoint, Table, NoRowHiddenFromPoll, CrashConsistency, InboxExactlyOnce, TypeOK
<1>3. ASSUME NEW v \in Workers PROVE (Locked(v) /\ Uncommitted(v))'
  BY DEF Locked, Uncommitted, TypeOK
<1> QED BY <1>1, <1>2, <1>3

\* Every step of every worker keeps the invariant.
LEMMA NextIInv == IInv /\ [Next]_vars => IInv'
<1> SUFFICES ASSUME IInv, [Next]_vars PROVE IInv'
  OBVIOUS
<1>1. CASE UNCHANGED vars
  BY <1>1 DEF vars, table, redis, tx, IInv, TypeOK, ClaimsDisjoint, Table,
              NoRowHiddenFromPoll, CrashConsistency, InboxExactlyOnce, Locked, Uncommitted
<1>2. CASE \E e \in Events : Append(e)
  BY <1>2, AppendIInv
<1>3. ASSUME NEW w \in Workers, Step(w) PROVE IInv'
  <2>1. CASE HandlerSqlError(w)
    <3>1. dlq' \in SUBSET Events /\ aborts' = aborts
      BY <2>1 DEF HandlerSqlError, IInv, TypeOK
    <3> QED BY <2>1, <3>1, ReleaseIInv DEF HandlerSqlError, IInv, TypeOK
  <2> QED BY <1>3, <2>1, ClaimIInv, PublishIInv, PublishFailsIInv, HandlerSucceedsIInv,
             HandlerThrowsIInv, RecordFailureIInv, CommitIInv DEF Step
<1>4. ASSUME NEW w \in Workers, Abort(w) PROVE IInv'
  <2>1. aborts' \in 0..MaxAborts
    BY <1>4 DEF Abort, IInv, TypeOK
  <2>2. dlq' \in SUBSET Events
    BY <1>4 DEF Abort, redis, IInv, TypeOK
  <2> QED BY <1>4, <2>1, <2>2, ReleaseIInv DEF Abort, redis
<1> QED BY <1>1, <1>2, <1>3, <1>4 DEF Next

LEMMA Invariance == Spec => []IInv
  BY InitIInv, NextIInv, PTL DEF Spec

\* No row is ever held by two workers.
THEOREM ClaimsAreDisjoint == Spec => []ClaimsDisjoint
  BY Invariance, PTL DEF IInv

\* The queue is crash-consistent: whatever transactions are lost, a row leaves
\* it only published or out of retries.
THEOREM CrashConsistent == Spec => []CrashConsistency
<1>1. IInv => CrashConsistency
  BY DEF IInv, Table
<1> QED BY <1>1, Invariance, PTL

\* The inbox gets each notification once although the event may be published
\* many times.
THEOREM NotifiedOnce == Spec => []InboxExactlyOnce
<1>1. IInv => InboxExactlyOnce
  BY DEF IInv, Table
<1> QED BY <1>1, Invariance, PTL

\* No undelivered row drops out of the poll's WHERE clause.
THEOREM RowsStayVisible == Spec => []NoRowHiddenFromPoll
<1>1. IInv => NoRowHiddenFromPoll
  BY DEF IInv, Table
<1> QED BY <1>1, Invariance, PTL

\* The type invariant.
THEOREM TypeCorrect == Spec => []TypeOK
  BY Invariance, PTL DEF IInv
-----------------------------------------------------------------------------
\* What a commit does to the rows: those it settles were unsettled and are then
\* published or out of retries, and the others keep their state.
LEMMA CommitSettles ==
  ASSUME IInv, NEW w \in Workers, Commit(w)
  PROVE  /\ done[w] \subseteq appended \ processed
         /\ done[w] \ bumped[w] \subseteq published
         /\ \A e \in done[w] \cap bumped[w] : retryCount'[e] >= MaxRetries
         /\ \A e \in done[w] \ bumped[w] : retryCount'[e] < MaxRetries
         /\ \A e \in processed : retryCount'[e] = retryCount[e]
         /\ \A e \in Events : retryCount'[e] \in {retryCount[e], retryCount[e] + 1}
         /\ processed' = processed \cup done[w]
<1>1. /\ claimed[w] \subseteq appended \ processed
      /\ done[w] \subseteq claimed[w] /\ bumped[w] \subseteq claimed[w]
      /\ \A e \in done[w] \ bumped[w] : e \in published
      /\ \A e \in done[w] \cap bumped[w] : retryCount[e] + 1 >= MaxRetries
  BY DEF IInv, Locked, Uncommitted
<1>2. /\ appended \subseteq Events /\ processed \subseteq appended
      /\ \A e \in Events : retryCount[e] \in 0..MaxRetries
      /\ \A e \in appended \ processed : retryCount[e] < MaxRetries
  BY DEF IInv, TypeOK, Table, NoRowHiddenFromPoll
<1>3. /\ processed' = processed \cup done[w]
      /\ \A e \in Events :
           retryCount'[e] = IF e \in bumped[w] THEN retryCount[e] + 1 ELSE retryCount[e]
  BY DEF Commit, CommittedRetries
<1>4. \A e \in processed : e \in Events /\ e \notin bumped[w]
  BY <1>1, <1>2
<1>5. \A e \in done[w] : e \in Events
  BY <1>1, <1>2
<1> QED BY <1>1, <1>2, <1>3, <1>4, <1>5

\* A step other than a commit leaves the settled rows and the counters alone.
LEMMA OthersSettleNothing ==
  ASSUME [Next]_vars, \A w \in Workers : ~Commit(w)
  PROVE  processed' = processed /\ retryCount' = retryCount
<1>1. CASE UNCHANGED vars
  BY <1>1 DEF vars, table
<1>2. ASSUME NEW e \in Events, Append(e)
      PROVE  processed' = processed /\ retryCount' = retryCount
  BY <1>2 DEF Append
<1>3. ASSUME NEW w \in Workers, Step(w)
      PROVE  processed' = processed /\ retryCount' = retryCount
  BY <1>3 DEF Step, Claim, Publish, PublishFails, HandlerSucceeds, HandlerThrows,
              HandlerSqlError, RecordFailure, table
<1>4. ASSUME NEW w \in Workers, Abort(w)
      PROVE  processed' = processed /\ retryCount' = retryCount
  BY <1>4 DEF Abort, table
<1> QED BY <1>1, <1>2, <1>3, <1>4 DEF Next

\* A settled row stays settled and its retry count with it; a retry count only
\* ever goes up by one (the poll's WHERE clause and processClaimed's updates).
THEOREM SettledStaysSettled == Spec => SettledForGood
<1> DEFINE A == /\ processed \subseteq processed'
                /\ \A e \in Events :
                     /\ retryCount'[e] \in {retryCount[e], retryCount[e] + 1}
                     /\ e \in processed => retryCount'[e] = retryCount[e]
<1>1. ASSUME IInv, [Next]_vars PROVE A
  <2>1. ASSUME NEW w \in Workers, Commit(w) PROVE A
    BY <1>1, <2>1, CommitSettles
  <2>2. CASE \A w \in Workers : ~Commit(w)
    BY <1>1, <2>2, OthersSettleNothing
  <2> QED BY <2>1, <2>2
<1>2. IInv /\ [Next]_vars => [A]_vars
  BY <1>1
<1> QED BY <1>2, Invariance, PTL DEF Spec, SettledForGood

\* A commit settles its batch's finished rows, those out of retries as exhausted.
LEMMA CommitImplementsSettle ==
  ASSUME IInv, NEW w \in Workers, Commit(w) PROVE Contract!Next
<1> DEFINE S == done[w]
           X == done[w] \cap bumped[w]
           Exhausted == {e \in processed : retryCount[e] >= MaxRetries}
<1>1. /\ done[w] \subseteq appended \ processed
      /\ done[w] \ bumped[w] \subseteq published
      /\ \A e \in done[w] \cap bumped[w] : retryCount'[e] >= MaxRetries
      /\ \A e \in done[w] \ bumped[w] : retryCount'[e] < MaxRetries
      /\ \A e \in processed : retryCount'[e] = retryCount[e]
      /\ \A e \in Events : retryCount'[e] \in {retryCount[e], retryCount[e] + 1}
      /\ processed' = processed \cup done[w]
  BY CommitSettles
<1>2. appended' = appended /\ published' = published
  BY DEF Commit, redis
<1>3. appended \subseteq Events /\ \A e \in Events : retryCount[e] \in Nat
  BY DEF IInv, TypeOK
<1>4. S \in SUBSET Events /\ X \in SUBSET S
  BY <1>1, <1>3
<1>5. S \subseteq appended \ processed /\ X \subseteq S /\ S \ X \subseteq published
  BY <1>1
<1>6. Exhausted' = Exhausted \cup X
  <2>1. \A e \in done[w] : e \in Events /\ retryCount'[e] \in Nat
    BY <1>1, <1>3
  <2>2. ASSUME NEW e \in processed \cup done[w]
        PROVE  retryCount'[e] >= MaxRetries <=> e \in Exhausted \cup X
    <3>1. CASE e \in processed
      BY <1>1, <3>1
    <3>2. CASE e \in done[w]
      BY <1>1, <2>1, <3>2
    <3> QED BY <3>1, <3>2
  <2> QED BY <1>1, <2>2
<1>7. processed' = processed \cup S /\ (appended \ processed)' = (appended \ processed) \ S
  BY <1>1, <1>2
<1>8. PICK T \in SUBSET Events : T = S
  BY <1>4
<1>9. PICK Y \in SUBSET T : Y = X
  BY <1>4, <1>8
<1>10. Contract!Settle(T, Y)
  BY <1>2, <1>5, <1>6, <1>7, <1>8, <1>9 DEF Contract!Settle
<1> QED BY <1>8, <1>9, <1>10 DEF Contract!Next

\* Any other step enqueues a row, publishes one, or is invisible in the contract.
LEMMA OthersImplementContract ==
  ASSUME IInv, [Next]_vars, \A w \in Workers : ~Commit(w)
  PROVE  [Contract!Next]_(Contract!vars)
<1>1. processed' = processed /\ retryCount' = retryCount
  BY OthersSettleNothing
<1>2. {e \in processed : retryCount[e] >= MaxRetries}'
        = {e \in processed : retryCount[e] >= MaxRetries}
  BY <1>1
<1>3. ASSUME NEW e \in Events, Append(e) PROVE Contract!Next
  <2>1. e \notin processed
    BY <1>3 DEF IInv, Table, Append
  <2>2. published' = published /\ e \notin appended /\ appended' = appended \cup {e}
    BY <1>3 DEF Append, redis
  <2>3. Contract!Enqueue(e)
    BY <1>1, <1>2, <2>1, <2>2 DEF Contract!Enqueue
  <2> QED BY <2>3 DEF Contract!Next
<1>4. ASSUME NEW e \in Events, appended' = appended, e \in appended \ processed,
             published' = published \cup {e}
      PROVE  Contract!Next
  <2>1. Contract!Publish(e)
    BY <1>1, <1>2, <1>4 DEF Contract!Publish
  <2> QED BY <2>1 DEF Contract!Next
<1>5. ASSUME appended' = appended, published' = published
      PROVE  UNCHANGED Contract!vars
  BY <1>1, <1>2, <1>5 DEF Contract!vars
<1>6. ASSUME NEW w \in Workers, NEW e \in Events, Publish(w, e) \/ PublishFails(w, e)
      PROVE  [Contract!Next]_(Contract!vars)
  <2>1. appended' = appended /\ e \in todo[w]
    BY <1>6 DEF Publish, PublishFails, table
  <2>2. e \in appended \ processed
    BY <2>1 DEF IInv, Locked
  <2>3. published' = published \cup {e} \/ published' = published
    BY <1>6 DEF Publish, PublishFails
  <2> QED BY <1>4, <1>5, <2>1, <2>2, <2>3
<1>7. ASSUME NEW w \in Workers, Step(w) PROVE [Contract!Next]_(Contract!vars)
  <2>1. CASE \E e \in Events : Publish(w, e) \/ PublishFails(w, e)
    BY <1>6, <2>1
  <2>2. CASE ~\E e \in Events : Publish(w, e) \/ PublishFails(w, e)
    <3>1. appended' = appended /\ published' = published
      BY <1>7, <2>2 DEF Step, Claim, HandlerSucceeds, HandlerThrows, HandlerSqlError,
                        RecordFailure, table, redis
    <3> QED BY <1>5, <3>1
  <2> QED BY <2>1, <2>2
<1>8. ASSUME NEW w \in Workers, Abort(w) PROVE [Contract!Next]_(Contract!vars)
  BY <1>5, <1>8 DEF Abort, table, redis
<1>9. CASE UNCHANGED vars
  BY <1>5, <1>9 DEF vars, table, redis
<1> QED BY <1>3, <1>7, <1>8, <1>9 DEF Next

\* The worker, with its batches, locks, transactions and crashes, implements the
\* at-least-once contract.
THEOREM WorkerImplementsContract == Spec => ImplementsContract
<1>1. Init => Contract!Init
  BY DEF Init, Contract!Init
<1>2. ASSUME IInv, [Next]_vars PROVE [Contract!Next]_(Contract!vars)
  <2>1. CASE \E w \in Workers : Commit(w)
    BY <1>2, <2>1, CommitImplementsSettle
  <2>2. CASE \A w \in Workers : ~Commit(w)
    BY <1>2, <2>2, OthersImplementContract
  <2> QED BY <2>1, <2>2
<1>3. IInv /\ [Next]_vars => [Contract!Next]_(Contract!vars)
  BY <1>2
<1> QED BY <1>1, <1>3, Invariance, PTL DEF Spec, ImplementsContract, Contract!Spec
=============================================================================
