------------------------ MODULE BoardRealtimeProofs ------------------------
(* For every number of boards, sockets, events, drops and remounts: the FSM's *)
(* timers match its state, every variable keeps its type, nothing that could  *)
(* be applied waits in the buffer, for a tab that shows one board the board   *)
(* is a prefix of its log, and within the limits of the catch-up no event     *)
(* below a connection's watermark is lost. All but the first rest on TypeInv  *)
(* and StoreInv, with one lemma per group of callbacks. Presence, the other   *)
(* traffic of a tab's sockets, follows: no message order gives a tab a ghost. *)
EXTENDS BoardRealtime, MCPresence, TLAPS, FiniteSetTheorems,
        WellFoundedInduction, SequenceTheorems

USE AttemptAssumption

TimerInv == fsm \in SyncStates /\ reconnect \in Nat /\ TimersMatchState

\* The message of the reconnect timer, sent when the timer is no longer set.
TimerMessage(m) == m \in {"RECONNECT_ATTEMPT", "RECONNECT_EXHAUSTED"}

\* No message leads out of the states of the FSM.
LEMMA TransitionType ==
  ASSUME NEW s \in SyncStates, NEW m PROVE Transition(s, m) \in SyncStates
  BY DEF Transition, SyncStates

\* The reconnect timer a transition leaves, unless its own message caused it.
LEMMA ReconnectAfterFits ==
  ASSUME NEW s, NEW m, NEW t, NEW timer \in Nat, NEW n \in Nat,
         ~(s = "RECONNECTING" /\ TimerMessage(m)),
         timer > 0 <=> s = "RECONNECTING"
  PROVE  /\ ReconnectAfter(s, m, t, timer, n) \in Nat
         /\ ReconnectAfter(s, m, t, timer, n) > 0 <=> t = "RECONNECTING"
<1>1. CASE s # "RECONNECTING" /\ t = "RECONNECTING"
  <2>1. ReconnectAfter(s, m, t, timer, n) = 1
    BY <1>1 DEF ReconnectAfter
  <2> QED BY <1>1, <2>1
<1>2. CASE s = "RECONNECTING" /\ t # "RECONNECTING"
  <2>1. ReconnectAfter(s, m, t, timer, n) = 0
    BY <1>2 DEF ReconnectAfter, TimerMessage
  <2> QED BY <1>2, <2>1
<1>3. CASE s = "RECONNECTING" <=> t = "RECONNECTING"
  <2>1. ReconnectAfter(s, m, t, timer, n) \in {0, timer}
    BY <1>3 DEF ReconnectAfter, TimerMessage
  <2>2. s = "RECONNECTING" => ReconnectAfter(s, m, t, timer, n) = timer
    BY <1>3 DEF ReconnectAfter, TimerMessage
  <2> QED BY <1>3, <2>1, <2>2
<1> QED BY <1>1, <1>2, <1>3

\* A state is entered with its timers set and left with them cancelled.
LEMMA SendKeepsTimers ==
  ASSUME TimerInv, NEW m, NEW n \in Nat, NEW timer \in Nat,
         SendAttempt(m, n, timer),
         \/ timer > 0 <=> fsm = "RECONNECTING"
         \/ fsm = "RECONNECTING" /\ TimerMessage(m)
  PROVE  TimerInv'
<1> DEFINE t == Transition(fsm, m)
<1>1. fsm' = t /\ t \in SyncStates
  BY TransitionType DEF SendAttempt, TimerInv
<1>2. gapTimer' <=> fsm' = "GAP"
  BY <1>1 DEF SendAttempt, GapTimerAfter, TimerInv, TimersMatchState
<1>3. reconnect' \in Nat /\ (reconnect' > 0 <=> fsm' = "RECONNECTING")
  <2>1. reconnect' = ReconnectAfter(fsm, m, t, timer, n)
    BY DEF SendAttempt
  <2>2. CASE fsm = "RECONNECTING" /\ m = "RECONNECT_ATTEMPT"
    BY <1>1, <2>1, <2>2 DEF ReconnectAfter, Transition
  <2>3. CASE fsm = "RECONNECTING" /\ m = "RECONNECT_EXHAUSTED"
    BY <1>1, <2>1, <2>3 DEF ReconnectAfter, Transition
  <2>4. CASE /\ ~(fsm = "RECONNECTING" /\ TimerMessage(m))
             /\ timer > 0 <=> fsm = "RECONNECTING"
    BY <1>1, <2>1, <2>4, ReconnectAfterFits
  <2> QED BY <2>2, <2>3, <2>4 DEF TimerMessage
<1> QED BY <1>1, <1>2, <1>3 DEF TimerInv, TimersMatchState

\* The messages of every callback but the reconnect timer's own.
LEMMA PlainSendKeepsTimers == ASSUME TimerInv, NEW m, Send(m) PROVE TimerInv'
  BY SendKeepsTimers DEF Send, TimerInv, TimersMatchState

LEMMA UnchangedKeepsTimers == ASSUME TimerInv, UNCHANGED <<fsm, gapTimer, reconnect>> PROVE TimerInv'
  BY DEF TimerInv, TimersMatchState

LEMMA InitTimerInv == Init => TimerInv
  BY DEF Init, TimerInv, TimersMatchState, SyncStates

\* handleOpen, handleClose and handleMessage.
LEMMA SocketKeepsTimers ==
  ASSUME TimerInv, NEW s \in Sockets, TabStep(s) \/ SocketDrops(s) PROVE TimerInv'
<1>1. CASE SocketOpens(s)
  BY <1>1, PlainSendKeepsTimers DEF SocketOpens
<1>2. CASE CloseCompletes(s) \/ SocketDrops(s)
  BY <1>2, PlainSendKeepsTimers DEF CloseCompletes, SocketDrops, HandleClose
<1>3. CASE Deliver(s)
  <2>1. ASSUME NEW e, BufferGap(e) PROVE TimerInv'
    BY <2>1, PlainSendKeepsTimers DEF BufferGap
  <2>2. ASSUME NEW e, Apply(e) PROVE TimerInv'
    <3>1. Send("GAP_FILLED") \/ UNCHANGED sync
      BY <2>2 DEF Apply
    <3> QED BY <3>1, PlainSendKeepsTimers, UnchangedKeepsTimers DEF sync
  <2>3. ASSUME UNCHANGED sync PROVE TimerInv'
    BY <2>3, UnchangedKeepsTimers DEF sync
  <2> QED BY <1>3, <2>1, <2>2, <2>3, PlainSendKeepsTimers DEF Deliver
<1> QED BY <1>1, <1>2, <1>3 DEF TabStep

\* The timer is reset by its callback; the message then sets it again or gives up.
LEMMA ReconnectKeepsTimers ==
  ASSUME TimerInv, ReconnectFires \/ ManualReconnect PROVE TimerInv'
<1>1. CASE ReconnectFires
  <2>1. fsm = "RECONNECTING" /\ reconnect \in Nat
    BY <1>1 DEF ReconnectFires, TimerInv, TimersMatchState
  <2>2. TimerMessage(AttemptMessage(reconnect))
    BY DEF AttemptMessage, TimerMessage
  <2>3. SendAttempt(AttemptMessage(reconnect), reconnect, 0)
    BY <1>1 DEF ReconnectFires
  <2> QED BY <2>1, <2>2, <2>3, SendKeepsTimers
<1>2. CASE ManualReconnect
  BY <1>2, SendKeepsTimers DEF ManualReconnect, TimerInv, TimersMatchState
<1> QED BY <1>1, <1>2

LEMMA ResyncKeepsTimers ==
  ASSUME TimerInv, ResyncReads \/ ResyncCompletes \/ ResyncFails PROVE TimerInv'
<1>1. CASE ResyncReads
  BY <1>1, UnchangedKeepsTimers DEF ResyncReads
<1>2. ASSUME NEW m \in {"REPLAY_COMPLETE", "REPLAY_FAILED"},
             fsm' = Transition(fsm, m),
             gapTimer' = GapTimerAfter(fsm, Transition(fsm, m), gapTimer),
             reconnect' = ReconnectAfter(fsm, m, Transition(fsm, m), reconnect, 0)
      PROVE  TimerInv'
  <2>1. /\ fsm' \in SyncStates
        /\ fsm = "GAP" <=> fsm' = "GAP"
        /\ fsm = "RECONNECTING" <=> fsm' = "RECONNECTING"
        /\ fsm = "CONNECTING" <=> fsm' = "CONNECTING"
    BY <1>2, TransitionType DEF Transition, TimerInv
  <2>2. gapTimer' <=> fsm' = "GAP"
    BY <1>2, <2>1 DEF GapTimerAfter, TimerInv, TimersMatchState
  <2>3. reconnect' = reconnect
    BY <1>2, <2>1 DEF ReconnectAfter
  <2> QED BY <2>1, <2>2, <2>3 DEF TimerInv, TimersMatchState
<1>3. CASE ResyncCompletes
  BY <1>2, <1>3 DEF ResyncCompletes
<1>4. CASE ResyncFails
  BY <1>2, <1>4 DEF ResyncFails
<1> QED BY <1>1, <1>3, <1>4

LEMMA MountKeepsTimers ==
  ASSUME TimerInv, Unmount \/ Rehydrate \/ \E b \in Boards : Mount(b) PROVE TimerInv'
<1>1. CASE Unmount
  BY <1>1 DEF Unmount, TimerInv, TimersMatchState, SyncStates
<1>2. CASE Rehydrate
  BY <1>2, UnchangedKeepsTimers DEF Rehydrate, sync
<1>3. ASSUME NEW b \in Boards, Mount(b) PROVE TimerInv'
  BY <1>3 DEF Mount, TimerInv, TimersMatchState, SyncStates
<1> QED BY <1>1, <1>2, <1>3

LEMMA NextTimerInv == TimerInv /\ [Next]_vars => TimerInv'
<1> SUFFICES ASSUME TimerInv, [Next]_vars PROVE TimerInv'
  OBVIOUS
<1>1. CASE UNCHANGED vars
  BY <1>1, UnchangedKeepsTimers DEF vars, sync
<1>2. CASE GapTimerFires
  BY <1>2, PlainSendKeepsTimers DEF GapTimerFires
<1>3. CASE Timer
  BY <1>2, <1>3, ReconnectKeepsTimers DEF Timer
<1>4. ASSUME NEW b \in Boards, Commit(b) \/ RedisSubscribed(b) \/ \E n \in 1..MaxSeq : Publish(b, n)
      PROVE  TimerInv'
  <2>1. UNCHANGED sync
    BY <1>4 DEF Commit, RedisSubscribed, Publish
  <2> QED BY <2>1, UnchangedKeepsTimers DEF sync
<1>5. ASSUME NEW s \in Sockets, ServerStep(s) \/ CatchUpFails(s) PROVE TimerInv'
  <2>1. UNCHANGED sync
    BY <1>5 DEF ServerStep, Register, Count, Select, SendRows, CatchUpFails
  <2> QED BY <2>1, UnchangedKeepsTimers DEF sync
<1> QED BY <1>1, <1>3, <1>4, <1>5, SocketKeepsTimers, ReconnectKeepsTimers,
           ResyncKeepsTimers, MountKeepsTimers DEF Next

\* The FSM never waits for a timer that is not set, and no timer outlives its
\* state: whatever drops, opens, deliveries, remounts and retries interleave.
THEOREM TimersAreSound == Spec => []TimersMatchState
<1>1. TimerInv => TimersMatchState
  BY DEF TimerInv
<1> QED BY <1>1, InitTimerInv, NextTimerInv, PTL DEF Spec
-----------------------------------------------------------------------------
(* The buffer of events that came too early *)

\* A non-empty set of numbers has a least one.
LEMMA LeastSequence ==
  ASSUME NEW S \in SUBSET Nat, S # {}
  PROVE  \E n \in S : \A m \in S : n <= m
<1> DEFINE R == OpToRel(<, Nat)
<1>1. IsWellFoundedOn(R, Nat)
  BY NatLessThanWellFounded
<1>2. PICK n \in S : \A m \in S : <<m, n>> \notin R
  <2> HIDE DEF R
  <2> QED BY <1>1, WFMin
<1>3. \A m \in S : ~(m < n)
  BY <1>2 DEF OpToRel
<1> QED BY <1>3

\* The sequences of the buffered events: no more of them than events.
LEMMA BufferedSequences ==
  ASSUME IsFiniteSet(buffer), NEW S, S = {x.seq : x \in buffer}
  PROVE  /\ IsFiniteSet(S)
         /\ Cardinality(S) \in Nat /\ Cardinality(buffer) \in Nat
         /\ Cardinality(S) <= Cardinality(buffer)
<1> DEFINE f == [x \in buffer |-> x.seq]
<1>1. f \in [buffer -> S] /\ \A k \in S : \E x \in buffer : f[x] = k
  OBVIOUS
<1>2. f \in Surjection(buffer, S)
  BY <1>1 DEF Surjection
<1> QED BY <1>2, FS_Surjection, FS_CardinalityType

\* Draining ends, where the next event is missing: there is no hole below.
LEMMA DrainStops ==
  ASSUME IsFiniteSet(buffer), NEW n \in Nat, \A x \in buffer : x.seq \in Nat
  PROVE  /\ DrainTo(n) \in Nat /\ n <= DrainTo(n)
         /\ \A k \in (n + 1)..DrainTo(n) : \E x \in buffer : x.seq = k
         /\ ~\E x \in buffer : x.seq = DrainTo(n) + 1
<1> DEFINE S == {x.seq : x \in buffer}
           T == {k \in Nat : n <= k /\ k + 1 \notin S}
<1>1. /\ IsFiniteSet(S) /\ S \in SUBSET Nat
      /\ Cardinality(S) \in Nat /\ Cardinality(buffer) \in Nat
      /\ Cardinality(S) <= Cardinality(buffer)
  BY BufferedSequences
<1>2. ASSUME NEW m \in Nat, n <= m, \A k \in (n + 1)..m : k \in S
      PROVE  m <= n + Cardinality(S)
  <2>1. (n + 1)..m \in SUBSET S
    BY <1>2
  <2>2. Cardinality((n + 1)..m) <= Cardinality(S)
    BY <2>1, <1>1, FS_Subset
  <2>3. Cardinality((n + 1)..m) = m - n
    <3>1. n + 1 \in Int /\ m \in Int
      OBVIOUS
    <3>2. Cardinality((n + 1)..m) = IF n + 1 > m THEN 0 ELSE m - (n + 1) + 1
      BY <3>1, FS_Interval
    <3>3. n + 1 > m => m = n
      BY <1>2
    <3> HIDE DEF S, T
    <3> QED BY <3>2, <3>3
  <2>4. m - n <= Cardinality(S)
    BY <2>2, <2>3
  <2>5. Cardinality(S) \in Nat /\ m \in Nat /\ n \in Nat
    BY <1>1
  <2> HIDE DEF S, T
  <2> QED BY <2>4, <2>5
<1>3. T # {}
  <2> SUFFICES ASSUME T = {} PROVE FALSE
    OBVIOUS
  <2> DEFINE m == n + Cardinality(S) + 1
  <2>1. m \in Nat /\ n <= m
    BY <1>1
  <2>2. ASSUME NEW k \in (n + 1)..m PROVE k \in S
    <3>1. k - 1 \in Nat /\ n <= k - 1 /\ (k - 1) + 1 = k
      BY <2>1
    <3> QED BY <3>1
  <2>3. m <= n + Cardinality(S)
    BY <1>2, <2>1, <2>2
  <2> QED BY <2>3, <1>1
<1>4. PICK m \in T : \A k \in T : m <= k
  BY <1>3, LeastSequence
<1>5. ASSUME NEW k \in (n + 1)..m PROVE k \in S
  <2>1. k - 1 \in Nat /\ n <= k - 1 /\ (k - 1) + 1 = k /\ ~(m <= k - 1)
    BY <1>4
  <2> QED BY <2>1, <1>4
<1>6. m \in n..(n + Cardinality(buffer))
  BY <1>1, <1>2, <1>4, <1>5
<1>7. /\ \A k \in (n + 1)..m : \E x \in buffer : x.seq = k
      /\ ~\E x \in buffer : x.seq = m + 1
  BY <1>4, <1>5
<1>8. \E l \in n..(n + Cardinality(buffer)) :
         /\ \A k \in (n + 1)..l : \E x \in buffer : x.seq = k
         /\ ~\E x \in buffer : x.seq = l + 1
  BY <1>6, <1>7
<1>9. /\ DrainTo(n) \in n..(n + Cardinality(buffer))
      /\ \A k \in (n + 1)..DrainTo(n) : \E x \in buffer : x.seq = k
      /\ ~\E x \in buffer : x.seq = DrainTo(n) + 1
  <2> HIDE DEF S, T
  <2> QED BY <1>8 DEF DrainTo
<1> QED BY <1>9, <1>1
-----------------------------------------------------------------------------
(* The types, and what is behind them: a tab that shows no board has no       *)
(* socket, its FSM is idle and no replay of it can complete.                  *)

Messages == {ResyncMessage} \cup [type : {"EVENT"}, event : Event]

LogTyped == /\ committed \in [Boards -> 0..MaxSeq]
            /\ published \in [Boards -> SUBSET (1..MaxSeq)]
            /\ redisSub \in [Boards -> {"off", "pending", "on"}]
            /\ reg \in [Sockets -> Boards \cup {NoBoard}]
            /\ mark \in [Sockets -> 0..MaxSeq]

Tasks == [at : {"none", "auth", "count", "select", "rows"},
          on : Sockets \cup {NoSock}, board : Boards \cup {NoBoard},
          base : 0..MaxSeq, upto : 0..MaxSeq]

\* A subscribe that runs is for a connection and a board.
TasksAimed == /\ task \in [Sockets -> Tasks]
              /\ \A o \in Sockets : task[o].at # "none" =>
                    task[o].on \in Sockets /\ task[o].board \in Boards

SocketTyped == /\ sock \in [Sockets -> {"closed", "connecting", "open", "closing"}]
               /\ inbox \in [Sockets -> Seq(Messages)]
               /\ ws \in Sockets \cup {NoSock} /\ board \in Boards \cup {NoBoard}

ResyncTyped == resync \in [phase : {"off", "fetching", "fetched"}, upto : 0..MaxSeq,
                           aborted : BOOLEAN]

SyncTyped == TimerInv /\ gapTimer \in BOOLEAN /\ reconnect \in 0..MaxAttempts /\ ResyncTyped

StoreTyped == /\ seq \in 0..MaxSeq /\ buffer \in SUBSET Event /\ applied \in SUBSET Event
              /\ status \in StoreStatuses /\ loaded \in 0..MaxSeq

BudgetTyped == /\ mounts \in 0..MaxMounts /\ drops \in 0..MaxDrops
               /\ rehydrations \in 0..MaxRehydrations /\ failures \in 0..MaxFailures

Homeless == board = NoBoard => /\ fsm = "IDLE" /\ ws = NoSock
                               /\ resync.phase = "off" \/ resync.aborted

\* The store: NoStrandedEvent, and a buffer of events the tab knows.
BufferKnown == IsFiniteSet(buffer) /\ \A e \in buffer : e.seq \notin Unknown

TypeInv == LogTyped /\ TasksAimed /\ SocketTyped /\ SyncTyped /\ StoreTyped /\ BudgetTyped
           /\ Homeless
StoreInv == BufferKnown /\ NoStrandedEvent

LEMMA TypeInvIsTypeOK == TypeInv => TypeOK
<1> SUFFICES ASSUME TypeInv PROVE TypeOK
  OBVIOUS
<1>1. ASSUME NEW s \in Sockets, NEW i \in 1..Len(inbox[s])
      PROVE  inbox[s][i] = ResyncMessage \/ inbox[s][i].event \in Event
  <2>1. inbox[s] \in Seq(Messages)
    BY DEF TypeInv, SocketTyped
  <2>2. inbox[s][i] \in Messages
    BY <2>1
  <2> QED BY <2>2 DEF Messages
<1>2. fsm \in SyncStates
  BY DEF TypeInv, SyncTyped, TimerInv
<1> QED BY <1>1, <1>2 DEF TypeInv, TypeOK, LogTyped, TasksAimed, Tasks, SocketTyped,
           SyncTyped, ResyncTyped, StoreTyped, BudgetTyped

LEMMA InitTypeInv == Init => TypeInv /\ StoreInv
<1> SUFFICES ASSUME Init PROVE TypeInv /\ StoreInv
  OBVIOUS
<1> USE RealtimeAssumption
<1>1. LogTyped
  BY DEF Init, LogTyped
<1>2. TasksAimed
  BY DEF Init, TasksAimed, Tasks, NoTask
<1>3. SocketTyped
  BY DEF Init, SocketTyped
<1>4. SyncTyped /\ Homeless
  <2>1. ResyncTyped
    BY DEF Init, ResyncTyped, NoResync
  <2>2. reconnect \in 0..MaxAttempts
    BY AttemptAssumption DEF Init
  <2>3. gapTimer \in BOOLEAN
    BY Zenon DEF Init
  <2> QED BY <2>1, <2>2, <2>3, InitTimerInv DEF Init, SyncTyped, NoResync, Homeless
<1>5. StoreTyped /\ BudgetTyped
  BY DEF Init, StoreTyped, StoreStatuses, BudgetTyped
<1>6. StoreInv
  BY FS_EmptySet DEF Init, StoreInv, BufferKnown, NoStrandedEvent
<1> QED BY <1>1, <1>2, <1>3, <1>4, <1>5, <1>6 DEF TypeInv

\* What an action leaves alone keeps its type.
LEMMA KeepLog == ASSUME LogTyped, UNCHANGED <<committed, published, redisSub, reg, mark>>
                 PROVE LogTyped'
  BY DEF LogTyped
LEMMA KeepTasks == ASSUME TasksAimed, UNCHANGED task PROVE TasksAimed'
  BY DEF TasksAimed, Tasks
LEMMA KeepSocket == ASSUME SocketTyped, UNCHANGED socket PROVE SocketTyped'
  BY DEF SocketTyped, socket
LEMMA KeepSync == ASSUME SyncTyped, UNCHANGED sync PROVE SyncTyped'
  BY DEF SyncTyped, ResyncTyped, TimerInv, TimersMatchState, sync
LEMMA KeepStore == ASSUME StoreTyped, UNCHANGED store PROVE StoreTyped'
  BY DEF StoreTyped, store
LEMMA KeepBudget == ASSUME BudgetTyped, UNCHANGED budget PROVE BudgetTyped'
  BY DEF BudgetTyped, budget
LEMMA KeepHomeless == ASSUME Homeless, UNCHANGED <<board, fsm, ws, resync>> PROVE Homeless'
  BY DEF Homeless

\* A message leaves the FSM, its timers and the resync in their types ...
LEMMA SendTyped ==
  ASSUME SyncTyped, NEW m, NEW n \in 0..MaxAttempts, NEW timer \in 0..MaxAttempts,
         SendAttempt(m, n, timer),
         m = "RECONNECT_ATTEMPT" => n < MaxAttempts,
         \/ timer > 0 <=> fsm = "RECONNECTING"
         \/ fsm = "RECONNECTING" /\ TimerMessage(m)
  PROVE  SyncTyped'
<1>1. TimerInv'
  <2>1. n \in Nat /\ timer \in Nat
    OBVIOUS
  <2> QED BY <2>1, SendKeepsTimers DEF SyncTyped
<1>2. gapTimer' \in BOOLEAN
  BY DEF SendAttempt, GapTimerAfter, SyncTyped
<1>3. reconnect' \in {0, 1, timer} \/ (m = "RECONNECT_ATTEMPT" /\ reconnect' = n + 1)
  BY DEF SendAttempt, ReconnectAfter
<1>4. reconnect' \in 0..MaxAttempts
  BY <1>3
<1>5. ResyncTyped'
  <2>1. NoResync \in [phase : {"off", "fetching", "fetched"}, upto : 0..MaxSeq,
                      aborted : BOOLEAN]
    BY RealtimeAssumption DEF NoResync
  <2>2. [NoResync EXCEPT !.phase = "fetching"]
           \in [phase : {"off", "fetching", "fetched"}, upto : 0..MaxSeq, aborted : BOOLEAN]
    BY <2>1
  <2> QED BY <2>2 DEF SendAttempt, ResyncAfter, SyncTyped, ResyncTyped
<1> QED BY <1>1, <1>2, <1>4, <1>5 DEF SyncTyped

LEMMA PlainSendTyped ==
  ASSUME SyncTyped, NEW m, m # "RECONNECT_ATTEMPT", Send(m) PROVE SyncTyped'
<1>1. reconnect \in 0..MaxAttempts /\ (reconnect > 0 <=> fsm = "RECONNECTING")
  BY DEF SyncTyped, TimerInv, TimersMatchState
<1> QED BY <1>1, SendTyped DEF Send

\* ... and does not wake the FSM of a tab that shows no board.
LEMMA SendStaysIdle ==
  ASSUME Homeless, NEW m, NEW n, NEW timer, SendAttempt(m, n, timer),
         m # "CONNECT_REQUESTED", UNCHANGED board, board = NoBoard => ws' = NoSock
  PROVE  Homeless'
<1> SUFFICES ASSUME board = NoBoard
             PROVE  fsm' = "IDLE" /\ (resync'.phase = "off" \/ resync'.aborted)
  BY DEF Homeless
<1>1. fsm = "IDLE" /\ (resync.phase = "off" \/ resync.aborted)
  BY DEF Homeless
<1>2. Transition(fsm, m) = "IDLE"
  BY <1>1 DEF Transition
<1>3. fsm' = "IDLE" /\ resync' = resync
  BY <1>1, <1>2 DEF SendAttempt, ResyncAfter, ResyncTriggered
<1> QED BY <1>1, <1>3

LEMMA StatusTyped ==
  ASSUME NEW s, NEW t, NEW st \in StoreStatuses PROVE StatusAfter(s, t, st) \in StoreStatuses
  BY DEF StatusAfter, StoreStatuses

\* The event log and Redis.
LEMMA LogStepTyped ==
  ASSUME TypeInv, NEW b \in Boards,
         Commit(b) \/ RedisSubscribed(b) \/ \E n \in 1..MaxSeq : Publish(b, n)
  PROVE  TypeInv'
<1> USE DEF TypeInv
<1>1. UNCHANGED <<task, sock, ws, board, sync, store, budget>>
  BY DEF Commit, RedisSubscribed, Publish, socket
<1>2. SyncTyped' /\ StoreTyped' /\ BudgetTyped' /\ Homeless' /\ TasksAimed'
  BY <1>1, KeepSync, KeepStore, KeepBudget, KeepHomeless, KeepTasks DEF sync
<1>3. LogTyped' /\ SocketTyped'
  <2>1. CASE Commit(b)
    <3>1. SocketTyped'
      BY <2>1, KeepSocket DEF Commit
    <3>2. committed[b] + 1 \in 0..MaxSeq
      BY <2>1, RealtimeAssumption DEF Commit, LogTyped
    <3> QED BY <2>1, <3>1, <3>2 DEF Commit, LogTyped
  <2>2. CASE RedisSubscribed(b)
    BY <2>2, KeepSocket DEF RedisSubscribed, LogTyped
  <2>3. ASSUME NEW n \in 1..MaxSeq, Publish(b, n) PROVE LogTyped' /\ SocketTyped'
    <3>1. published' \in [Boards -> SUBSET (1..MaxSeq)] /\ mark' \in [Sockets -> 0..MaxSeq]
      BY <2>3 DEF Publish, LogTyped
    <3>2. EventMessage(b, n) \in Messages
      BY DEF EventMessage, Messages, Event
    <3>3. ASSUME NEW s \in Sockets PROVE Append(inbox[s], EventMessage(b, n)) \in Seq(Messages)
      BY <3>2 DEF SocketTyped
    <3>4. inbox' \in [Sockets -> Seq(Messages)]
      BY <2>3, <3>3 DEF Publish, SocketTyped
    <3> QED BY <2>3, <3>1, <3>4, <1>1 DEF Publish, LogTyped, SocketTyped
  <2> QED BY <2>1, <2>2, <2>3
<1> QED BY <1>2, <1>3

LEMMA NoTaskTyped == NoTask \in Tasks /\ NoTask.at = "none"
  BY RealtimeAssumption DEF NoTask, Tasks

\* A subscribe task that ends, or moves on with the same connection and board.
LEMMA TaskMoves ==
  ASSUME TasksAimed, NEW o \in Sockets, NEW t, task' = [task EXCEPT ![o] = t],
         \/ t = NoTask
         \/ t \in Tasks /\ t.on = task[o].on /\ t.board = task[o].board /\ task[o].at # "none"
  PROVE  TasksAimed'
<1>1. t \in Tasks /\ (t.at # "none" => t.on \in Sockets /\ t.board \in Boards)
  BY NoTaskTyped DEF TasksAimed
<1> QED BY <1>1 DEF TasksAimed

LEMMA MinOfTwo ==
  ASSUME NEW a \in Nat, NEW b \in Nat
  PROVE  Min({a, b}) \in {a, b} /\ Min({a, b}) <= a /\ Min({a, b}) <= b
<1>1. \E x \in {a, b} : \A y \in {a, b} : x =< y
  OBVIOUS
<1> QED BY <1>1 DEF Min

\* The rows of a catch-up are messages of events.
LEMMA RowsTyped ==
  ASSUME NEW b \in Boards, NEW base \in 0..MaxSeq, NEW upto \in 0..MaxSeq
  PROVE  [i \in 1..(upto - base) |-> EventMessage(b, base + i)] \in Seq(Messages)
<1> DEFINE n == IF upto >= base THEN upto - base ELSE 0
           rows == [i \in 1..(upto - base) |-> EventMessage(b, base + i)]
<1>1. n \in Nat /\ 1..(upto - base) = 1..n
  BY RealtimeAssumption
<1>2. ASSUME NEW i \in 1..(upto - base) PROVE EventMessage(b, base + i) \in Messages
  <2>1. base + i \in 1..MaxSeq
    BY RealtimeAssumption
  <2> QED BY <2>1 DEF EventMessage, Messages, Event
<1>3. rows \in [1..n -> Messages]
  BY <1>1, <1>2
<1> HIDE DEF n, rows
<1>4. rows \in Seq(Messages)
  BY <1>1, <1>3
<1> QED BY <1>4 DEF rows

\* subscribeClient and performCatchUp.
LEMMA SubscribeTyped ==
  ASSUME TypeInv, NEW o \in Sockets, ServerStep(o) \/ CatchUpFails(o) PROVE TypeInv'
<1> USE DEF TypeInv
<1> DEFINE t == task[o]
<1>1. UNCHANGED <<committed, published, sock, ws, board, sync, store, budget>>
  BY DEF ServerStep, Register, Count, Select, SendRows, CatchUpFails, socket
<1>2. SyncTyped' /\ StoreTyped' /\ BudgetTyped' /\ Homeless'
  BY <1>1, KeepSync, KeepStore, KeepBudget, KeepHomeless DEF sync
<1>3. t \in Tasks /\ (t.at # "none" => t.on \in Sockets /\ t.board \in Boards)
  BY DEF TasksAimed
<1>4. CASE Register(o)
  <2> HIDE DEF t
  <2>1. [t EXCEPT !.at = "count"] \in Tasks /\ [t EXCEPT !.at = "count"].on = t.on
        /\ [t EXCEPT !.at = "count"].board = t.board
    BY <1>3 DEF Tasks
  <2>2. task' = [task EXCEPT ![o] = [t EXCEPT !.at = "count"]] /\ t.at # "none"
    BY <1>4 DEF Register, t
  <2>3. TasksAimed'
    BY <2>1, <2>2, TaskMoves DEF t
  <2>4. SocketTyped'
    BY <1>4, KeepSocket DEF Register
  <2>5. t.base \in 0..MaxSeq /\ t.on \in Sockets /\ t.board \in Boards
    BY <1>3, <2>2 DEF Tasks
  <2>6. /\ reg' = [reg EXCEPT ![t.on] = t.board] /\ mark' = [mark EXCEPT ![t.on] = t.base]
        /\ redisSub' = [redisSub EXCEPT ![t.board] = IF @ = "off" THEN "pending" ELSE @]
    BY <1>4 DEF Register, t
  <2>7. LogTyped'
    BY <2>5, <2>6, <1>1 DEF LogTyped
  <2> QED BY <1>2, <2>3, <2>4, <2>7
<1>5. CASE Count(o)
  <2>1. LogTyped'
    BY <1>5, KeepLog DEF Count
  <2>2. \/ task' = [task EXCEPT ![o] = NoTask]
        \/ task' = [task EXCEPT ![o] = [t EXCEPT !.at = "select"]]
    BY <1>5 DEF Count
  <2>3. t.at # "none" /\ t.on \in Sockets
    BY <1>3, <1>5 DEF Count
  <2>4. TasksAimed'
    <3> HIDE DEF t
    <3>1. [t EXCEPT !.at = "select"] \in Tasks /\ [t EXCEPT !.at = "select"].on = t.on
          /\ [t EXCEPT !.at = "select"].board = t.board
      BY <1>3 DEF Tasks
    <3> QED BY <2>2, <2>3, <3>1, TaskMoves DEF t
  <2>5. inbox' = inbox \/ inbox' = [inbox EXCEPT ![t.on] = Append(@, ResyncMessage)]
    BY <1>5 DEF Count
  <2>6. Append(inbox[t.on], ResyncMessage) \in Seq(Messages)
    BY <2>3 DEF SocketTyped, Messages
  <2>7. SocketTyped'
    <3> HIDE DEF t
    <3> QED BY <1>1, <2>3, <2>5, <2>6 DEF SocketTyped
  <2> QED BY <1>2, <2>1, <2>4, <2>7
<1>6. CASE Select(o)
  <2>1. LogTyped' /\ SocketTyped'
    BY <1>6, KeepLog, KeepSocket DEF Select
  <2> DEFINE upto == Min({committed[t.board], t.base + MaxCatchUp})
  <2>2. t.board \in Boards /\ t.at # "none" /\ t.base \in 0..MaxSeq
    BY <1>3, <1>6 DEF Select, Tasks
  <2>3. upto \in 0..MaxSeq
    <3>1. committed[t.board] \in 0..MaxSeq /\ t.base + MaxCatchUp \in Nat
      BY <2>2, RealtimeAssumption DEF LogTyped
    <3>2. committed[t.board] \in Nat
      BY <3>1, RealtimeAssumption
    <3>3. upto \in Nat /\ upto <= committed[t.board]
      BY <3>1, <3>2, MinOfTwo
    <3> HIDE DEF upto, t
    <3> QED BY <3>1, <3>3, RealtimeAssumption
  <2>4. task' = [task EXCEPT ![o] = [t EXCEPT !.at = "rows", !.upto = upto]]
    BY <1>6 DEF Select
  <2> HIDE DEF t, upto
  <2>5. /\ [t EXCEPT !.at = "rows", !.upto = upto] \in Tasks
        /\ [t EXCEPT !.at = "rows", !.upto = upto].on = t.on
        /\ [t EXCEPT !.at = "rows", !.upto = upto].board = t.board
    BY <1>3, <2>3 DEF Tasks
  <2>6. TasksAimed'
    BY <2>2, <2>4, <2>5, TaskMoves DEF t
  <2> QED BY <1>2, <2>1, <2>6
<1>7. CASE SendRows(o)
  <2> DEFINE rows == [i \in 1..(t.upto - t.base) |-> EventMessage(t.board, t.base + i)]
  <2>1. /\ t.on \in Sockets /\ t.board \in Boards
        /\ t.base \in 0..MaxSeq /\ t.upto \in 0..MaxSeq
    BY <1>3, <1>7 DEF SendRows, Tasks
  <2>2. rows \in Seq(Messages)
    BY <2>1, RowsTyped
  <2>3. /\ inbox' = [inbox EXCEPT ![t.on] = @ \o rows]
        /\ mark' = [mark EXCEPT ![t.on] = t.upto]
        /\ task' = [task EXCEPT ![o] = NoTask] /\ UNCHANGED <<redisSub, reg>>
    BY <1>7 DEF SendRows
  <2> HIDE DEF t, rows
  <2>4. inbox[t.on] \o rows \in Seq(Messages)
    BY <2>1, <2>2 DEF SocketTyped
  <2>5. LogTyped' /\ SocketTyped'
    BY <1>1, <2>1, <2>3, <2>4 DEF LogTyped, SocketTyped
  <2>6. TasksAimed'
    BY <2>3, TaskMoves
  <2> QED BY <1>2, <2>5, <2>6
<1>8. CASE CatchUpFails(o)
  <2>1. LogTyped' /\ SocketTyped' /\ task' = [task EXCEPT ![o] = NoTask]
    BY <1>8, KeepLog, KeepSocket DEF CatchUpFails
  <2> QED BY <1>2, <2>1, TaskMoves
<1> QED BY <1>4, <1>5, <1>6, <1>7, <1>8 DEF ServerStep

\* What applying e and draining the buffer leaves behind.
LEMMA ApplyDrains ==
  ASSUME StoreTyped, StoreInv, NEW e \in Event, e.seq = seq + 1, Apply(e)
  PROVE  /\ seq' \in 0..MaxSeq /\ e.seq <= seq'
         /\ \A k \in (e.seq + 1)..seq' : \E x \in buffer : x.seq = k
         /\ buffer' = {x \in buffer : x.seq > seq'}
         /\ applied' = applied \cup {e} \cup {x \in buffer : x.seq <= seq'}
         /\ BufferKnown' /\ NoStrandedEvent'
<1> DEFINE last == DrainTo(e.seq)
<1>1. e.seq \in 1..MaxSeq /\ \A x \in buffer : x.seq \in 1..MaxSeq
  BY DEF StoreTyped, Event
<1>2. /\ last \in Nat /\ e.seq <= last
      /\ \A k \in (e.seq + 1)..last : \E x \in buffer : x.seq = k
      /\ ~\E x \in buffer : x.seq = last + 1
  <2>1. IsFiniteSet(buffer) /\ e.seq \in Nat /\ \A x \in buffer : x.seq \in Nat
    BY <1>1 DEF StoreInv, BufferKnown
  <2> QED BY <2>1, DrainStops
<1>3. seq' = last /\ buffer' = buffer \ {x \in buffer : x.seq <= last}
      /\ applied' = applied \cup {e} \cup {x \in buffer : x.seq <= last}
  BY DEF Apply
<1> HIDE DEF last
<1>4. last <= MaxSeq
  <2>1. last = e.seq \/ last \in (e.seq + 1)..last
    BY <1>1, <1>2
  <2>2. last = e.seq \/ \E x \in buffer : x.seq = last
    BY <1>2, <2>1
  <2> QED BY <1>1, <2>2
<1>5. buffer' = {x \in buffer : x.seq > last}
  BY <1>1, <1>2, <1>3
<1>6. BufferKnown'
  <2>1. buffer' \in SUBSET buffer
    BY <1>5
  <2> QED BY <2>1, FS_Subset DEF BufferKnown, StoreInv
<1>7. NoStrandedEvent'
  <2> SUFFICES ASSUME NEW x \in buffer' PROVE x.seq > seq' + 1
    BY DEF NoStrandedEvent
  <2>1. x \in buffer /\ x.seq > last /\ x.seq # last + 1 /\ x.seq \in Nat
    BY <1>1, <1>2, <1>5
  <2> QED BY <2>1, <1>2, <1>3
<1> QED BY <1>2, <1>3, <1>4, <1>5, <1>6, <1>7, RealtimeAssumption

\* handleMessage: the reconciler leaves a store that fits.
LEMMA ReconcileKeeps ==
  ASSUME StoreTyped, StoreInv, NEW e \in Event, ~Ignored(e),
         \/ e.seq > seq + 1 /\ BufferGap(e)
         \/ e.seq = seq + 1 /\ Apply(e)
  PROVE  StoreTyped' /\ StoreInv'
<1>1. CASE e.seq > seq + 1 /\ BufferGap(e)
  <2>1. buffer' = {x \in buffer : x.seq # e.seq} \cup {e} /\ UNCHANGED <<seq, applied, loaded>>
        /\ status' \in StoreStatuses
    BY <1>1 DEF BufferGap, StoreStatuses
  <2>2. BufferKnown'
    <3>1. IsFiniteSet({x \in buffer : x.seq # e.seq})
      BY FS_Subset DEF StoreInv, BufferKnown
    <3>2. IsFiniteSet(buffer')
      BY <2>1, <3>1, FS_AddElement
    <3> QED BY <2>1, <3>2 DEF StoreInv, BufferKnown, Ignored
  <2>3. NoStrandedEvent'
    BY <1>1, <2>1 DEF StoreInv, NoStrandedEvent
  <2> QED BY <2>1, <2>2, <2>3 DEF StoreTyped, StoreInv
<1>2. CASE e.seq = seq + 1 /\ Apply(e)
  <2>1. seq' \in 0..MaxSeq /\ buffer' \in SUBSET Event /\ applied' \in SUBSET Event
        /\ BufferKnown' /\ NoStrandedEvent'
    BY <1>2, ApplyDrains DEF StoreTyped
  <2>2. status' \in StoreStatuses /\ loaded' = loaded
    BY <1>2 DEF Apply, StoreStatuses
  <2> QED BY <2>1, <2>2 DEF StoreTyped, StoreInv
<1> QED BY <1>1, <1>2

LEMMA KeepStoreInv == ASSUME StoreInv, UNCHANGED <<seq, buffer>> PROVE StoreInv'
  BY DEF StoreInv, BufferKnown, NoStrandedEvent

LEMMA DeliverKeeps ==
  ASSUME TypeInv, StoreInv, NEW s \in Sockets, Deliver(s) PROVE TypeInv' /\ StoreInv'
<1> USE DEF TypeInv
<1> DEFINE m == Head(inbox[s])
<1>1. UNCHANGED <<server, sock, ws, board, budget>> /\ inbox' = [inbox EXCEPT ![s] = Tail(@)]
  BY DEF Deliver
<1>2. LogTyped' /\ TasksAimed' /\ BudgetTyped'
  BY <1>1, KeepLog, KeepTasks, KeepBudget DEF server
<1>3. m \in Messages /\ Tail(inbox[s]) \in Seq(Messages)
  <2>1. inbox[s] \in Seq(Messages) /\ inbox[s] # <<>>
    BY DEF Deliver, SocketTyped
  <2> QED BY <2>1
<1>4. SocketTyped'
  BY <1>1, <1>3 DEF SocketTyped
<1>5. board = NoBoard => ws' = NoSock
  BY <1>1 DEF Homeless
<1>6. CASE Send("RESYNC_REQUIRED") /\ StatusSent("RESYNC_REQUIRED")
           /\ UNCHANGED <<seq, buffer, applied, loaded>>
  <2>1. SyncTyped'
    BY <1>6, PlainSendTyped
  <2>2. Homeless'
    BY <1>1, <1>5, <1>6, SendStaysIdle DEF Send
  <2>3. StoreTyped' /\ StoreInv'
    BY <1>6, StatusTyped, KeepStoreInv DEF StoreTyped, StatusSent
  <2> QED BY <1>2, <1>4, <2>1, <2>2, <2>3
<1>7. CASE UNCHANGED <<store, sync>>
  BY <1>1, <1>2, <1>4, <1>7, KeepSync, KeepStore, KeepHomeless, KeepStoreInv DEF store, sync
<1>8. ASSUME NEW e \in Event, ~Ignored(e),
             \/ e.seq > seq + 1 /\ BufferGap(e)
             \/ e.seq = seq + 1 /\ Apply(e)
      PROVE  TypeInv' /\ StoreInv'
  <2>1. StoreTyped' /\ StoreInv'
    BY <1>8, ReconcileKeeps
  <2>2. UNCHANGED sync \/ \E a \in {"RESYNC_REQUIRED", "GAP_DETECTED", "GAP_FILLED"} : Send(a)
    BY <1>8 DEF BufferGap, Apply
  <2>3. SyncTyped'
    BY <2>2, KeepSync, PlainSendTyped
  <2>4. Homeless'
    BY <1>1, <1>5, <2>2, SendStaysIdle, KeepHomeless DEF Send, sync
  <2> QED BY <1>2, <1>4, <2>1, <2>3, <2>4
<1>9. m.type = "EVENT" => m.event \in Event
  BY <1>3 DEF Messages, ResyncMessage
<1> QED BY <1>6, <1>7, <1>8, <1>9 DEF Deliver

\* handleOpen: the subscribe task is for a socket and a board.
LEMMA OpenKeeps ==
  ASSUME TypeInv, StoreInv, NEW s \in Sockets, SocketOpens(s) PROVE TypeInv' /\ StoreInv'
<1> USE DEF TypeInv
<1>1. LogTyped' /\ BudgetTyped' /\ StoreInv'
  BY KeepLog, KeepBudget, KeepStoreInv DEF SocketOpens
<1>2. sock' = [sock EXCEPT ![s] = "open"] /\ UNCHANGED <<inbox, ws, board>>
  BY DEF SocketOpens
<1>3. SocketTyped'
  BY <1>2 DEF SocketTyped
<1>4. TasksAimed'
  <2> DEFINE t == [NoTask EXCEPT !.at = "auth", !.on = ws, !.board = board, !.base = seq]
  <2>1. CASE ws \in Sockets
    <3>1. board \in Boards /\ seq \in 0..MaxSeq
      BY <2>1, RealtimeAssumption DEF Homeless, SocketTyped, StoreTyped
    <3>2. t \in Tasks /\ t.on = ws /\ t.board = board
      BY <2>1, <3>1, NoTaskTyped DEF Tasks
    <3>3. task' = task \/ task' = [task EXCEPT ![s] = t]
      BY DEF SocketOpens
    <3> HIDE DEF t
    <3> QED BY <2>1, <3>1, <3>2, <3>3, KeepTasks DEF TasksAimed
  <2>2. CASE ws \notin Sockets
    BY <2>2, KeepTasks DEF SocketOpens
  <2> QED BY <2>1, <2>2
<1>5. SyncTyped'
  BY PlainSendTyped DEF SocketOpens
<1>6. Homeless'
  BY <1>2, SendStaysIdle DEF SocketOpens, Send, Homeless
<1>7. StoreTyped'
  BY StatusTyped DEF SocketOpens, StatusSent, StoreTyped
<1> QED BY <1>1, <1>3, <1>4, <1>5, <1>6, <1>7

LEMMA CloseKeeps ==
  ASSUME TypeInv, StoreInv, NEW s \in Sockets, CloseCompletes(s) \/ SocketDrops(s)
  PROVE  TypeInv' /\ StoreInv'
<1> USE DEF TypeInv
<1>1. HandleClose(s) /\ BudgetTyped'
  <2>1. CASE CloseCompletes(s)
    BY <2>1, KeepBudget DEF CloseCompletes
  <2>2. CASE SocketDrops(s)
    BY <2>2, RealtimeAssumption DEF SocketDrops, BudgetTyped
  <2> QED BY <2>1, <2>2
<1>2. LogTyped'
  BY <1>1, RealtimeAssumption DEF HandleClose, Forget, LogTyped
<1>3. TasksAimed'
  <2>1. task' = [o \in Sockets |-> IF task[o].on = s THEN NoTask ELSE task[o]]
    BY <1>1 DEF HandleClose, Forget
  <2> QED BY <2>1, NoTaskTyped DEF TasksAimed
<1>4. SocketTyped'
  <2>1. <<>> \in Seq(Messages)
    OBVIOUS
  <2>2. sock' = [sock EXCEPT ![s] = "closed"] /\ inbox' = [inbox EXCEPT ![s] = <<>>]
        /\ ws' = NoSock /\ board' = board
    BY <1>1 DEF HandleClose, Forget
  <2> QED BY <2>1, <2>2 DEF SocketTyped
<1>5. SyncTyped' /\ Homeless'
  BY <1>1, PlainSendTyped, SendStaysIdle DEF HandleClose, Send
<1>6. StoreTyped' /\ StoreInv'
  BY <1>1, StatusTyped, KeepStoreInv DEF HandleClose, StatusSent, StoreTyped
<1> QED BY <1>1, <1>2, <1>3, <1>4, <1>5, <1>6

\* new WebSocket(url) takes a socket that is closed.
LEMMA OpenNewTyped ==
  ASSUME NEW socks \in [Sockets -> {"closed", "connecting", "open", "closing"}],
         OpenNew(socks)
  PROVE  /\ sock' \in [Sockets -> {"closed", "connecting", "open", "closing"}]
         /\ ws' \in Sockets
  BY DEF OpenNew

\* The gap timer, the reconnect timer and the retry by hand.
LEMMA TimerKeeps ==
  ASSUME TypeInv, StoreInv, Timer \/ ManualReconnect PROVE TypeInv' /\ StoreInv'
<1> USE DEF TypeInv
<1>1. UNCHANGED <<server, inbox, board, seq, buffer, applied, loaded, budget>>
  BY DEF Timer, GapTimerFires, ReconnectFires, ManualReconnect, socket, store
<1>2. LogTyped' /\ TasksAimed' /\ BudgetTyped' /\ StoreInv'
  BY <1>1, KeepLog, KeepTasks, KeepBudget, KeepStoreInv DEF server
<1>3. CASE GapTimerFires
  <2>1. UNCHANGED socket /\ Send("GAP_TIMEOUT") /\ StatusSent("GAP_TIMEOUT")
    BY <1>3 DEF GapTimerFires
  <2>2. SocketTyped' /\ SyncTyped'
    BY <2>1, KeepSocket, PlainSendTyped
  <2>3. Homeless'
    BY <2>1, SendStaysIdle DEF Send, Homeless, socket
  <2>4. StoreTyped'
    BY <1>1, <2>1, StatusTyped DEF StoreTyped, StatusSent
  <2> QED BY <1>2, <2>2, <2>3, <2>4
<1>4. CASE ReconnectFires
  <2> DEFINE m == AttemptMessage(reconnect)
  <2>1. reconnect > 0 /\ fsm = "RECONNECTING" /\ board # NoBoard /\ reconnect \in 0..MaxAttempts
    BY <1>4 DEF ReconnectFires, SyncTyped, TimerInv, TimersMatchState, Homeless
  <2>2. SendAttempt(m, reconnect, 0) /\ StatusSent(m)
    BY <1>4 DEF ReconnectFires
  <2>3. m = "RECONNECT_ATTEMPT" => reconnect < MaxAttempts
    BY <2>1, AttemptAssumption DEF AttemptMessage
  <2>4. TimerMessage(m)
    BY DEF AttemptMessage, TimerMessage
  <2>5. 0 \in 0..MaxAttempts
    BY AttemptAssumption
  <2> HIDE DEF m
  <2>6. SyncTyped'
    BY <2>1, <2>2, <2>3, <2>4, <2>5, SendTyped
  <2>7. SocketTyped'
    <3>1. CASE ws = NoSock
      BY <1>1, <1>4, <3>1, OpenNewTyped DEF ReconnectFires, SocketTyped
    <3>2. CASE ws # NoSock
      BY <1>1, <1>4, <3>2 DEF ReconnectFires, SocketTyped
    <3> QED BY <3>1, <3>2
  <2>8. Homeless' /\ StoreTyped'
    BY <1>1, <2>1, <2>2, StatusTyped DEF Homeless, StoreTyped, StatusSent
  <2> QED BY <1>2, <2>6, <2>7, <2>8
<1>5. CASE ManualReconnect
  <2>1. UNCHANGED <<socket, store>> /\ board # NoBoard
        /\ SendAttempt("RECONNECT_ATTEMPT", 0, reconnect)
    BY <1>5 DEF ManualReconnect
  <2>2. 0 \in 0..MaxAttempts /\ 0 < MaxAttempts
    BY AttemptAssumption
  <2>3. SyncTyped'
    BY <2>1, <2>2, SendTyped DEF SyncTyped, TimerInv, TimersMatchState
  <2> QED BY <1>1, <1>2, <2>1, <2>3, KeepSocket, KeepStore DEF Homeless
<1> QED BY <1>3, <1>4, <1>5 DEF Timer

\* initBoard: an empty store, whatever was buffered.
LEMMA InitBoardKeeps ==
  ASSUME LogTyped, NEW b \in Boards, InitBoard(b), status' = "healthy"
  PROVE  StoreTyped' /\ StoreInv'
<1>1. committed[b] \in 0..MaxSeq /\ 0 \in 0..MaxSeq
  BY RealtimeAssumption DEF LogTyped
<1>2. IsFiniteSet(buffer')
  BY FS_EmptySet DEF InitBoard
<1> QED BY <1>1, <1>2 DEF InitBoard, StoreTyped, StoreStatuses, StoreInv, BufferKnown,
           NoStrandedEvent

\* The effects of the page: mount, unmount and the hydration.
LEMMA PageKeeps ==
  ASSUME TypeInv, StoreInv, Unmount \/ Rehydrate \/ \E b \in Boards : Mount(b)
  PROVE  TypeInv' /\ StoreInv'
<1> USE DEF TypeInv
<1>1. UNCHANGED <<server, inbox>>
  BY DEF Unmount, Rehydrate, Mount, socket
<1>2. LogTyped' /\ TasksAimed'
  BY <1>1, KeepLog, KeepTasks DEF server
<1>3. TimerInv'
  BY MountKeepsTimers DEF SyncTyped
<1>4. ClosingOwn \in [Sockets -> {"closed", "connecting", "open", "closing"}]
  BY DEF ClosingOwn, SocketTyped
<1>5. ASSUME resync' = Aborted PROVE ResyncTyped' /\ (resync'.phase = "off" \/ resync'.aborted)
  BY <1>5 DEF Aborted, SyncTyped, ResyncTyped
<1>6. 0 \in 0..MaxAttempts
  BY AttemptAssumption
<1>7. CASE Unmount
  <2>1. SyncTyped' /\ Homeless'
    <3>1. /\ fsm' = "IDLE" /\ reconnect' = 0 /\ resync' = Aborted /\ ws' = NoSock
          /\ gapTimer' = FALSE
      BY <1>7 DEF Unmount
    <3>2. gapTimer' \in BOOLEAN
      BY Zenon, <3>1
    <3> QED BY <1>3, <1>5, <1>6, <3>1, <3>2 DEF SyncTyped, Homeless
  <2>2. SocketTyped'
    BY <1>1, <1>4, <1>7 DEF Unmount, SocketTyped
  <2>3. BudgetTyped' /\ StoreTyped' /\ StoreInv'
    BY <1>7, KeepBudget, KeepStore, KeepStoreInv DEF Unmount, store
  <2> QED BY <1>2, <2>1, <2>2, <2>3
<1>8. CASE Rehydrate
  <2>1. SyncTyped' /\ SocketTyped' /\ Homeless'
    BY <1>8, KeepSync, KeepSocket, KeepHomeless DEF Rehydrate, sync, socket
  <2>2. StoreTyped' /\ StoreInv'
    BY <1>8, InitBoardKeeps DEF Rehydrate, SocketTyped
  <2>3. BudgetTyped'
    BY <1>8, RealtimeAssumption DEF Rehydrate, BudgetTyped
  <2> QED BY <1>2, <2>1, <2>2, <2>3
<1>9. ASSUME NEW b \in Boards, Mount(b) PROVE TypeInv' /\ StoreInv'
  <2>1. SyncTyped'
    <3>1. reconnect' = 0 /\ resync' = Aborted /\ gapTimer' = FALSE
      BY <1>9 DEF Mount
    <3>2. gapTimer' \in BOOLEAN
      BY Zenon, <3>1
    <3> QED BY <1>3, <1>5, <1>6, <3>1, <3>2 DEF SyncTyped
  <2>2. SocketTyped' /\ Homeless'
    BY <1>1, <1>4, <1>9, OpenNewTyped, RealtimeAssumption DEF Mount, SocketTyped, Homeless
  <2>3. StoreTyped' /\ StoreInv'
    BY <1>9, InitBoardKeeps DEF Mount
  <2>4. BudgetTyped'
    BY <1>9, RealtimeAssumption DEF Mount, BudgetTyped
  <2> QED BY <1>2, <2>1, <2>2, <2>3, <2>4
<1> QED BY <1>7, <1>8, <1>9

\* runFullResync: it only completes for a board that is still mounted.
LEMMA ResyncKeeps ==
  ASSUME TypeInv, StoreInv, ResyncReads \/ ResyncCompletes \/ ResyncFails
  PROVE  TypeInv' /\ StoreInv'
<1> USE DEF TypeInv
<1>1. UNCHANGED <<server, socket>>
  BY DEF ResyncReads, ResyncCompletes, ResyncFails
<1>2. LogTyped' /\ TasksAimed' /\ SocketTyped'
  BY <1>1, KeepLog, KeepTasks, KeepSocket DEF server
<1>3. TimerInv'
  BY ResyncKeepsTimers DEF SyncTyped
<1>4. ASSUME resync' = NoResync PROVE ResyncTyped' /\ resync'.phase = "off"
  BY <1>4, RealtimeAssumption DEF NoResync, ResyncTyped
<1>5. CASE ResyncReads
  <2>1. resync.phase = "fetching" /\ ~resync.aborted
        /\ resync' = [resync EXCEPT !.phase = "fetched", !.upto = committed[board]]
        /\ UNCHANGED <<fsm, gapTimer, reconnect>>
    BY <1>5 DEF ResyncReads
  <2>2. board \in Boards
    BY <2>1 DEF Homeless, SocketTyped
  <2>3. committed[board] \in 0..MaxSeq
    BY <2>2 DEF LogTyped
  <2>4. ResyncTyped'
    BY <2>1, <2>3 DEF SyncTyped, ResyncTyped
  <2>5. StoreTyped' /\ BudgetTyped' /\ StoreInv'
    BY <1>5, KeepStore, KeepBudget, KeepStoreInv DEF ResyncReads, store
  <2> QED BY <1>2, <1>1, <1>3, <2>1, <2>2, <2>4, <2>5, RealtimeAssumption
          DEF SyncTyped, Homeless, socket
<1>6. CASE ResyncCompletes
  <2>1. resync.phase = "fetched" /\ ~resync.aborted /\ resync' = NoResync
    BY <1>6 DEF ResyncCompletes
  <2>2. board \in Boards /\ board' = board /\ resync.upto \in 0..MaxSeq
    BY <1>1, <2>1 DEF Homeless, SocketTyped, SyncTyped, ResyncTyped, socket
  <2>3. gapTimer' \in BOOLEAN /\ reconnect' \in {0, reconnect} /\ reconnect' \in 0..MaxAttempts
    <3>1. (fsm' = Transition(fsm, "REPLAY_COMPLETE") /\ fsm' # "RECONNECTING") \/ fsm' = fsm
      BY <1>6 DEF ResyncCompletes, Transition
    <3>2. reconnect' \in {0, reconnect}
      BY <1>6, <3>1 DEF ResyncCompletes, ReconnectAfter
    <3> QED BY <1>6, <3>2, AttemptAssumption DEF ResyncCompletes, GapTimerAfter, SyncTyped
  <2>4. status' \in StoreStatuses
    BY <1>6, StatusTyped DEF ResyncCompletes, StoreStatuses
  <2>5. seq' = resync.upto /\ loaded' = resync.upto /\ buffer' = {}
        /\ applied' = {[board |-> board, seq |-> n] : n \in (1..resync.upto) \ Unknown}
    BY <1>6 DEF ResyncCompletes
  <2>6. applied' \in SUBSET Event
    BY <2>2, <2>5, RealtimeAssumption DEF Event
  <2>7. StoreTyped' /\ StoreInv'
    BY <2>2, <2>4, <2>5, <2>6, FS_EmptySet DEF StoreTyped, StoreInv, BufferKnown,
       NoStrandedEvent
  <2>8. BudgetTyped' /\ Homeless'
    BY <1>6, <2>2, KeepBudget, RealtimeAssumption DEF ResyncCompletes, Homeless
  <2> QED BY <1>2, <1>3, <1>4, <2>1, <2>3, <2>7, <2>8 DEF SyncTyped
<1>7. CASE ResyncFails
  <2>1. gapTimer' \in BOOLEAN /\ reconnect' \in 0..MaxAttempts
    <3>1. (fsm' = Transition(fsm, "REPLAY_FAILED") /\ fsm' # "RECONNECTING") \/ fsm' = fsm
      BY <1>7 DEF ResyncFails, Transition
    <3>2. reconnect' \in {0, reconnect}
      BY <1>7, <3>1 DEF ResyncFails, ReconnectAfter
    <3> QED BY <1>7, <3>2, AttemptAssumption DEF ResyncFails, GapTimerAfter, SyncTyped
  <2>2. Homeless'
    <3>1. fsm = "IDLE" => fsm' = "IDLE"
      BY <1>7 DEF ResyncFails, Transition
    <3>2. resync'.phase = "off"
      BY <1>4, <1>7 DEF ResyncFails
    <3> QED BY <1>1, <3>1, <3>2 DEF Homeless, socket
  <2>3. BudgetTyped'
    BY <1>7, RealtimeAssumption DEF ResyncFails, BudgetTyped
  <2>4. StoreTyped' /\ StoreInv'
    BY <1>7, StatusTyped, KeepStoreInv DEF ResyncFails, StatusSent, StoreTyped
  <2> QED BY <1>2, <1>3, <1>4, <1>7, <2>1, <2>2, <2>3, <2>4 DEF SyncTyped, ResyncFails
<1> QED BY <1>5, <1>6, <1>7

LEMMA NextStoreInv == TypeInv /\ StoreInv /\ [Next]_vars => (TypeInv /\ StoreInv)'
<1> SUFFICES ASSUME TypeInv, StoreInv, [Next]_vars PROVE (TypeInv /\ StoreInv)'
  OBVIOUS
<1>1. CASE UNCHANGED vars
  <2>1. UNCHANGED <<server, socket, sync, store, budget>>
    BY <1>1 DEF vars
  <2>2. LogTyped' /\ TasksAimed' /\ SocketTyped' /\ SyncTyped'
    BY <2>1, KeepLog, KeepTasks, KeepSocket, KeepSync DEF TypeInv, server
  <2>3. StoreTyped' /\ BudgetTyped' /\ Homeless' /\ StoreInv'
    BY <2>1, KeepStore, KeepBudget, KeepHomeless, KeepStoreInv DEF TypeInv, socket, sync, store
  <2> QED BY <2>2, <2>3 DEF TypeInv
<1>2. ASSUME NEW b \in Boards,
             Commit(b) \/ RedisSubscribed(b) \/ \E n \in 1..MaxSeq : Publish(b, n)
      PROVE  (TypeInv /\ StoreInv)'
  <2>1. UNCHANGED <<seq, buffer>>
    BY <1>2 DEF Commit, RedisSubscribed, Publish, store
  <2> QED BY <1>2, <2>1, LogStepTyped, KeepStoreInv
<1>3. ASSUME NEW s \in Sockets, ServerStep(s) \/ CatchUpFails(s) PROVE (TypeInv /\ StoreInv)'
  <2>1. UNCHANGED <<seq, buffer>>
    BY <1>3 DEF ServerStep, Register, Count, Select, SendRows, CatchUpFails, store
  <2> QED BY <1>3, <2>1, SubscribeTyped, KeepStoreInv
<1>4. ASSUME NEW s \in Sockets, TabStep(s) \/ SocketDrops(s) PROVE (TypeInv /\ StoreInv)'
  BY <1>4, OpenKeeps, CloseKeeps, DeliverKeeps DEF TabStep
<1> QED BY <1>1, <1>2, <1>3, <1>4, TimerKeeps, PageKeeps, ResyncKeeps DEF Next

\* Every variable keeps its type, whatever is lost, reordered or remounted.
THEOREM TypeCorrect == Spec => []TypeOK
<1> QED BY InitTypeInv, NextStoreInv, TypeInvIsTypeOK, PTL DEF Spec

\* Nothing that could be applied stays in the buffer: draining goes on to the
\* first hole, for every order of arrival, foreign events and resyncs included.
THEOREM NothingStranded == Spec => []NoStrandedEvent
<1>1. TypeInv /\ StoreInv => NoStrandedEvent
  BY DEF StoreInv
<1> QED BY <1>1, InitTypeInv, NextStoreInv, PTL DEF Spec
-----------------------------------------------------------------------------
(* What the board shows. With two boards a socket of the one that was left    *)
(* can still deliver to the other (README, section 5), so this holds  *)
(* of a tab that only ever shows one board.                                   *)

Prefix(b, n) == {[board |-> b, seq |-> k] : k \in (1..n) \ Unknown}

\* Applying the next event and draining the buffer extends the prefix.
LEMMA ApplyExtends ==
  ASSUME NEW b \in Boards, Boards = {b}, TypeInv, StoreInv, applied = Prefix(b, seq),
         NEW e \in Event, ~Ignored(e), e.seq = seq + 1, Apply(e)
  PROVE  applied' = Prefix(b, seq')
<1>1. /\ seq' \in 0..MaxSeq /\ e.seq <= seq'
      /\ \A k \in (e.seq + 1)..seq' : \E x \in buffer : x.seq = k
      /\ applied' = applied \cup {e} \cup {x \in buffer : x.seq <= seq'}
  BY ApplyDrains DEF TypeInv
<1>2. ASSUME NEW x \in Event PROVE x = [board |-> b, seq |-> x.seq] /\ x.seq \in 1..MaxSeq
  BY <1>2 DEF Event
<1>3. seq \in 0..MaxSeq /\ MaxSeq \in Nat /\ buffer \in SUBSET Event
  BY RealtimeAssumption DEF TypeInv, StoreTyped
<1>4. ASSUME NEW x \in applied' PROVE x \in Prefix(b, seq')
  <2>1. CASE x \in applied
    <3>1. PICK k \in (1..seq) \ Unknown : x = [board |-> b, seq |-> k]
      BY <2>1 DEF Prefix
    <3>2. k \in (1..seq') \ Unknown
      BY <1>1, <1>3, <3>1
    <3> QED BY <3>1, <3>2 DEF Prefix
  <2>2. CASE x = e
    <3>1. e.seq \in (1..seq') \ Unknown
      BY <1>1, <1>2, <1>3 DEF Ignored
    <3> QED BY <1>2, <2>2, <3>1 DEF Prefix
  <2>3. CASE x \in buffer /\ x.seq <= seq'
    <3>1. x.seq \in (1..seq') \ Unknown
      BY <1>1, <1>2, <1>3, <2>3 DEF StoreInv, BufferKnown
    <3> QED BY <1>2, <1>3, <2>3, <3>1 DEF Prefix
  <2> QED BY <1>1, <2>1, <2>2, <2>3
<1>5. ASSUME NEW x \in Prefix(b, seq') PROVE x \in applied'
  <2>1. PICK k \in (1..seq') \ Unknown : x = [board |-> b, seq |-> k]
    BY <1>5 DEF Prefix
  <2>2. CASE k \in 1..seq
    BY <1>1, <2>1, <2>2 DEF Prefix
  <2>3. CASE k = e.seq
    BY <1>1, <1>2, <2>1, <2>3
  <2>4. CASE k \in (e.seq + 1)..seq'
    <3>1. PICK y \in buffer : y.seq = k
      BY <1>1, <2>4
    <3>2. y = x /\ y.seq <= seq'
      BY <1>2, <1>3, <2>1, <2>4, <3>1
    <3> QED BY <1>1, <3>1, <3>2
  <2> QED BY <1>1, <1>3, <2>1, <2>2, <2>3, <2>4
<1> QED BY <1>4, <1>5

LEMMA NextProjection ==
  ASSUME NEW b, Boards = {b}
  PROVE  TypeInv /\ StoreInv /\ ProjectionIsPrefix /\ [Next]_vars => ProjectionIsPrefix'
<1> SUFFICES ASSUME TypeInv, StoreInv, ProjectionIsPrefix, [Next]_vars, board' \in Boards
             PROVE  applied' = Prefix(b, seq')
  BY DEF ProjectionIsPrefix, Prefix
<1>1. board' = b /\ b \in Boards
  OBVIOUS
<1>2. ASSUME UNCHANGED <<board, seq, applied>> PROVE applied' = Prefix(b, seq')
  BY <1>1, <1>2 DEF ProjectionIsPrefix, Prefix
<1>3. ASSUME NEW c \in Boards, InitBoard(c) PROVE applied' = Prefix(b, seq')
  BY <1>3 DEF InitBoard, Prefix
<1>4. CASE Unmount
  BY <1>1, <1>4, RealtimeAssumption DEF Unmount
<1>5. CASE Rehydrate \/ \E c \in Boards : Mount(c)
  BY <1>3, <1>5 DEF Rehydrate, Mount, TypeInv, SocketTyped
<1>6. CASE ResyncCompletes
  BY <1>1, <1>6 DEF ResyncCompletes, socket, Prefix
<1>7. CASE ResyncReads \/ ResyncFails
  BY <1>2, <1>7 DEF ResyncReads, ResyncFails, socket, store
<1>8. CASE Timer \/ ManualReconnect
  BY <1>2, <1>8 DEF Timer, GapTimerFires, ReconnectFires, ManualReconnect, socket, store
<1>9. ASSUME NEW s \in Sockets, ServerStep(s) \/ CatchUpFails(s) PROVE applied' = Prefix(b, seq')
  BY <1>2, <1>9 DEF ServerStep, Register, Count, Select, SendRows, CatchUpFails, socket, store
<1>10. ASSUME NEW s \in Sockets, SocketOpens(s) \/ CloseCompletes(s) \/ SocketDrops(s)
       PROVE  applied' = Prefix(b, seq')
  BY <1>2, <1>10 DEF SocketOpens, CloseCompletes, SocketDrops, HandleClose
<1>11. ASSUME NEW s \in Sockets, Deliver(s) PROVE applied' = Prefix(b, seq')
  <2> DEFINE m == Head(inbox[s])
  <2>1. board = b /\ applied = Prefix(b, seq)
    BY <1>1, <1>11 DEF Deliver, ProjectionIsPrefix, Prefix
  <2>2. CASE UNCHANGED <<seq, applied>>
    BY <2>1, <2>2
  <2>3. ASSUME NEW e \in Event, ~Ignored(e), e.seq = seq + 1, Apply(e)
        PROVE  applied' = Prefix(b, seq')
    BY <1>1, <2>1, <2>3, ApplyExtends
  <2>4. m.type = "EVENT" => m.event \in Event
    <3>1. inbox[s] \in Seq(Messages) /\ inbox[s] # <<>>
      BY <1>11 DEF Deliver, TypeInv, SocketTyped
    <3>2. m \in Messages
      BY <3>1
    <3> QED BY <3>2 DEF Messages, ResyncMessage
  <2> QED BY <1>11, <2>2, <2>3, <2>4 DEF Deliver, BufferGap, store
<1>12. ASSUME NEW c \in Boards,
              Commit(c) \/ RedisSubscribed(c) \/ \E n \in 1..MaxSeq : Publish(c, n)
       PROVE  applied' = Prefix(b, seq')
  BY <1>2, <1>12 DEF Commit, RedisSubscribed, Publish, socket, store
<1>13. CASE UNCHANGED vars
  BY <1>2, <1>13 DEF vars, socket, store
<1> QED BY <1>4, <1>5, <1>6, <1>7, <1>8, <1>9, <1>10, <1>11, <1>12, <1>13 DEF Next, TabStep

\* The board shows exactly the events of its log up to boardSequence, whatever
\* arrives twice, out of order or not at all, and however often it is resynced.
THEOREM ProjectionSound ==
  ASSUME NEW b, Boards = {b} PROVE Spec => []ProjectionIsPrefix
<1>1. Init => ProjectionIsPrefix
  BY RealtimeAssumption DEF Init, ProjectionIsPrefix
<1> QED BY <1>1, InitTypeInv, NextStoreInv, NextProjection, PTL DEF Spec
-----------------------------------------------------------------------------
(* Nothing below the watermark is lost, within the limits this takes: the     *)
(* server listens to every channel, events are first published in order, the  *)
(* catch-up neither fails nor is cut off, nothing resets the store under an   *)
(* open socket, and the tab does not keep the socket of an earlier mount.     *)
(* Beyond any one of them an event can be lost until the next subscribe.      *)

WithinLimits ==
    /\ Subscribed = Boards /\ InOrder
    /\ ~CatchUpMayFail /\ MaxSeq <= ResyncThreshold /\ MaxSeq <= MaxCatchUp
    /\ ~FetchJournal /\ MaxRehydrations = 0
    /\ MaxMounts <= 1 \/ \A s, u \in Sockets : s = u

\* Redis has been given a prefix of each board's log, and the server listens.
LogInOrder == /\ \A b \in Boards : redisSub[b] = "on"
              /\ \A b \in Boards : \A n \in published[b] :
                    n <= committed[b] /\ \A k \in 1..n : k \in published[b]

\* The tab has one socket at a time, and a board as long as it is not closing it.
OneSocket ==
    /\ \A s, u \in Sockets : sock[s] # "closed" /\ sock[u] # "closed" => s = u
    /\ \A s \in Sockets : sock[s] \in {"connecting", "open"} <=> ws = s
    /\ \A s \in Sockets : sock[s] = "closing" => board = NoBoard
    /\ MaxMounts <= 1 /\ mounts = 0 => board = NoBoard
    /\ MaxMounts <= 1 /\ mounts = 0 => \A s \in Sockets : sock[s] = "closed"

Catching == {"count", "select", "rows"}

\* The one subscribe of a connection: what it was sent from is on the board.
InStage ==
    /\ \A s \in Sockets : sock[s] \in {"closed", "connecting"} => reg[s] = NoBoard
    /\ \A s \in Sockets : sock[s] \in {"closed", "connecting"} => task[s].at = "none"
    /\ \A s \in Sockets : task[s].at # "none" => task[s].on = s
    /\ \A s \in Sockets : task[s].at # "none" => task[s].base <= seq
    /\ \A s \in Sockets : task[s].at = "auth" => reg[s] = NoBoard
    /\ \A s \in Sockets : task[s].at \in Catching => reg[s] = task[s].board
    /\ \A s \in Sockets : task[s].at \in Catching =>
          mark[s] <= task[s].base \/ mark[s] <= committed[task[s].board]

\* Where the event n of board b can be: in the store that is at q and buffers buf,
\* in the queue of the connection, or among the rows its subscribe t will read.
Had(q, buf, n) == n <= q \/ \E e \in buf : e.seq = n
InQueue(msgs, b, n) == \E i \in 1..Len(msgs) : msgs[i] = EventMessage(b, n)
ToBeRead(t, n) == \/ t.at \in {"auth", "count", "select"} /\ n > t.base
                  \/ t.at = "rows" /\ n \in (t.base + 1)..t.upto

\* An open connection owes the tab what is published or below its watermark m.
Owed(pub, m) == {n \in 1..MaxSeq \ Unknown : n \in pub \/ n <= m}

AllCovered ==
    \A s \in Sockets : sock[s] = "open" /\ reg[s] \in Boards =>
        \A n \in Owed(published[reg[s]], mark[s]) :
            \/ Had(seq, buffer, n)
            \/ InQueue(inbox[s], reg[s], n)
            \/ ToBeRead(task[s], n)

StreamInv == LogInOrder /\ OneSocket /\ InStage /\ AllCovered /\ resync.phase = "off"

LEMMA StreamLosesNothing == TypeInv /\ StreamInv => NothingLostBelowMark
<1> SUFFICES ASSUME TypeInv, StreamInv, NEW s \in Sockets, reg[s] \in Boards, sock[s] = "open",
                    NEW n \in (1..mark[s]) \ Unknown
             PROVE  n <= seq \/ (\E e \in buffer : e.seq = n) \/ Underway(s, n)
  BY DEF NothingLostBelowMark
<1>1. n \in Owed(published[reg[s]], mark[s])
  BY RealtimeAssumption DEF Owed, TypeInv, LogTyped
<1>2. \/ Had(seq, buffer, n)
      \/ InQueue(inbox[s], reg[s], n)
      \/ ToBeRead(task[s], n)
  BY <1>1 DEF StreamInv, AllCovered
<1>3. ToBeRead(task[s], n) => task[s].on = s
  BY DEF ToBeRead, StreamInv, InStage
<1> QED BY <1>2, <1>3 DEF Had, InQueue, ToBeRead, Underway

LEMMA InitStream == ASSUME WithinLimits, Init PROVE StreamInv
<1> USE RealtimeAssumption
<1>1. LogInOrder
  BY DEF Init, LogInOrder, WithinLimits
<1>2. OneSocket
  BY DEF Init, OneSocket
<1>3. InStage
  BY DEF Init, InStage, NoTask, Catching
<1>4. AllCovered /\ resync.phase = "off"
  BY DEF Init, AllCovered, NoResync
<1> QED BY <1>1, <1>2, <1>3, <1>4 DEF StreamInv

\* What an action leaves alone.
LEMMA KeepLogInOrder ==
  ASSUME LogInOrder, UNCHANGED <<committed, published, redisSub>> PROVE LogInOrder'
  BY DEF LogInOrder
LEMMA KeepOneSocket ==
  ASSUME OneSocket, UNCHANGED <<sock, ws, board, mounts>> PROVE OneSocket'
  BY DEF OneSocket
LEMMA KeepStage ==
  ASSUME InStage, UNCHANGED <<sock, reg, mark, task, committed, seq>> PROVE InStage'
  BY DEF InStage
LEMMA KeepCovered ==
  ASSUME AllCovered, UNCHANGED <<published, sock, reg, mark, task, inbox, seq, buffer>>
  PROVE  AllCovered'
  BY DEF AllCovered

\* Without a fetchJournal no message starts a resync.
LEMMA SendStartsNoResync ==
  ASSUME WithinLimits, NEW m, NEW n, NEW timer, SendAttempt(m, n, timer)
  PROVE  resync' = resync
  BY DEF SendAttempt, ResyncAfter, WithinLimits

\* The log grows and is published in order.
LEMMA LogStream ==
  ASSUME WithinLimits, TypeInv, StreamInv, NEW b \in Boards,
         Commit(b) \/ RedisSubscribed(b) \/ \E n \in 1..MaxSeq : Publish(b, n)
  PROVE  StreamInv'
<1> USE DEF StreamInv
<1>1. /\ UNCHANGED <<reg, task, sock, ws, board, seq, buffer, mounts>>
      /\ resync' = resync
  BY DEF Commit, RedisSubscribed, Publish, socket, sync, store, budget
<1>2. OneSocket' /\ resync'.phase = "off"
  BY <1>1, KeepOneSocket
<1>3. CASE Commit(b)
  <2>1. committed' = [committed EXCEPT ![b] = @ + 1]
        /\ UNCHANGED <<published, redisSub, mark, inbox>>
    BY <1>3 DEF Commit, socket
  <2>2. \A c \in Boards : committed[c] \in Nat
    BY RealtimeAssumption DEF TypeInv, LogTyped
  <2>3. \A c \in Boards : committed'[c] \in Nat /\ committed[c] <= committed'[c]
    BY <2>1, <2>2 DEF TypeInv, LogTyped
  <2>4. LogInOrder'
    <3>1. \A c \in Boards : \A n \in published[c] : n \in Nat
      BY RealtimeAssumption DEF TypeInv, LogTyped
    <3>2. \A c \in Boards : \A n \in published[c] : n <= committed'[c]
      BY <2>2, <2>3, <3>1 DEF LogInOrder
    <3> QED BY <2>1, <3>2 DEF LogInOrder
  <2>5. InStage'
    <3>1. ASSUME NEW s \in Sockets, task[s].at \in Catching
          PROVE  mark[s] <= task[s].base \/ mark[s] <= committed'[task[s].board]
      <4>1. mark[s] \in Nat /\ task[s].board \in Boards
        BY <3>1, RealtimeAssumption DEF TypeInv, LogTyped, TasksAimed, Catching
      <4>2. mark[s] <= task[s].base \/ mark[s] <= committed[task[s].board]
        BY <3>1 DEF InStage
      <4>3. committed[task[s].board] \in Nat /\ committed'[task[s].board] \in Nat
            /\ committed[task[s].board] <= committed'[task[s].board]
        BY <2>2, <2>3, <4>1
      <4> QED BY <4>1, <4>2, <4>3
    <3> QED BY <1>1, <2>1, <3>1 DEF InStage
  <2>6. AllCovered'
    BY <1>1, <2>1, KeepCovered
  <2> QED BY <1>2, <2>4, <2>5, <2>6
<1>4. CASE RedisSubscribed(b)
  BY <1>4 DEF RedisSubscribed, LogInOrder
<1>5. ASSUME NEW n \in 1..MaxSeq, Publish(b, n) PROVE StreamInv'
  <2>1. /\ n <= committed[b] /\ 1..(n - 1) \subseteq published[b]
        /\ published' = [published EXCEPT ![b] = @ \cup {n}]
        /\ inbox' = [s \in Sockets |-> IF s \in Receivers(b, n)
                                       THEN Append(inbox[s], EventMessage(b, n))
                                       ELSE inbox[s]]
        /\ mark' = [s \in Sockets |-> IF s \in Receivers(b, n) THEN n ELSE mark[s]]
        /\ UNCHANGED <<committed, redisSub>>
    BY <1>5 DEF Publish, WithinLimits
  <2>2. published'[b] = published[b] \cup {n}
        /\ \A c \in Boards : c # b => published'[c] = published[c]
    BY <2>1 DEF TypeInv, LogTyped
  <2>3. LogInOrder'
    <3>1. ASSUME NEW k \in 1..n PROVE k \in published'[b]
      BY <2>1, <2>2
    <3> QED BY <2>1, <2>2, <3>1 DEF LogInOrder
  <2>4. InStage'
    <3>1. ASSUME NEW s \in Sockets, task[s].at \in Catching
          PROVE  mark'[s] <= task[s].base \/ mark'[s] <= committed[task[s].board]
      <4>1. CASE s \in Receivers(b, n)
        BY <2>1, <3>1, <4>1 DEF InStage, Receivers
      <4>2. CASE s \notin Receivers(b, n)
        BY <2>1, <3>1, <4>2 DEF InStage
      <4> QED BY <4>1, <4>2
    <3> QED BY <1>1, <2>1, <3>1 DEF InStage
  <2>5. AllCovered'
    <3> SUFFICES ASSUME NEW s \in Sockets, sock[s] = "open", reg[s] \in Boards,
                        NEW k \in Owed(published'[reg[s]], mark'[s])
                 PROVE  \/ Had(seq, buffer, k)
                        \/ InQueue(inbox'[s], reg[s], k)
                        \/ ToBeRead(task[s], k)
      BY <1>1 DEF AllCovered
    <3>1. inbox[s] \in Seq(Messages) /\ mark[s] \in Nat /\ n \in Nat
      BY RealtimeAssumption DEF TypeInv, SocketTyped, LogTyped
    <3>2. InQueue(inbox[s], reg[s], k) => InQueue(inbox'[s], reg[s], k)
      <4>1. inbox'[s] = inbox[s] \/ inbox'[s] = Append(inbox[s], EventMessage(b, n))
        BY <2>1
      <4> QED BY <3>1, <4>1 DEF InQueue
    <3>3. k \in Owed(published[reg[s]], mark[s])
             => \/ Had(seq, buffer, k)
                \/ InQueue(inbox[s], reg[s], k)
                \/ ToBeRead(task[s], k)
      BY DEF AllCovered
    <3>4. CASE k \in Owed(published[reg[s]], mark[s])
      BY <3>2, <3>3, <3>4
    <3>5. CASE k \notin Owed(published[reg[s]], mark[s])
      <4>1. k \notin published[reg[s]] /\ k > mark[s] /\ k \in Nat
        BY <3>1, <3>5 DEF Owed
      <4>2. reg[s] = b /\ k = n
        <5>1. CASE reg[s] = b
          <6>1. k \in published'[b] => k = n
            BY <2>2, <4>1, <5>1
          <6>2. mark'[s] \in {n, mark[s]}
            BY <2>1
          <6>3. k <= mark'[s] => k <= n
            BY <3>1, <4>1, <6>2
          <6>4. k <= n => k = n
            BY <2>1, <3>1, <4>1, <5>1 DEF Owed
          <6> QED BY <5>1, <6>1, <6>3, <6>4 DEF Owed
        <5>2. CASE reg[s] # b
          <6>1. mark'[s] = mark[s] /\ published'[reg[s]] = published[reg[s]]
            BY <2>1, <2>2, <5>2 DEF Receivers
          <6> QED BY <3>5, <6>1
        <5> QED BY <5>1, <5>2
      <4>3. s \in Receivers(b, n)
        BY <3>1, <4>1, <4>2 DEF Receivers, LogInOrder
      <4>4. inbox'[s] = Append(inbox[s], EventMessage(b, n))
        BY <2>1, <4>3
      <4>5. InQueue(inbox'[s], reg[s], k)
        BY <3>1, <4>2, <4>4 DEF InQueue
      <4> QED BY <4>5
    <3> QED BY <3>4, <3>5
  <2> QED BY <1>2, <2>3, <2>4, <2>5
<1> QED BY <1>3, <1>4, <1>5

\* The subscribe of one connection, on which the others do not depend.
LEMMA OwnSubscribe ==
  ASSUME InStage, TypeInv, NEW o \in Sockets, ServerStep(o)
  PROVE  /\ task[o].on = o /\ sock[o] \in {"open", "closing"}
         /\ task[o].board \in Boards /\ task[o].base \in Nat /\ task[o].base <= seq
         /\ \A s \in Sockets : s # o =>
               task'[s] = task[s] /\ reg'[s] = reg[s] /\ mark'[s] = mark[s] /\ inbox'[s] = inbox[s]
<1>1. task[o].at # "none"
  BY DEF ServerStep, Register, Count, Select, SendRows
<1>2. /\ task[o].on = o /\ sock[o] \in {"open", "closing"}
      /\ task[o].board \in Boards /\ task[o].base \in Nat /\ task[o].base <= seq
  BY <1>1, RealtimeAssumption DEF InStage, TypeInv, TasksAimed, Tasks, SocketTyped
<1>3. ASSUME NEW s \in Sockets, s # o
      PROVE  task'[s] = task[s] /\ reg'[s] = reg[s] /\ mark'[s] = mark[s] /\ inbox'[s] = inbox[s]
  BY <1>2, <1>3 DEF ServerStep, Register, Count, Select, SendRows, TypeInv, LogTyped,
     TasksAimed, SocketTyped, socket
<1> QED BY <1>2, <1>3

\* What a step of the subscribe of o must show of its own connection.
LEMMA SubscribeFits ==
  ASSUME StreamInv, TypeInv, NEW o \in Sockets, ServerStep(o),
         LogInOrder',
         task'[o].at # "none" => task'[o].on = o,
         task'[o].at # "none" => task'[o].base <= seq,
         task'[o].at # "auth",
         task'[o].at \in Catching => reg'[o] = task'[o].board,
         task'[o].at \in Catching =>
            mark'[o] <= task'[o].base \/ mark'[o] <= committed[task'[o].board],
         sock[o] = "open" /\ reg'[o] \in Boards =>
            \A n \in Owed(published[reg'[o]], mark'[o]) :
               \/ Had(seq, buffer, n)
               \/ InQueue(inbox'[o], reg'[o], n)
               \/ ToBeRead(task'[o], n)
  PROVE  StreamInv'
<1> USE DEF StreamInv
<1>1. /\ UNCHANGED <<committed, published, sock, ws, board, mounts, seq, buffer>>
      /\ resync' = resync
  BY DEF ServerStep, Register, Count, Select, SendRows, socket, sync, store, budget
<1>2. /\ sock[o] \in {"open", "closing"}
      /\ \A s \in Sockets : s # o =>
            task'[s] = task[s] /\ reg'[s] = reg[s] /\ mark'[s] = mark[s] /\ inbox'[s] = inbox[s]
  BY OwnSubscribe
<1>3. OneSocket' /\ resync'.phase = "off"
  BY <1>1, KeepOneSocket
<1>4. InStage'
  <2>1. ASSUME NEW s \in Sockets, s # o
        PROVE  /\ sock'[s] \in {"closed", "connecting"} => reg'[s] = NoBoard
               /\ sock'[s] \in {"closed", "connecting"} => task'[s].at = "none"
               /\ task'[s].at # "none" => task'[s].on = s
               /\ task'[s].at # "none" => task'[s].base <= seq'
               /\ task'[s].at = "auth" => reg'[s] = NoBoard
               /\ task'[s].at \in Catching => reg'[s] = task'[s].board
               /\ task'[s].at \in Catching =>
                     mark'[s] <= task'[s].base \/ mark'[s] <= committed'[task'[s].board]
    BY <1>1, <1>2, <2>1 DEF InStage
  <2> QED BY <1>1, <1>2, <2>1 DEF InStage
<1>5. AllCovered'
  <2>1. ASSUME NEW s \in Sockets, s # o, sock[s] = "open", reg[s] \in Boards,
               NEW n \in Owed(published[reg[s]], mark[s])
        PROVE  \/ Had(seq, buffer, n)
               \/ InQueue(inbox[s], reg[s], n)
               \/ ToBeRead(task[s], n)
    BY <2>1 DEF AllCovered
  <2> QED BY <1>1, <1>2, <2>1 DEF AllCovered
<1> QED BY <1>3, <1>4, <1>5

\* Register: what is published is on the board or will be read.
LEMMA RegisterStream ==
  ASSUME WithinLimits, TypeInv, StreamInv, NEW o \in Sockets, Register(o) PROVE StreamInv'
<1> DEFINE t == task[o]
<1>1. ServerStep(o) /\ t.on = o /\ t.board \in Boards /\ t.base \in Nat /\ t.base <= seq
  BY OwnSubscribe DEF ServerStep, StreamInv
<1>2. /\ reg' = [reg EXCEPT ![o] = t.board] /\ mark' = [mark EXCEPT ![o] = t.base]
      /\ task' = [task EXCEPT ![o].at = "count"]
      /\ redisSub' = [redisSub EXCEPT ![t.board] = IF @ = "off" THEN "pending" ELSE @]
      /\ UNCHANGED <<committed, published, inbox>>
  BY <1>1 DEF Register, socket
<1>3. t \in Tasks
  BY DEF TypeInv, TasksAimed
<1> HIDE DEF t
<1>4. reg'[o] = t.board /\ mark'[o] = t.base
  BY <1>2 DEF TypeInv, LogTyped
<1>5. task'[o].at = "count" /\ task'[o].on = o /\ task'[o].board = t.board
      /\ task'[o].base = t.base
  <2>1. task'[o] = [t EXCEPT !.at = "count"]
    BY <1>2 DEF TypeInv, TasksAimed, t
  <2> QED BY <1>1, <1>3, <2>1 DEF Tasks
<1>6. LogInOrder'
  BY <1>2 DEF StreamInv, LogInOrder, TypeInv, LogTyped
<1>7. ASSUME NEW n \in Owed(published[t.board], t.base)
      PROVE  Had(seq, buffer, n) \/ ToBeRead(task'[o], n)
  BY <1>1, <1>5, RealtimeAssumption DEF Owed, Had, ToBeRead, TypeInv, StoreTyped
<1> QED BY <1>1, <1>4, <1>5, <1>6, <1>7, SubscribeFits

\* Count: within the threshold; a tab with nothing to read has what is published.
LEMMA CountStream ==
  ASSUME WithinLimits, TypeInv, StreamInv, NEW o \in Sockets, Count(o) PROVE StreamInv'
<1> DEFINE t == task[o]
           missed == committed[t.board] - t.base
<1>1. ServerStep(o) /\ t.on = o /\ t.board \in Boards /\ t.base \in Nat /\ t.base <= seq
  BY OwnSubscribe DEF ServerStep, StreamInv
<1>2. t \in Tasks /\ t.at = "count" /\ committed[t.board] \in 0..MaxSeq
  BY <1>1 DEF TypeInv, TasksAimed, LogTyped, Count
<1>3. ~(missed > ResyncThreshold)
  BY <1>1, <1>2, RealtimeAssumption DEF WithinLimits
<1>4. /\ task' = [task EXCEPT ![o] = IF missed > 0 THEN [t EXCEPT !.at = "select"]
                                                   ELSE NoTask]
      /\ UNCHANGED <<committed, published, redisSub, reg, mark, inbox>>
  BY <1>3 DEF Count
<1>5. reg[o] = t.board /\ (mark[o] <= t.base \/ mark[o] <= committed[t.board])
  BY <1>2 DEF StreamInv, InStage, Catching
<1>6. LogInOrder'
  BY <1>4, KeepLogInOrder DEF StreamInv
<1>7. ASSUME sock[o] = "open", NEW n \in Owed(published[t.board], mark[o])
      PROVE  \/ Had(seq, buffer, n)
             \/ InQueue(inbox[o], t.board, n)
             \/ ToBeRead(t, n)
  BY <1>1, <1>5, <1>7 DEF StreamInv, AllCovered
<1> HIDE DEF t, missed
<1>8. task'[o] = IF missed > 0 THEN [t EXCEPT !.at = "select"] ELSE NoTask
  BY <1>4 DEF TypeInv, TasksAimed
<1>9. CASE missed > 0
  <2>1. /\ task'[o].at = "select" /\ task'[o].on = o /\ task'[o].board = t.board
        /\ task'[o].base = t.base
    BY <1>1, <1>2, <1>8, <1>9 DEF Tasks
  <2>2. ASSUME NEW n, ToBeRead(t, n) PROVE ToBeRead(task'[o], n)
    BY <1>2, <2>1, <2>2 DEF ToBeRead
  <2> QED BY <1>1, <1>4, <1>5, <1>6, <1>7, <2>1, <2>2, SubscribeFits
<1>10. CASE ~(missed > 0)
  <2>1. task'[o].at = "none"
    BY <1>8, <1>10, NoTaskTyped
  <2>2. committed[t.board] <= t.base
    BY <1>1, <1>2, <1>10, RealtimeAssumption DEF missed
  <2>3. ASSUME NEW n \in Owed(published[t.board], mark[o]) PROVE Had(seq, buffer, n)
    <3>1. n \in Nat /\ mark[o] \in Nat /\ seq \in Nat /\ committed[t.board] \in Nat
      BY <1>2, RealtimeAssumption DEF Owed, TypeInv, LogTyped, StoreTyped
    <3>2. n \in published[t.board] => n <= committed[t.board]
      BY <1>1 DEF StreamInv, LogInOrder
    <3>3. n \in published[t.board] \/ n <= mark[o]
      BY DEF Owed
    <3>4. n <= t.base
      BY <1>1, <1>5, <2>2, <3>1, <3>2, <3>3
    <3> QED BY <1>1, <3>1, <3>4 DEF Had
  <2> QED BY <1>1, <1>4, <1>5, <1>6, <2>1, <2>3, SubscribeFits DEF Catching
<1> QED BY <1>9, <1>10

\* Select: the rows it reads reach to the end of the log.
LEMMA SelectStream ==
  ASSUME WithinLimits, TypeInv, StreamInv, NEW o \in Sockets, Select(o) PROVE StreamInv'
<1> DEFINE t == task[o]
           upto == Min({committed[t.board], t.base + MaxCatchUp})
<1>1. ServerStep(o) /\ t.on = o /\ t.board \in Boards /\ t.base \in Nat /\ t.base <= seq
  BY OwnSubscribe DEF ServerStep, StreamInv
<1>2. t \in Tasks /\ t.at = "select" /\ committed[t.board] \in 0..MaxSeq
  BY <1>1 DEF TypeInv, TasksAimed, LogTyped, Select
<1>3. upto = committed[t.board]
  <2>1. committed[t.board] \in Nat /\ t.base + MaxCatchUp \in Nat
        /\ committed[t.board] <= t.base + MaxCatchUp
    BY <1>1, <1>2, RealtimeAssumption DEF WithinLimits
  <2> HIDE DEF t
  <2>2. upto \in {committed[t.board], t.base + MaxCatchUp}
        /\ upto <= committed[t.board] /\ upto <= t.base + MaxCatchUp
    BY <2>1, MinOfTwo
  <2> QED BY <2>1, <2>2
<1>4. /\ task' = [task EXCEPT ![o] = [t EXCEPT !.at = "rows", !.upto = upto]]
      /\ UNCHANGED <<committed, published, redisSub, reg, mark, inbox>>
  BY DEF Select, socket
<1>5. reg[o] = t.board /\ (mark[o] <= t.base \/ mark[o] <= committed[t.board])
  BY <1>2 DEF StreamInv, InStage, Catching
<1>6. LogInOrder'
  BY <1>4, KeepLogInOrder DEF StreamInv
<1>7. ASSUME sock[o] = "open", NEW n \in Owed(published[t.board], mark[o])
      PROVE  \/ Had(seq, buffer, n)
             \/ InQueue(inbox[o], t.board, n)
             \/ ToBeRead(t, n)
  BY <1>1, <1>5, <1>7 DEF StreamInv, AllCovered
<1> HIDE DEF t, upto
<1>8. task'[o] = [t EXCEPT !.at = "rows", !.upto = upto]
  BY <1>4 DEF TypeInv, TasksAimed
<1>9. /\ task'[o].at = "rows" /\ task'[o].on = o /\ task'[o].board = t.board
      /\ task'[o].base = t.base /\ task'[o].upto = committed[t.board]
  BY <1>1, <1>2, <1>3, <1>8 DEF Tasks
<1>10. ASSUME NEW n \in Owed(published[t.board], mark[o]), ToBeRead(t, n)
       PROVE  ToBeRead(task'[o], n)
  <2>1. n \in Nat /\ mark[o] \in Nat /\ committed[t.board] \in Nat
    BY <1>2, RealtimeAssumption DEF Owed, TypeInv, LogTyped
  <2>2. n > t.base
    BY <1>2, <1>10 DEF ToBeRead
  <2>3. n \in published[t.board] => n <= committed[t.board]
    BY <1>1 DEF StreamInv, LogInOrder
  <2>4. n \in published[t.board] \/ n <= mark[o]
    BY DEF Owed
  <2>5. n <= committed[t.board]
    BY <1>1, <1>5, <2>1, <2>2, <2>3, <2>4
  <2> QED BY <1>1, <1>9, <2>1, <2>2, <2>5 DEF ToBeRead
<1> QED BY <1>1, <1>4, <1>5, <1>6, <1>7, <1>9, <1>10, SubscribeFits

LEMMA InSecondPart ==
  ASSUME NEW p \in Seq(Messages), NEW q \in Seq(Messages), NEW i \in 1..Len(q), NEW b, NEW n,
         q[i] = EventMessage(b, n)
  PROVE  InQueue(p \o q, b, n)
<1>1. Len(p) + i \in 1..Len(p \o q) /\ (p \o q)[Len(p) + i] = q[i]
  OBVIOUS
<1> QED BY <1>1 DEF InQueue

\* SendRows: what was to be read is in the connection's queue.
LEMMA SendRowsStream ==
  ASSUME WithinLimits, TypeInv, StreamInv, NEW o \in Sockets, SendRows(o) PROVE StreamInv'
<1> DEFINE t == task[o]
           rows == [i \in 1..(t.upto - t.base) |-> EventMessage(t.board, t.base + i)]
<1>1. ServerStep(o) /\ t.on = o /\ t.board \in Boards /\ t.base \in Nat /\ t.base <= seq
  BY OwnSubscribe DEF ServerStep, StreamInv
<1>2. t \in Tasks /\ t.at = "rows" /\ t.upto \in 0..MaxSeq /\ t.base \in 0..MaxSeq
  BY <1>1 DEF TypeInv, TasksAimed, Tasks, SendRows
<1>3. /\ inbox' = [inbox EXCEPT ![o] = @ \o rows]
      /\ mark' = [mark EXCEPT ![o] = t.upto]
      /\ task' = [task EXCEPT ![o] = NoTask]
      /\ UNCHANGED <<committed, published, redisSub, reg>>
  BY <1>1 DEF SendRows
<1>4. reg[o] = t.board
  BY <1>2 DEF StreamInv, InStage, Catching
<1>5. LogInOrder'
  BY <1>3, KeepLogInOrder DEF StreamInv
<1>6. rows \in Seq(Messages) /\ inbox[o] \in Seq(Messages)
  BY <1>1, <1>2, RowsTyped DEF TypeInv, SocketTyped
<1>7. ASSUME NEW n \in (t.base + 1)..t.upto PROVE InQueue(inbox[o] \o rows, t.board, n)
  <2>1. n - t.base \in 1..(t.upto - t.base) /\ t.base + (n - t.base) = n
    BY <1>2, RealtimeAssumption
  <2>2. rows[n - t.base] = EventMessage(t.board, n) /\ n - t.base \in DOMAIN rows
    BY <2>1
  <2> HIDE DEF rows, t
  <2>3. n - t.base \in 1..Len(rows) /\ Len(inbox[o]) \in Nat /\ Len(rows) \in Nat
    BY <1>6, <2>2
  <2> QED BY <1>6, <2>2, <2>3, InSecondPart
<1>8. ASSUME sock[o] = "open", NEW n \in Owed(published[t.board], mark[o])
      PROVE  \/ Had(seq, buffer, n)
             \/ InQueue(inbox[o], t.board, n)
             \/ ToBeRead(t, n)
  BY <1>1, <1>4, <1>8 DEF StreamInv, AllCovered
<1> HIDE DEF t, rows
<1>9. task'[o].at = "none" /\ mark'[o] = t.upto /\ inbox'[o] = inbox[o] \o rows
  BY <1>3, NoTaskTyped DEF TypeInv, TasksAimed, LogTyped, SocketTyped
<1>10. ASSUME NEW n, InQueue(inbox[o], t.board, n) PROVE InQueue(inbox[o] \o rows, t.board, n)
  BY <1>6, <1>10 DEF InQueue
<1>11. ASSUME sock[o] = "open", NEW n \in Owed(published[t.board], t.upto)
       PROVE  Had(seq, buffer, n) \/ InQueue(inbox'[o], t.board, n)
  <2>1. n \in Nat
    BY RealtimeAssumption DEF Owed
  <2>2. CASE n <= t.base
    BY <1>1, <2>1, <2>2, RealtimeAssumption DEF Had, TypeInv, StoreTyped
  <2>3. CASE n > t.base /\ n <= t.upto
    BY <1>1, <1>2, <1>7, <1>9, <2>1, <2>3, RealtimeAssumption
  <2>4. CASE n > t.upto
    <3>1. n \in Owed(published[t.board], mark[o]) /\ ~ToBeRead(t, n)
      BY <1>2, <2>1, <2>4, RealtimeAssumption DEF Owed, ToBeRead
    <3> QED BY <1>8, <1>9, <1>10, <1>11, <3>1
  <2> QED BY <1>1, <1>2, <2>1, <2>2, <2>3, <2>4, RealtimeAssumption
<1> QED BY <1>1, <1>3, <1>4, <1>5, <1>9, <1>11, SubscribeFits DEF Catching

LEMMA SubscribeStream ==
  ASSUME WithinLimits, TypeInv, StreamInv, NEW o \in Sockets, ServerStep(o) \/ CatchUpFails(o)
  PROVE  StreamInv'
<1>1. ~CatchUpFails(o)
  BY DEF CatchUpFails, WithinLimits
<1> QED BY <1>1, RegisterStream, CountStream, SelectStream, SendRowsStream DEF ServerStep

\* The reconciler never takes an event back.
LEMMA ReconcileHad ==
  ASSUME StoreTyped, StoreInv, NEW e \in Event, ~Ignored(e),
         \/ e.seq > seq + 1 /\ BufferGap(e)
         \/ e.seq = seq + 1 /\ Apply(e)
  PROVE  /\ seq <= seq'
         /\ \A n \in Nat : Had(seq, buffer, n) \/ n = e.seq => Had(seq', buffer', n)
<1>1. seq \in Nat /\ e.seq \in Nat /\ \A x \in buffer : x.seq \in Nat
  BY RealtimeAssumption DEF StoreTyped, Event
<1>2. CASE BufferGap(e)
  <2>1. buffer' = {x \in buffer : x.seq # e.seq} \cup {e} /\ seq' = seq
    BY <1>2 DEF BufferGap
  <2> QED BY <1>1, <2>1 DEF Had
<1>3. CASE e.seq = seq + 1 /\ Apply(e)
  <2>1. seq' \in 0..MaxSeq /\ e.seq <= seq' /\ buffer' = {x \in buffer : x.seq > seq'}
    BY <1>3, ApplyDrains
  <2> QED BY <1>1, <1>3, <2>1, RealtimeAssumption DEF Had
<1> QED BY <1>2, <1>3

\* handleMessage: what is taken from the queue is had, ignored or never owed.
LEMMA DeliverStream ==
  ASSUME WithinLimits, TypeInv, StoreInv, StreamInv, NEW s \in Sockets, Deliver(s)
  PROVE  StreamInv'
<1> USE DEF StreamInv
<1> DEFINE m == Head(inbox[s])
<1>1. UNCHANGED <<committed, published, redisSub, reg, mark, task, sock, ws, board, mounts>>
      /\ inbox' = [inbox EXCEPT ![s] = Tail(@)] /\ inbox[s] # <<>>
  BY DEF Deliver, server, budget
<1>2. LogInOrder' /\ OneSocket'
  BY <1>1, KeepLogInOrder, KeepOneSocket
<1>3. resync' = resync
  BY SendStartsNoResync DEF Deliver, BufferGap, Apply, Send, sync
<1>4. inbox[s] \in Seq(Messages) /\ m \in Messages /\ (m.type = "EVENT" => m.event \in Event)
  <2>1. inbox[s] \in Seq(Messages)
    BY DEF TypeInv, SocketTyped
  <2>2. m \in Messages
    BY <1>1, <2>1
  <2> QED BY <2>1, <2>2 DEF Messages, ResyncMessage
<1>5. /\ seq <= seq' /\ seq' \in Nat /\ seq \in Nat
      /\ \A n \in Nat : Had(seq, buffer, n) => Had(seq', buffer', n)
  <2>1. StoreTyped'
    BY DeliverKeeps DEF TypeInv
  <2>2. seq' \in Nat /\ seq \in Nat
    BY <2>1, RealtimeAssumption DEF TypeInv, StoreTyped
  <2>3. CASE UNCHANGED <<seq, buffer>>
    BY <2>2, <2>3
  <2>4. ASSUME NEW e \in Event, ~Ignored(e),
               \/ e.seq > seq + 1 /\ BufferGap(e)
               \/ e.seq = seq + 1 /\ Apply(e)
        PROVE  seq <= seq' /\ \A n \in Nat : Had(seq, buffer, n) => Had(seq', buffer', n)
    BY <2>4, ReconcileHad DEF TypeInv
  <2> QED BY <1>4, <2>2, <2>3, <2>4 DEF Deliver, store
<1>6. ASSUME NEW b, NEW n \in Nat \ Unknown, m = EventMessage(b, n) PROVE Had(seq', buffer', n)
  <2>1. m.type = "EVENT" /\ m.event.seq = n
    BY <1>6 DEF EventMessage
  <2>2. m.type # "RESYNC_REQUIRED"
    BY <2>1
  <2>3. CASE Ignored(m.event)
    BY <1>5, <1>6, <2>1, <2>3 DEF Ignored, Had
  <2>4. CASE ~Ignored(m.event)
    BY <1>4, <1>6, <2>1, <2>2, <2>4, ReconcileHad DEF Deliver, TypeInv
  <2> QED BY <2>3, <2>4
<1>7. InStage'
  <2>1. ASSUME NEW o \in Sockets, task[o].at # "none" PROVE task[o].base <= seq'
    <3>1. task[o].base \in Nat /\ task[o].base <= seq
      BY <2>1, RealtimeAssumption DEF TypeInv, TasksAimed, Tasks, InStage
    <3> QED BY <1>5, <3>1
  <2> QED BY <1>1, <2>1 DEF InStage
<1>8. AllCovered'
  <2> SUFFICES ASSUME NEW u \in Sockets, sock[u] = "open", reg[u] \in Boards,
                      NEW n \in Owed(published[reg[u]], mark[u])
               PROVE  \/ Had(seq', buffer', n)
                      \/ InQueue(inbox'[u], reg[u], n)
                      \/ ToBeRead(task[u], n)
    BY <1>1 DEF AllCovered
  <2>1. n \in Nat \ Unknown
    BY RealtimeAssumption DEF Owed
  <2>2. CASE Had(seq, buffer, n) \/ ToBeRead(task[u], n)
    BY <1>5, <2>1, <2>2
  <2>3. CASE InQueue(inbox[u], reg[u], n)
    <3>1. CASE u # s
      <4>1. inbox'[u] = inbox[u]
        BY <1>1, <3>1 DEF TypeInv, SocketTyped
      <4> QED BY <2>3, <4>1
    <3>2. CASE u = s
      <4>1. inbox'[s] = Tail(inbox[s])
        BY <1>1 DEF TypeInv, SocketTyped
      <4>2. PICK i \in 1..Len(inbox[s]) : inbox[s][i] = EventMessage(reg[s], n)
        BY <2>3, <3>2 DEF InQueue
      <4>3. CASE i = 1
        <5>1. m = EventMessage(reg[s], n)
          BY <1>1, <1>4, <4>2, <4>3
        <5> QED BY <1>6, <2>1, <5>1
      <4>4. CASE i # 1
        <5>1. i - 1 \in 1..Len(Tail(inbox[s]))
              /\ Tail(inbox[s])[i - 1] = EventMessage(reg[s], n)
          BY <1>1, <1>4, <4>2, <4>4
        <5> QED BY <3>2, <4>1, <5>1 DEF InQueue
      <4> QED BY <4>3, <4>4
    <3> QED BY <3>1, <3>2
  <2> QED BY <2>2, <2>3 DEF AllCovered
<1> QED BY <1>2, <1>3, <1>7, <1>8

\* handleOpen: the socket that opened is the one boardSocket holds.
LEMMA OpenStream ==
  ASSUME WithinLimits, TypeInv, StreamInv, NEW s \in Sockets, SocketOpens(s)
  PROVE  StreamInv'
<1> USE DEF StreamInv
<1>1. /\ UNCHANGED <<committed, published, redisSub, reg, mark, inbox, ws, board, seq, buffer,
                     mounts>>
      /\ sock' = [sock EXCEPT ![s] = "open"] /\ sock[s] = "connecting"
  BY DEF SocketOpens, budget
<1>2. LogInOrder' /\ resync' = resync
  BY <1>1, KeepLogInOrder, SendStartsNoResync DEF SocketOpens, Send
<1>3. sock'[s] = "open" /\ \A u \in Sockets : u # s => sock'[u] = sock[u]
  BY <1>1 DEF TypeInv, SocketTyped
<1>4. OneSocket'
  <2>1. ws = s /\ (MaxMounts <= 1 => mounts # 0)
    BY <1>1 DEF OneSocket
  <2>2. \A u \in Sockets : u # s => sock[u] = "closed"
    BY <1>1 DEF OneSocket
  <2> QED BY <1>1, <1>3, <2>1, <2>2 DEF OneSocket
<1>5. reg[s] = NoBoard /\ task[s].at = "none"
  BY <1>1 DEF InStage
<1>6. /\ task'[s] = [NoTask EXCEPT !.at = "auth", !.on = s, !.board = board, !.base = seq]
      /\ \A u \in Sockets : u # s => task'[u] = task[u]
  <2>1. ws = s
    BY <1>1 DEF OneSocket
  <2>2. task' = [task EXCEPT ![s] = [NoTask EXCEPT !.at = "auth", !.on = s,
                                                   !.board = board, !.base = seq]]
    BY <1>3, <2>1 DEF SocketOpens
  <2> QED BY <2>2 DEF TypeInv, TasksAimed
<1>7. task'[s].at = "auth" /\ task'[s].on = s /\ task'[s].base = seq /\ seq \in Nat
  BY <1>6, RealtimeAssumption DEF NoTask, TypeInv, StoreTyped
<1>8. InStage'
  <2>1. ASSUME NEW u \in Sockets, u # s
        PROVE  /\ sock'[u] \in {"closed", "connecting"} => reg'[u] = NoBoard
               /\ sock'[u] \in {"closed", "connecting"} => task'[u].at = "none"
               /\ task'[u].at # "none" => task'[u].on = u
               /\ task'[u].at # "none" => task'[u].base <= seq'
               /\ task'[u].at = "auth" => reg'[u] = NoBoard
               /\ task'[u].at \in Catching => reg'[u] = task'[u].board
               /\ task'[u].at \in Catching =>
                     mark'[u] <= task'[u].base \/ mark'[u] <= committed'[task'[u].board]
    BY <1>1, <1>3, <1>6, <2>1 DEF InStage
  <2>2. "auth" \notin Catching
    BY DEF Catching
  <2> QED BY <1>1, <1>3, <1>5, <1>7, <2>1, <2>2 DEF InStage
<1>9. AllCovered'
  BY <1>1, <1>3, <1>5, <1>6, RealtimeAssumption DEF AllCovered
<1> QED BY <1>2, <1>4, <1>8, <1>9

\* handleClose: the server forgets the connection, and the tab has no other.
LEMMA CloseStream ==
  ASSUME WithinLimits, TypeInv, StreamInv, NEW s \in Sockets, CloseCompletes(s) \/ SocketDrops(s)
  PROVE  StreamInv'
<1> USE DEF StreamInv
<1>1. HandleClose(s) /\ UNCHANGED mounts /\ sock[s] # "closed"
  BY DEF CloseCompletes, SocketDrops, budget
<1>2. /\ UNCHANGED <<committed, published, redisSub, board, seq, buffer>>
      /\ sock' = [sock EXCEPT ![s] = "closed"] /\ ws' = NoSock
      /\ reg' = [reg EXCEPT ![s] = NoBoard] /\ mark' = [mark EXCEPT ![s] = 0]
      /\ inbox' = [inbox EXCEPT ![s] = <<>>]
      /\ task' = [o \in Sockets |-> IF task[o].on = s THEN NoTask ELSE task[o]]
  BY <1>1 DEF HandleClose, Forget
<1>3. LogInOrder' /\ resync' = resync
  BY <1>1, <1>2, KeepLogInOrder, SendStartsNoResync DEF HandleClose, Send
<1>4. \A u \in Sockets : sock'[u] = "closed"
  BY <1>1, <1>2 DEF OneSocket, TypeInv, SocketTyped
<1>5. OneSocket'
  <2>1. \A u \in Sockets : ws' # u
    BY <1>2, RealtimeAssumption
  <2>2. MaxMounts <= 1 /\ mounts' = 0 => board' = NoBoard
    BY <1>1, <1>2 DEF OneSocket
  <2> QED BY <1>4, <2>1, <2>2 DEF OneSocket
<1>6. \A u \in Sockets : task'[u].at = "none"
  <2>1. ASSUME NEW u \in Sockets PROVE task'[u].at = "none"
    <3>1. u # s => task[u].at = "none"
      BY <1>1 DEF OneSocket, InStage
    <3>2. task[u].at # "none" => task[u].on = u
      BY DEF InStage
    <3>3. task'[u] = IF task[u].on = s THEN NoTask ELSE task[u]
      BY <1>2
    <3> QED BY <3>1, <3>2, <3>3, NoTaskTyped
  <2> QED BY <2>1
<1>7. \A u \in Sockets : reg'[u] = NoBoard
  BY <1>1, <1>2 DEF OneSocket, InStage, TypeInv, LogTyped
<1>8. InStage' /\ AllCovered'
  BY <1>4, <1>6, <1>7 DEF InStage, AllCovered, Catching
<1> QED BY <1>3, <1>5, <1>8

\* A new socket opens where there is none: nothing runs and nothing is owed.
LEMMA OpensFirst ==
  ASSUME TypeInv, StreamInv, \A u \in Sockets : sock[u] = "closed",
         NEW socks, socks = sock, OpenNew(socks),
         UNCHANGED <<server, inbox>>, board' # NoBoard, MaxMounts <= 1 => mounts' # 0
  PROVE  OneSocket' /\ InStage' /\ AllCovered'
<1>1. PICK s \in Sockets : ws' = s /\ sock' = [sock EXCEPT ![s] = "connecting"]
  BY DEF OpenNew
<1>2. sock'[s] = "connecting" /\ \A u \in Sockets : u # s => sock'[u] = "closed"
  BY <1>1 DEF TypeInv, SocketTyped
<1>3. OneSocket'
  <2>1. \A u, v \in Sockets : sock'[u] # "closed" /\ sock'[v] # "closed" => u = v
    BY <1>2
  <2>2. \A u \in Sockets : sock'[u] \in {"connecting", "open"} <=> ws' = u
    BY <1>1, <1>2
  <2>3. \A u \in Sockets : sock'[u] # "closing"
    BY <1>2
  <2> QED BY <2>1, <2>2, <2>3 DEF OneSocket
<1>4. \A u \in Sockets : reg'[u] = NoBoard /\ task'[u].at = "none"
  BY DEF server, StreamInv, InStage
<1>5. InStage' /\ AllCovered'
  BY <1>2, <1>4, RealtimeAssumption DEF InStage, AllCovered, Catching
<1> QED BY <1>3, <1>5

LEMMA TimerStream ==
  ASSUME WithinLimits, TypeInv, StreamInv, Timer \/ ManualReconnect PROVE StreamInv'
<1> USE DEF StreamInv
<1>1. UNCHANGED <<server, inbox, board, seq, buffer, mounts>>
  BY DEF Timer, GapTimerFires, ReconnectFires, ManualReconnect, socket, store, budget
<1>2. LogInOrder' /\ resync' = resync
  <2>1. resync' = resync
    BY SendStartsNoResync DEF Timer, GapTimerFires, ReconnectFires, ManualReconnect, Send
  <2> QED BY <1>1, <2>1, KeepLogInOrder DEF server
<1>3. CASE UNCHANGED <<sock, ws>>
  BY <1>1, <1>2, <1>3, KeepOneSocket, KeepStage, KeepCovered DEF server
<1>4. CASE ReconnectFires /\ ws = NoSock /\ OpenNew(sock)
  <2>1. board # NoBoard
    BY <1>4 DEF ReconnectFires, TypeInv, SyncTyped, TimerInv, TimersMatchState, Homeless
  <2>2. ASSUME NEW u \in Sockets PROVE sock[u] = "closed"
    BY <1>4, <2>1, RealtimeAssumption DEF OneSocket, TypeInv, SocketTyped
  <2>3. MaxMounts <= 1 => mounts' # 0
    BY <1>1, <2>1 DEF OneSocket
  <2> QED BY <1>1, <1>2, <1>4, <2>1, <2>2, <2>3, OpensFirst
<1> QED BY <1>3, <1>4 DEF Timer, GapTimerFires, ReconnectFires, ManualReconnect, socket

\* The page: it opens a socket when it has none, and closes the one it has.
LEMMA PageStream ==
  ASSUME WithinLimits, TypeInv, StreamInv, Unmount \/ Rehydrate \/ \E b \in Boards : Mount(b)
  PROVE  StreamInv'
<1> USE DEF StreamInv
<1>1. resync' = resync
  BY DEF Unmount, Rehydrate, Mount, sync, Aborted
<1>2. ~Rehydrate
  BY RealtimeAssumption DEF Rehydrate, WithinLimits, TypeInv, BudgetTyped
<1>3. ASSUME NEW b \in Boards, Mount(b) PROVE StreamInv'
  <2>1. UNCHANGED <<server, inbox>> /\ board' = b /\ OpenNew(ClosingOwn) /\ mounts' = mounts + 1
        /\ mounts < MaxMounts
    BY <1>3 DEF Mount
  <2>2. ASSUME NEW u \in Sockets PROVE sock[u] = "closed"
    <3>1. mounts \in Nat /\ MaxMounts \in Nat
      BY RealtimeAssumption DEF TypeInv, BudgetTyped
    <3>2. CASE MaxMounts <= 1
      BY <2>1, <3>1, <3>2 DEF OneSocket
    <3>3. CASE \A x, y \in Sockets : x = y
      <4>1. PICK x \in Sockets : ClosingOwn[x] = "closed"
        BY <2>1 DEF OpenNew
      <4>2. sock[x] = "closed"
        BY <4>1 DEF ClosingOwn
      <4> QED BY <3>3, <4>2
    <3> QED BY <3>2, <3>3 DEF WithinLimits
  <2>3. ClosingOwn = sock
    <3>1. ~\E u \in Sockets : ClosingOwn[u] = "closing"
      <4> SUFFICES ASSUME NEW u \in Sockets, u = ws PROVE FALSE
        BY <2>2 DEF ClosingOwn
      <4> QED BY <2>2 DEF OneSocket
    <3> QED BY <3>1 DEF ClosingOwn, TypeInv, SocketTyped
  <2>4. LogInOrder'
    BY <2>1, KeepLogInOrder DEF server
  <2>5. mounts' # 0 /\ board' # NoBoard
    BY <2>1, RealtimeAssumption DEF TypeInv, BudgetTyped
  <2> QED BY <1>1, <2>1, <2>2, <2>3, <2>4, <2>5, OpensFirst
<1>4. CASE Unmount
  <2>1. UNCHANGED <<server, inbox, seq, buffer, mounts>> /\ board' = NoBoard /\ ws' = NoSock
        /\ sock' = ClosingOwn
    BY <1>4 DEF Unmount, store, budget
  <2>2. LogInOrder'
    BY <2>1, KeepLogInOrder DEF server
  <2>3. \A u \in Sockets : sock'[u] = IF u = ws THEN "closing" ELSE sock[u]
    BY <2>1 DEF ClosingOwn
  <2>4. \A u \in Sockets : /\ u = ws => sock[u] \in {"connecting", "open"}
                           /\ u # ws => sock[u] \in {"closed", "closing"}
    BY DEF OneSocket, TypeInv, SocketTyped
  <2>5. OneSocket'
    <3>1. \A u \in Sockets : sock'[u] \in {"closed", "closing"}
      BY <2>3, <2>4
    <3>2. \A u \in Sockets : sock'[u] # "closed" => sock[u] # "closed"
      BY <2>3, <2>4
    <3>3. \A u, v \in Sockets : sock'[u] # "closed" /\ sock'[v] # "closed" => u = v
      BY <3>2 DEF OneSocket
    <3>4. MaxMounts <= 1 /\ mounts = 0 => \A u \in Sockets : sock'[u] = "closed"
      BY <2>3, <2>4 DEF OneSocket
    <3>5. \A u \in Sockets : ~(sock'[u] \in {"connecting", "open"}) /\ ws' # u
      BY <2>1, <3>1, RealtimeAssumption
    <3> QED BY <2>1, <3>3, <3>5, <3>4, RealtimeAssumption DEF OneSocket
  <2>6. InStage'
    <3>1. \A u \in Sockets : sock'[u] \in {"closed", "connecting"} => sock[u] = "closed"
      BY <2>3, <2>4
    <3> QED BY <2>1, <3>1 DEF InStage, server
  <2>7. AllCovered'
    <3>1. \A u \in Sockets : sock'[u] # "open"
      BY <2>3, <2>4
    <3> QED BY <3>1 DEF AllCovered
  <2> QED BY <1>1, <2>2, <2>5, <2>6, <2>7
<1> QED BY <1>2, <1>3, <1>4

LEMMA NextStream ==
  ASSUME WithinLimits
  PROVE  TypeInv /\ StoreInv /\ StreamInv /\ [Next]_vars => StreamInv'
<1> SUFFICES ASSUME TypeInv, StoreInv, StreamInv, [Next]_vars PROVE StreamInv'
  OBVIOUS
<1>1. CASE UNCHANGED vars
  BY <1>1, KeepLogInOrder, KeepOneSocket, KeepStage, KeepCovered
  DEF StreamInv, vars, server, socket, sync, store, budget
<1>2. ~ResyncReads /\ ~ResyncCompletes /\ ~ResyncFails
  BY DEF ResyncReads, ResyncCompletes, ResyncFails, StreamInv
<1> QED BY <1>1, <1>2, LogStream, SubscribeStream, DeliverStream, OpenStream, CloseStream,
           TimerStream, PageStream DEF Next, TabStep

\* Within the limits nothing below a connection's watermark is lost: live
\* forwarding and catch-up of one connection interleave in every way, connections
\* drop and are opened again, and each event is on the board, buffered or underway.
THEOREM NothingLost ==
  ASSUME WithinLimits PROVE Spec => []NothingLostBelowMark
<1>1. Init => StreamInv
  BY InitStream
<1>2. TypeInv /\ StoreInv /\ StreamInv /\ [Next]_vars => StreamInv'
  BY NextStream
<1> QED BY <1>1, <1>2, InitTypeInv, NextStoreInv, StreamLosesNothing, PTL DEF Spec

-----------------------------------------------------------------------------
(* Presence: the other traffic of a tab's sockets                            *)

PresAbout(q, u) == {i \in 1..Len(q) : u \in q[i].users}

PresLast(q, u) == {i \in PresAbout(q, u) : \A k \in PresAbout(q, u) : k <= i}

\* P!LastNews, on values.
News(q, u) == {q[i].kind : i \in PresLast(q, u)}

LEMMA NewsIs == ASSUME NEW q, NEW u PROVE P!LastNews(q, u) = News(q, u)
  BY DEF P!LastNews, News, PresLast, PresAbout

LEMMA NoNews == ASSUME NEW u PROVE News(<<>>, u) = {}
  BY DEF News, PresLast, PresAbout

\* A message about u becomes its last news; one about others changes nothing.
LEMMA NewsOfAppended ==
  ASSUME NEW q \in Seq(P!Message), NEW m \in P!Message, NEW u
  PROVE  /\ u \in m.users => News(Append(q, m), u) = {m.kind}
         /\ u \notin m.users => News(Append(q, m), u) = News(q, u)
<1> DEFINE r == Append(q, m)
<1>1. /\ Len(q) \in Nat /\ Len(r) = Len(q) + 1 /\ r[Len(r)] = m
      /\ \A i \in 1..Len(q) : r[i] = q[i]
  OBVIOUS
<1> HIDE DEF r
<1>2. CASE u \in m.users
  <2>1. Len(r) \in PresAbout(r, u) /\ PresAbout(r, u) \subseteq 1..Len(r)
    BY <1>1, <1>2 DEF PresAbout
  <2>2. \A i \in PresAbout(r, u) : i \in Nat /\ i <= Len(r)
    BY <1>1, <2>1
  <2>3. \A i \in PresLast(r, u) : i \in Nat /\ i <= Len(r) /\ Len(r) <= i
    BY <2>1, <2>2 DEF PresLast
  <2>4. PresLast(r, u) = {Len(r)}
    BY <1>1, <2>1, <2>2, <2>3 DEF PresLast
  <2> QED BY <1>1, <1>2, <2>4 DEF News, r
<1>3. CASE u \notin m.users
  <2>1. \A i \in 1..Len(r) : i \in 1..Len(q) \/ i = Len(r)
    BY <1>1
  <2>2. PresAbout(r, u) = PresAbout(q, u)
    BY <1>1, <1>3, <2>1 DEF PresAbout
  <2>3. PresLast(r, u) = PresLast(q, u) /\ PresLast(q, u) \subseteq 1..Len(q)
    BY <2>2 DEF PresLast, PresAbout
  <2>4. News(r, u) = News(q, u)
    BY <1>1, <2>3 DEF News
  <2> QED BY <1>3, <2>4 DEF r
<1> QED BY <1>2, <1>3

\* A message about u is followed by news of u.
LEMMA NewsExists ==
  ASSUME NEW q \in Seq(P!Message), NEW u, NEW i \in 1..Len(q), u \in q[i].users
  PROVE  News(q, u) # {}
<1> DEFINE S == {n \in Nat : \E k \in PresAbout(q, u) : n = Len(q) - k}
<1>1. Len(q) \in Nat /\ PresAbout(q, u) \subseteq 1..Len(q) /\ i \in PresAbout(q, u)
  BY DEF PresAbout
<1>2. Len(q) - i \in S
  BY <1>1
<1> HIDE DEF S
<1>3. PICK n \in S : \A m \in S : n <= m
  BY <1>2, LeastSequence DEF S
<1>4. PICK j \in PresAbout(q, u) : n = Len(q) - j
  BY <1>3 DEF S
<1>5. ASSUME NEW k \in PresAbout(q, u) PROVE k <= j
  <2>1. Len(q) - k \in S
    BY <1>1 DEF S
  <2> QED BY <1>1, <1>3, <1>4, <2>1
<1> QED BY <1>5 DEF News, PresLast

LEMMA NewsOfHead ==
  ASSUME NEW q \in Seq(P!Message), NEW u, q # <<>>, u \in Head(q).users
  PROVE  News(q, u) # {}
<1>1. PICK i \in 1..Len(q) : i = 1 /\ q[i] = Head(q)
  OBVIOUS
<1>2. u \in q[i].users
  BY <1>1
<1> QED BY <1>2, NewsExists

\* Reading a message: the news behind it stay.
LEMMA NewsBehind ==
  ASSUME NEW q \in Seq(P!Message), q # <<>>, NEW u
  PROVE  /\ News(Tail(q), u) \subseteq News(q, u)
         /\ u \notin Head(q).users => News(Tail(q), u) = News(q, u)
         /\ News(Tail(q), u) = {} => News(q, u) \subseteq {Head(q).kind}
<1> DEFINE r == Tail(q)
<1>1. /\ Len(q) \in Nat \ {0} /\ Len(r) = Len(q) - 1 /\ r \in Seq(P!Message)
      /\ Head(q) = q[1]
      /\ \A i \in 1..Len(r) : r[i] = q[i + 1]
  OBVIOUS
<1> HIDE DEF r
<1>2. \A i \in 1..Len(r) : i + 1 \in 1..Len(q)
  BY <1>1
<1>3. \A i \in PresAbout(r, u) : i \in Nat /\ i + 1 \in PresAbout(q, u)
  BY <1>1, <1>2 DEF PresAbout
<1>4. ASSUME NEW k \in PresAbout(q, u), k # 1
      PROVE  k \in Nat /\ k - 1 \in Nat /\ k - 1 \in PresAbout(r, u)
  <2>1. k \in 1..Len(q) /\ u \in q[k].users
    BY DEF PresAbout
  <2>2. k \in Nat /\ k - 1 \in 1..Len(r)
    BY <1>1, <1>4, <2>1
  <2>3. r[k - 1] = q[k]
    BY <1>1, <2>2
  <2> QED BY <2>1, <2>2, <2>3 DEF PresAbout
<1>5. ASSUME NEW i \in PresLast(r, u) PROVE i + 1 \in PresLast(q, u) /\ q[i + 1].kind = r[i].kind
  <2>1. i \in PresAbout(r, u) /\ \A k \in PresAbout(r, u) : k <= i
    BY DEF PresLast
  <2>2. i \in Nat /\ i + 1 \in PresAbout(q, u) /\ q[i + 1] = r[i]
    BY <1>1, <1>3, <2>1 DEF PresAbout
  <2>3. \A k \in PresAbout(q, u) : k <= i + 1
    BY <1>4, <2>1, <2>2
  <2> QED BY <2>2, <2>3 DEF PresLast
<1>6. News(r, u) \subseteq News(q, u)
  BY <1>5 DEF News
<1>7. ASSUME NEW i \in PresLast(q, u), i # 1 PROVE q[i].kind \in News(r, u)
  <2>1. i \in PresAbout(q, u) /\ \A k \in PresAbout(q, u) : k <= i
    BY DEF PresLast
  <2>2. i \in Nat /\ i - 1 \in PresAbout(r, u)
    BY <1>4, <1>7, <2>1
  <2>3. \A k \in PresAbout(r, u) : k <= i - 1
    BY <1>3, <2>1, <2>2
  <2>4. r[i - 1] = q[i]
    BY <1>1, <2>2 DEF PresAbout
  <2> QED BY <2>2, <2>3, <2>4 DEF News, PresLast
<1>8. u \notin Head(q).users => News(r, u) = News(q, u)
  <2> SUFFICES ASSUME u \notin Head(q).users PROVE News(q, u) \subseteq News(r, u)
    BY <1>6
  <2>1. 1 \notin PresLast(q, u)
    BY <1>1 DEF PresLast, PresAbout
  <2> QED BY <1>7, <2>1 DEF News
<1>9. News(r, u) = {} => News(q, u) \subseteq {Head(q).kind}
  BY <1>1, <1>7 DEF News
<1> QED BY <1>6, <1>8, <1>9 DEF r

LEMMA NewsKinds ==
  ASSUME NEW q \in Seq(P!Message), NEW u
  PROVE  News(q, u) \subseteq {"here", "leave"}
<1>1. \A i \in PresLast(q, u) : i \in 1..Len(q)
  BY DEF PresLast, PresAbout
<1>2. \A i \in 1..Len(q) : q[i] \in P!Message
  OBVIOUS
<1>3. \A i \in 1..Len(q) : q[i].kind \in {"here", "leave"}
  BY <1>2 DEF P!Message
<1> QED BY <1>1, <1>3 DEF News

\* Some connection of user u, in the states cn, is on the board of connection c.
Present(cn, c, u) ==
  \E d \in P!Conns : P!UserOn(d) = u /\ cn[d].board = cn[c].board /\ cn[c].board # None

\* The life of a connection, of state v, and when messages wait on it.
Staged(v, q) ==
  /\ v.net # "unused" => v.wants \in Pages
  /\ v.net = "unused" => v.step = "verifying"
  /\ v.step = "verifying" => v.board = None /\ v.listed = FALSE
  /\ v.net = "open" /\ v.board # None => v.board = v.wants
  /\ v.net # "open" \/ v.board = None => q = <<>>
  /\ v.listed = TRUE => v.board # None \/ v.net = "left"

AllStaged == \A c \in P!Conns : Staged(conn[c], queue[c])

\* The socket a tab holds is its own and open, like those it listens to.
OwnOpen ==
  /\ \A t \in Tabs : ownSock[t] # None =>
       P!Owner(ownSock[t]) = t /\ conn[ownSock[t]].net = "open"
  /\ \A c \in P!Conns : c \in hooked => conn[c].net = "open"

\* A tab that is about to be told last that a user is there is told the truth.
Truthful ==
  \A c \in P!Conns : \A u \in Users :
    u # P!UserOn(c) /\ "here" \in News(queue[c], u) => Present(conn, c, u)

\* A user a tab shows, and did not already when it last stopped listening, is on a
\* board it listens to, unless the leave is underway.
Vouched ==
  \A t \in Tabs : \A u \in Users :
    u # UserOf[t] /\ u \in shown[t] /\ u \notin unheard[t] =>
      \E c \in P!Conns : /\ c \in hooked /\ P!Owner(c) = t
                         /\ "leave" \in News(queue[c], u) \/ Present(conn, c, u)

PresInv == P!TypeOK /\ AllStaged /\ OwnOpen /\ Truthful /\ Vouched

ConnState ==
  [wants : Pages \cup {None},
   net : {"unused", "open", "closing", "left", "half", "closed"},
   step : {"verifying", "catching", "done"},
   board : Pages \cup {None}, listed : BOOLEAN]

LEMMA ConnsAre ==
  /\ \A c \in P!Conns : P!Owner(c) \in Tabs /\ P!UserOn(c) = UserOf[P!Owner(c)]
  /\ \A t \in Tabs : \A n \in 1..MaxConns[t] : <<t, n>> \in P!Conns /\ P!Owner(<<t, n>>) = t
<1>1. \A c \in P!Conns : P!Owner(c) \in Tabs
  BY DEF P!Conns, P!Owner
<1>2. \A t \in Tabs : \A n \in 1..MaxConns[t] : <<t, n>> \in P!Conns
  BY DEF P!Conns
<1>3. \A t \in Tabs : \A n \in 1..MaxConns[t] : P!Owner(<<t, n>>) = t
  BY DEF P!Owner
<1>4. \A c \in P!Conns : P!UserOn(c) = UserOf[P!Owner(c)]
  BY DEF P!UserOn
<1> QED BY <1>1, <1>2, <1>3, <1>4

LEMMA UsersTyped == \A c \in P!Conns : P!UserOn(c) \in Users
  BY ConnsAre, PresenceAssumption DEF P!PresenceAssumption

\* broadcastToBoard
Hears(c, d) ==
  /\ d # c /\ conn[c].board # None /\ conn[d].board = conn[c].board
  /\ conn[d].net = "open" /\ P!UserOn(d) # P!UserOn(c)

LEMMA BroadcastIs ==
  ASSUME NEW c \in P!Conns, NEW m, NEW q, q = P!Broadcast(c, m)
  PROVE  /\ q[c] = queue[c]
         /\ \A d \in P!Conns : d # c =>
              q[d] = queue[d] \/ (Hears(c, d) /\ q[d] = Append(queue[d], m))
         /\ \A d \in P!Conns : ~Hears(c, d) => q[d] = queue[d]
         /\ \A d \in P!Conns : Hears(c, d) => q[d] = Append(queue[d], m)
<1>1. \A d \in P!Conns : d \in P!Receivers(c) <=> Hears(c, d)
  BY DEF P!Receivers, P!OnBoard, Hears
<1>2. q = [d \in P!Conns |-> IF d \in P!Receivers(c) THEN Append(queue[d], m) ELSE queue[d]]
  BY DEF P!Broadcast
<1>3. \A d \in P!Conns : ~Hears(c, d) => q[d] = queue[d]
  BY <1>1, <1>2
<1>4. \A d \in P!Conns : Hears(c, d) => q[d] = Append(queue[d], m)
  BY <1>1, <1>2
<1>5. ~Hears(c, c)
  BY DEF Hears
<1> QED BY <1>3, <1>4, <1>5

LEMMA BroadcastTyped ==
  ASSUME queue \in [P!Conns -> Seq(P!Message)], NEW c \in P!Conns, NEW m \in P!Message
  PROVE  P!Broadcast(c, m) \in [P!Conns -> Seq(P!Message)]
<1>1. \A d \in P!Conns : queue[d] \in Seq(P!Message) /\ Append(queue[d], m) \in Seq(P!Message)
  OBVIOUS
<1> QED BY <1>1 DEF P!Broadcast

LEMMA PresTyped ==
  P!TypeOK <=> /\ mounted \in [Tabs -> Pages \cup {None}]
               /\ ownSock \in [Tabs -> P!Conns \cup {None}]
               /\ hooked \subseteq P!Conns /\ late \subseteq P!Conns
               /\ shown \in [Tabs -> SUBSET Users] /\ unheard \in [Tabs -> SUBSET Users]
               /\ conn \in [P!Conns -> ConnState]
               /\ queue \in [P!Conns -> Seq(P!Message)]
  BY DEF P!TypeOK, ConnState

\* Neither the boards nor what waits for a listening tab change.
LEMMA KeepTruthful ==
  ASSUME Truthful, \A d \in P!Conns : conn'[d].board = conn[d].board,
         \A c \in P!Conns : queue'[c] = queue[c] \/ queue'[c] = <<>>
  PROVE  Truthful'
<1> SUFFICES ASSUME NEW c \in P!Conns, NEW u \in Users, u # P!UserOn(c),
                    "here" \in News(queue'[c], u)
             PROVE  Present(conn', c, u)
  BY DEF Truthful
<1>1. "here" \in News(queue[c], u)
  BY NoNews
<1>2. Present(conn, c, u)
  BY <1>1 DEF Truthful
<1> QED BY <1>2 DEF Present

LEMMA KeepVouched ==
  ASSUME Vouched, UNCHANGED shown, \A d \in P!Conns : conn'[d].board = conn[d].board,
         \A t \in Tabs :
           \/ unheard'[t] = shown[t]
           \/ /\ unheard'[t] = unheard[t]
              /\ \A c \in P!Conns : c \in hooked /\ P!Owner(c) = t =>
                   c \in hooked' /\ queue'[c] = queue[c]
  PROVE  Vouched'
<1> SUFFICES ASSUME NEW t \in Tabs, NEW u \in Users, u # UserOf[t], u \in shown'[t],
                    u \notin unheard'[t]
             PROVE  \E c \in P!Conns : /\ c \in hooked' /\ P!Owner(c) = t
                                       /\ \/ "leave" \in News(queue'[c], u)
                                          \/ Present(conn', c, u)
  BY DEF Vouched
<1>1. u \in shown[t] /\ u \notin unheard[t] /\ unheard'[t] # shown[t]
  OBVIOUS
<1>2. PICK c \in P!Conns : /\ c \in hooked /\ P!Owner(c) = t
                           /\ "leave" \in News(queue[c], u) \/ Present(conn, c, u)
  BY <1>1 DEF Vouched
<1>3. c \in hooked' /\ queue'[c] = queue[c]
  BY <1>1, <1>2
<1>4. Present(conn, c, u) => Present(conn', c, u)
  BY DEF Present
<1> QED BY <1>2, <1>3, <1>4

LEMMA PresentOf ==
  ASSUME NEW a, NEW c \in P!Conns, NEW d \in P!Conns, a[d].board = a[c].board,
         a[c].board # None
  PROVE  Present(a, c, P!UserOn(d))
  BY DEF Present

\* More users are said to be there: the truth.
LEMMA HereSaid ==
  ASSUME P!TypeOK, Truthful, Vouched, UNCHANGED <<hooked, shown, unheard>>,
         \A d \in P!Conns : conn'[d].board = conn[d].board,
         \A c \in P!Conns : \A u \in Users : u # P!UserOn(c) =>
           \/ News(queue'[c], u) = News(queue[c], u)
           \/ News(queue'[c], u) = {"here"} /\ Present(conn, c, u)
  PROVE  Truthful' /\ Vouched'
<1>1. \A c \in P!Conns : \A u : Present(conn, c, u) => Present(conn', c, u)
  BY DEF Present
<1>2. Truthful'
  <2> SUFFICES ASSUME NEW c \in P!Conns, NEW u \in Users, u # P!UserOn(c),
                      "here" \in News(queue'[c], u)
               PROVE  Present(conn', c, u)
    BY DEF Truthful
  <2>1. "here" \in News(queue[c], u) => Present(conn, c, u)
    BY DEF Truthful
  <2> QED BY <1>1, <2>1
<1>3. Vouched'
  <2> SUFFICES ASSUME NEW t \in Tabs, NEW u \in Users, u # UserOf[t], u \in shown[t],
                      u \notin unheard[t]
               PROVE  \E c \in P!Conns : /\ c \in hooked /\ P!Owner(c) = t
                                         /\ \/ "leave" \in News(queue'[c], u)
                                            \/ Present(conn', c, u)
    BY DEF Vouched
  <2>1. PICK c \in P!Conns : /\ c \in hooked /\ P!Owner(c) = t
                             /\ "leave" \in News(queue[c], u) \/ Present(conn, c, u)
    BY DEF Vouched
  <2>2. u # P!UserOn(c)
    BY <2>1, ConnsAre
  <2>3. "leave" \in News(queue'[c], u) \/ Present(conn, c, u)
    BY <2>1, <2>2
  <2> QED BY <1>1, <2>1, <2>3
<1> QED BY <1>2, <1>3

\* The user of connection c is said to have left: who hears of it knows.
LEMMA LeaveSaid ==
  ASSUME P!TypeOK, AllStaged, OwnOpen, Truthful, Vouched,
         UNCHANGED <<hooked, shown, unheard>>,
         NEW c \in P!Conns, conn[c].net # "open", conn[c].net # "unused",
         queue' = P!Broadcast(c, P!Leave({P!UserOn(c)})),
         conn'[c].board = None,
         \A d \in P!Conns : d # c => conn'[d].board = conn[d].board
  PROVE  Truthful' /\ Vouched'
<1> DEFINE m == P!Leave({P!UserOn(c)})
<1>1. m \in P!Message /\ m.kind = "leave" /\ m.users = {P!UserOn(c)}
  BY UsersTyped DEF P!Leave, P!Message
<1>2. \A d \in P!Conns : queue[d] \in Seq(P!Message)
  BY PresTyped
<1>3. /\ \A d \in P!Conns : Hears(c, d) => queue'[d] = Append(queue[d], m)
      /\ \A d \in P!Conns : ~Hears(c, d) => queue'[d] = queue[d]
  BY BroadcastIs
<1> HIDE DEF m
<1>4. ASSUME NEW d \in P!Conns, NEW u, u # P!UserOn(c) \/ ~Hears(c, d)
      PROVE  News(queue'[d], u) = News(queue[d], u)
  <2>1. CASE Hears(c, d)
    <3>1. u \notin m.users
      BY <1>1, <1>4, <2>1
    <3>2. queue'[d] = Append(queue[d], m) /\ queue[d] \in Seq(P!Message)
      BY <1>2, <1>3, <2>1
    <3> QED BY <1>1, <3>1, <3>2, NewsOfAppended
  <2>2. CASE ~Hears(c, d)
    BY <1>3, <2>2
  <2> QED BY <2>1, <2>2
<1>5. ASSUME NEW d \in P!Conns, Hears(c, d)
      PROVE  News(queue'[d], P!UserOn(c)) = {"leave"}
  <2>1. queue'[d] = Append(queue[d], m) /\ queue[d] \in Seq(P!Message)
    BY <1>2, <1>3, <1>5
  <2>2. P!UserOn(c) \in m.users
    BY <1>1
  <2>3. News(Append(queue[d], m), P!UserOn(c)) = {m.kind}
    BY <1>1, <2>1, <2>2, NewsOfAppended
  <2> QED BY <1>1, <2>1, <2>3
<1>6. queue[c] = <<>>
  BY DEF AllStaged, Staged
<1>7. ASSUME NEW d \in P!Conns, d # c, NEW u, Present(conn, d, u),
             u = P!UserOn(c) => ~Hears(c, d), conn[d].net = "open", u # P!UserOn(d)
      PROVE  Present(conn', d, u)
  <2>1. PICK e \in P!Conns : /\ P!UserOn(e) = u /\ conn[e].board = conn[d].board
                              /\ conn[d].board # None
    BY <1>7 DEF Present
  <2>2. e # c
    BY <1>7, <2>1 DEF Hears
  <2>3. conn'[e].board = conn'[d].board /\ conn'[d].board # None
    BY <1>7, <2>1, <2>2
  <2> QED BY <2>1, <2>3 DEF Present
<1>8. Truthful'
  <2> SUFFICES ASSUME NEW d \in P!Conns, NEW u \in Users, u # P!UserOn(d),
                      "here" \in News(queue'[d], u)
               PROVE  Present(conn', d, u)
    BY DEF Truthful
  <2>1. u = P!UserOn(c) => ~Hears(c, d)
    <3> SUFFICES ASSUME u = P!UserOn(c), Hears(c, d) PROVE FALSE
      OBVIOUS
    <3>1. News(queue'[d], P!UserOn(c)) = {"leave"}
      BY <1>5
    <3> QED BY <3>1
  <2>2. "here" \in News(queue[d], u)
    BY <1>4, <2>1
  <2>3. d # c /\ conn[d].net = "open"
    BY <1>6, <2>2, NoNews DEF AllStaged, Staged
  <2>4. Present(conn, d, u)
    BY <2>2 DEF Truthful
  <2> QED BY <1>7, <2>1, <2>3, <2>4
<1>9. Vouched'
  <2> SUFFICES ASSUME NEW t \in Tabs, NEW u \in Users, u # UserOf[t], u \in shown[t],
                      u \notin unheard[t]
               PROVE  \E d \in P!Conns : /\ d \in hooked /\ P!Owner(d) = t
                                         /\ \/ "leave" \in News(queue'[d], u)
                                            \/ Present(conn', d, u)
    BY DEF Vouched
  <2>1. PICK d \in P!Conns : /\ d \in hooked /\ P!Owner(d) = t
                             /\ "leave" \in News(queue[d], u) \/ Present(conn, d, u)
    BY DEF Vouched
  <2>2. u # P!UserOn(d) /\ conn[d].net = "open" /\ d # c
    BY <2>1, ConnsAre DEF OwnOpen
  <2>3. CASE u = P!UserOn(c) /\ Hears(c, d)
    BY <1>5, <2>1, <2>3
  <2>4. CASE ~(u = P!UserOn(c) /\ Hears(c, d))
    <3>1. News(queue'[d], u) = News(queue[d], u)
      BY <1>4, <2>4
    <3>2. Present(conn, d, u) => Present(conn', d, u)
      BY <1>7, <2>2, <2>4
    <3> QED BY <2>1, <3>1, <3>2
  <2> QED BY <2>3, <2>4
<1> QED BY <1>8, <1>9

\* A connection that was on no board joins one.
LEMMA JoinKeeps ==
  ASSUME Truthful, Vouched, UNCHANGED <<hooked, shown, unheard, queue>>,
         NEW c \in P!Conns, conn[c].board = None,
         \A d \in P!Conns : d # c => conn'[d].board = conn[d].board
  PROVE  Truthful' /\ Vouched'
<1>1. ASSUME NEW d \in P!Conns, NEW u, Present(conn, d, u) PROVE Present(conn', d, u)
  <2>1. PICK e \in P!Conns : /\ P!UserOn(e) = u /\ conn[e].board = conn[d].board
                              /\ conn[d].board # None
    BY <1>1 DEF Present
  <2>2. conn'[e].board = conn'[d].board /\ conn'[d].board # None
    BY <2>1
  <2> QED BY <2>1, <2>2 DEF Present
<1>2. Truthful'
  <2> SUFFICES ASSUME NEW d \in P!Conns, NEW u \in Users, u # P!UserOn(d),
                      "here" \in News(queue[d], u)
               PROVE  Present(conn', d, u)
    BY DEF Truthful
  <2> QED BY <1>1 DEF Truthful
<1>3. Vouched'
  <2> SUFFICES ASSUME NEW t \in Tabs, NEW u \in Users, u # UserOf[t], u \in shown[t],
                      u \notin unheard[t]
               PROVE  \E d \in P!Conns : /\ d \in hooked /\ P!Owner(d) = t
                                         /\ \/ "leave" \in News(queue[d], u)
                                            \/ Present(conn', d, u)
    BY DEF Vouched
  <2> QED BY <1>1 DEF Vouched
<1> QED BY <1>2, <1>3

\* What is read was the truth, or its contrary is behind it.
LEMMA ReadKeeps ==
  ASSUME PresInv, NEW c \in P!Conns, P!Deliver(c)
  PROVE  PresInv'
<1> DEFINE m == Head(queue[c])
           t == P!Owner(c)
<1>1. /\ queue[c] \in Seq(P!Message) /\ queue[c] # <<>>
      /\ Tail(queue[c]) \in Seq(P!Message) /\ m \in P!Message
  <2>1. queue[c] \in Seq(P!Message) /\ queue[c] # <<>>
    BY PresTyped DEF PresInv, P!Deliver
  <2> QED BY <2>1
<1>2. /\ UNCHANGED <<mounted, ownSock, hooked, late, conn>>
      /\ queue' = [queue EXCEPT ![c] = Tail(@)]
  BY DEF P!Deliver
<1>3. t \in Tabs /\ m.users \subseteq Users
  BY <1>1, ConnsAre DEF P!Message
<1>4. /\ c \in hooked => /\ shown' = [shown EXCEPT ![t] = P!Applied(shown[t], m)]
                         /\ unheard' = [unheard EXCEPT ![t] = @ \ m.users]
      /\ c \notin hooked => UNCHANGED <<shown, unheard>>
  BY DEF P!Deliver
<1> HIDE DEF m, t
<1>5. P!TypeOK'
  <2>1. queue' \in [P!Conns -> Seq(P!Message)]
    BY <1>1, <1>2, PresTyped DEF PresInv
  <2>2. shown \in [Tabs -> SUBSET Users] /\ unheard \in [Tabs -> SUBSET Users]
    BY PresTyped DEF PresInv
  <2>3. P!Applied(shown[t], m) \in SUBSET Users
    BY <1>3, <2>2 DEF P!Applied
  <2>4. shown' \in [Tabs -> SUBSET Users] /\ unheard' \in [Tabs -> SUBSET Users]
    BY <1>3, <1>4, <2>2, <2>3
  <2>5. /\ mounted' \in [Tabs -> Pages \cup {None}]
        /\ ownSock' \in [Tabs -> P!Conns \cup {None}]
        /\ hooked' \subseteq P!Conns /\ late' \subseteq P!Conns
        /\ conn' \in [P!Conns -> ConnState]
    BY <1>2, PresTyped DEF PresInv
  <2> QED BY <2>1, <2>4, <2>5 DEF P!TypeOK, ConnState
<1>6. \A d \in P!Conns : queue'[d] = IF d = c THEN Tail(queue[c]) ELSE queue[d]
  BY <1>2, PresTyped DEF PresInv
<1>7. AllStaged'
  <2>1. ASSUME NEW d \in P!Conns PROVE Staged(conn[d], queue'[d])
    <3>1. Staged(conn[d], queue[d]) /\ Staged(conn[c], queue[c])
      BY DEF PresInv, AllStaged
    <3> QED BY <1>1, <1>6, <3>1 DEF Staged
  <2> QED BY <1>2, <2>1 DEF AllStaged
<1>8. OwnOpen'
  BY <1>2 DEF PresInv, OwnOpen
<1>9. Truthful'
  <2> SUFFICES ASSUME NEW d \in P!Conns, NEW u \in Users, u # P!UserOn(d),
                      "here" \in News(queue'[d], u)
               PROVE  Present(conn, d, u)
    BY <1>2 DEF Truthful
  <2>1. "here" \in News(queue[d], u)
    BY <1>1, <1>6, NewsBehind
  <2> QED BY <2>1 DEF PresInv, Truthful
<1>10. Vouched'
  <2> SUFFICES ASSUME NEW s \in Tabs, NEW u \in Users, u # UserOf[s], u \in shown'[s],
                      u \notin unheard'[s]
               PROVE  \E d \in P!Conns : /\ d \in hooked /\ P!Owner(d) = s
                                         /\ \/ "leave" \in News(queue'[d], u)
                                            \/ Present(conn, d, u)
    BY <1>2 DEF Vouched
  <2>1. CASE c \in hooked /\ s = t /\ u \in m.users
    <3>1. m.kind = "here"
      BY <1>1, <1>3, <1>4, <2>1, PresTyped DEF PresInv, P!Applied, P!Message
    <3>2. News(queue[c], u) # {}
      <4>1. queue[c] \in Seq(P!Message) /\ queue[c] # <<>> /\ u \in Head(queue[c]).users
        BY <1>1, <2>1 DEF m
      <4> QED BY <4>1, NewsOfHead
    <3>3. "leave" \in News(queue'[c], u) \/ "here" \in News(queue[c], u)
      <4>1. CASE News(Tail(queue[c]), u) = {}
        <5>1. News(queue[c], u) \subseteq {Head(queue[c]).kind}
          BY <1>1, <4>1, NewsBehind
        <5> QED BY <3>1, <3>2, <5>1 DEF m
      <4>2. CASE News(Tail(queue[c]), u) # {}
        <5>1. News(Tail(queue[c]), u) \subseteq News(queue[c], u)
          BY <1>1, NewsBehind
        <5>2. News(Tail(queue[c]), u) \subseteq {"here", "leave"}
          BY <1>1, NewsKinds
        <5>3. queue'[c] = Tail(queue[c])
          BY <1>6
        <5> QED BY <4>2, <5>1, <5>2, <5>3
      <4> QED BY <4>1, <4>2
    <3>4. u # P!UserOn(c)
      BY <2>1, ConnsAre DEF t
    <3>5. "leave" \in News(queue'[c], u) \/ Present(conn, c, u)
      BY <3>3, <3>4 DEF PresInv, Truthful
    <3> QED BY <2>1, <3>5 DEF t
  <2>2. CASE ~(c \in hooked /\ s = t /\ u \in m.users)
    <3>1. u \in shown[s] /\ u \notin unheard[s]
      <4>1. c \in hooked /\ s = t => /\ shown'[s] = P!Applied(shown[s], m)
                                     /\ unheard'[s] = unheard[s] \ m.users
        BY <1>4, PresTyped DEF PresInv
      <4>2. ~(c \in hooked /\ s = t) => shown'[s] = shown[s] /\ unheard'[s] = unheard[s]
        BY <1>4, PresTyped DEF PresInv
      <4> QED BY <2>2, <4>1, <4>2 DEF P!Applied
    <3>2. PICK d \in P!Conns : /\ d \in hooked /\ P!Owner(d) = s
                               /\ "leave" \in News(queue[d], u) \/ Present(conn, d, u)
      BY <3>1 DEF PresInv, Vouched
    <3>3. d = c => u \notin m.users
      BY <2>2, <3>2 DEF t
    <3>4. News(queue'[d], u) = News(queue[d], u)
      <4>1. CASE d = c
        BY <1>1, <1>6, <3>3, <4>1, NewsBehind DEF m
      <4>2. CASE d # c
        BY <1>6, <4>2
      <4> QED BY <4>1, <4>2
    <3> QED BY <3>2, <3>4
  <2> QED BY <2>1, <2>2
<1> QED BY <1>5, <1>7, <1>8, <1>9, <1>10 DEF PresInv

\* A connection that was never used opens.
LEMMA OpensKeeps ==
  ASSUME PresInv, NEW t \in Tabs, NEW b \in Pages, P!Opens(t, b),
         UNCHANGED <<hooked, late, shown, unheard, queue>>,
         mounted' \in [Tabs -> Pages \cup {None}]
  PROVE  PresInv'
<1>1. PICK n \in 1..MaxConns[t] :
        /\ conn[<<t, n>>].net = "unused"
        /\ conn' = [conn EXCEPT ![<<t, n>>].wants = b, ![<<t, n>>].net = "open"]
        /\ ownSock' = [ownSock EXCEPT ![t] = <<t, n>>]
  BY DEF P!Opens
<1> DEFINE c == <<t, n>>
<1>2. c \in P!Conns /\ P!Owner(c) = t
  BY ConnsAre
<1>3. /\ conn[c].net = "unused" /\ ownSock' = [ownSock EXCEPT ![t] = c]
      /\ conn' = [conn EXCEPT ![c].wants = b, ![c].net = "open"]
  BY <1>1
<1> HIDE DEF c
<1>4. conn \in [P!Conns -> ConnState] /\ ownSock \in [Tabs -> P!Conns \cup {None}]
  BY PresTyped DEF PresInv
<1>5. /\ conn'[c] = [conn[c] EXCEPT !.wants = b, !.net = "open"]
      /\ \A d \in P!Conns : d # c => conn'[d] = conn[d]
  BY <1>2, <1>3, <1>4
<1>6. conn[c] \in ConnState
  BY <1>2, <1>4
<1>7. /\ conn'[c] \in ConnState /\ conn'[c].wants = b /\ conn'[c].net = "open"
      /\ conn'[c].step = conn[c].step /\ conn'[c].board = conn[c].board
      /\ conn'[c].listed = conn[c].listed
  BY <1>5, <1>6 DEF ConnState
<1>8. P!TypeOK'
  <2>1. conn' \in [P!Conns -> ConnState]
    BY <1>3, <1>4, <1>5, <1>7
  <2>2. ownSock' \in [Tabs -> P!Conns \cup {None}]
    BY <1>2, <1>3, <1>4
  <2>3. /\ hooked' \subseteq P!Conns /\ late' \subseteq P!Conns
        /\ shown' \in [Tabs -> SUBSET Users] /\ unheard' \in [Tabs -> SUBSET Users]
        /\ queue' \in [P!Conns -> Seq(P!Message)]
    BY PresTyped DEF PresInv
  <2> QED BY <2>1, <2>2, <2>3 DEF P!TypeOK, ConnState
<1>9. Staged(conn[c], queue[c])
  BY <1>2 DEF PresInv, AllStaged
<1>10. AllStaged'
  <2>1. Staged(conn'[c], queue[c])
    BY <1>3, <1>7, <1>9 DEF Staged
  <2>2. ASSUME NEW d \in P!Conns, d # c PROVE Staged(conn'[d], queue[d])
    BY <1>5, <2>2 DEF PresInv, AllStaged
  <2> QED BY <2>1, <2>2 DEF AllStaged
<1>11. OwnOpen'
  <2>1. ASSUME NEW s \in Tabs, ownSock'[s] # None
        PROVE  P!Owner(ownSock'[s]) = s /\ conn'[ownSock'[s]].net = "open"
    <3>1. CASE s = t
      BY <1>2, <1>3, <1>4, <1>7, <3>1
    <3>2. CASE s # t
      <4>1. ownSock'[s] = ownSock[s] /\ ownSock[s] \in P!Conns
        BY <1>3, <1>4, <2>1, <3>2
      <4>2. P!Owner(ownSock[s]) = s /\ conn[ownSock[s]].net = "open"
        BY <2>1, <4>1 DEF PresInv, OwnOpen
      <4> QED BY <1>2, <1>5, <3>2, <4>1, <4>2
    <3> QED BY <3>1, <3>2
  <2>2. ASSUME NEW d \in P!Conns, d \in hooked PROVE conn'[d].net = "open"
    BY <1>5, <1>7, <2>2 DEF PresInv, OwnOpen
  <2> QED BY <2>1, <2>2 DEF OwnOpen
<1>12. \A d \in P!Conns : conn'[d].board = conn[d].board
  BY <1>5, <1>7
<1> QED BY <1>8, <1>10, <1>11, <1>12, KeepTruthful, KeepVouched DEF PresInv

\* A tab stops listening to a connection whose net or step alone changes.
LEMMA StopKeeps ==
  ASSUME PresInv, NEW c \in P!Conns, P!StopsListening(c),
         mounted' \in [Tabs -> Pages \cup {None}], late' \subseteq P!Conns,
         NEW v \in ConnState, conn' = [conn EXCEPT ![c] = v], conn[c].net = "open",
         v.wants = conn[c].wants, v.board = conn[c].board, v.listed = conn[c].listed,
         v.net \in {"closing", "half", "closed"}, v.step \in {conn[c].step, "done"}
  PROVE  PresInv'
<1> DEFINE t == P!Owner(c)
<1>1. /\ ownSock' = [ownSock EXCEPT ![t] = None]
      /\ hooked' = hooked \ {c} /\ UNCHANGED shown
      /\ unheard' = [unheard EXCEPT ![t] = shown[t]]
      /\ queue' = [queue EXCEPT ![c] = <<>>]
  BY DEF P!StopsListening
<1>2. t \in Tabs
  BY ConnsAre
<1> HIDE DEF t
<1>3. /\ conn \in [P!Conns -> ConnState] /\ ownSock \in [Tabs -> P!Conns \cup {None}]
      /\ shown \in [Tabs -> SUBSET Users] /\ unheard \in [Tabs -> SUBSET Users]
      /\ queue \in [P!Conns -> Seq(P!Message)] /\ hooked \subseteq P!Conns
  BY PresTyped DEF PresInv
<1>4. /\ conn'[c] = v /\ \A d \in P!Conns : d # c => conn'[d] = conn[d]
      /\ queue'[c] = <<>> /\ \A d \in P!Conns : d # c => queue'[d] = queue[d]
      /\ \A s \in Tabs : s # t => ownSock'[s] = ownSock[s] /\ unheard'[s] = unheard[s]
      /\ ownSock'[t] = None /\ unheard'[t] = shown[t]
  BY <1>1, <1>2, <1>3
<1>5. P!TypeOK'
  <2>1. conn' \in [P!Conns -> ConnState]
    BY <1>3
  <2>2. ownSock' \in [Tabs -> P!Conns \cup {None}]
    BY <1>1, <1>3
  <2>3. shown' \in [Tabs -> SUBSET Users] /\ unheard' \in [Tabs -> SUBSET Users]
    BY <1>1, <1>2, <1>3
  <2>4. queue' \in [P!Conns -> Seq(P!Message)]
    BY <1>1, <1>3
  <2>5. hooked' \subseteq P!Conns
    BY <1>1, <1>3
  <2> QED BY <2>1, <2>2, <2>3, <2>4, <2>5 DEF P!TypeOK, ConnState
<1>6. AllStaged'
  <2>1. Staged(conn[c], queue[c])
    BY DEF PresInv, AllStaged
  <2>2. Staged(conn'[c], queue'[c])
    BY <1>4, <2>1 DEF Staged
  <2>3. ASSUME NEW d \in P!Conns, d # c PROVE Staged(conn'[d], queue'[d])
    BY <1>4, <2>3 DEF PresInv, AllStaged
  <2> QED BY <2>2, <2>3 DEF AllStaged
<1>7. OwnOpen'
  <2>1. ASSUME NEW s \in Tabs, ownSock'[s] # None
        PROVE  P!Owner(ownSock'[s]) = s /\ conn'[ownSock'[s]].net = "open"
    <3>1. s # t /\ ownSock'[s] = ownSock[s] /\ ownSock[s] \in P!Conns
      BY <1>3, <1>4, <2>1
    <3>2. P!Owner(ownSock[s]) = s /\ conn[ownSock[s]].net = "open"
      BY <2>1, <3>1 DEF PresInv, OwnOpen
    <3>3. ownSock[s] # c
      BY <3>1, <3>2 DEF t
    <3> QED BY <1>4, <3>1, <3>2, <3>3
  <2>2. ASSUME NEW d \in P!Conns, d \in hooked' PROVE conn'[d].net = "open"
    BY <1>1, <1>4, <2>2 DEF PresInv, OwnOpen
  <2> QED BY <2>1, <2>2 DEF OwnOpen
<1>8. \A d \in P!Conns : conn'[d].board = conn[d].board
  BY <1>4
<1>9. Truthful'
  BY <1>4, <1>8, KeepTruthful DEF PresInv
<1>10. Vouched'
  <2>1. ASSUME NEW s \in Tabs, s # t, NEW d \in P!Conns, d \in hooked, P!Owner(d) = s
        PROVE  d \in hooked' /\ queue'[d] = queue[d]
    BY <1>1, <1>4, <2>1 DEF t
  <2> QED BY <1>1, <1>4, <1>8, <2>1, KeepVouched DEF PresInv
<1> QED BY <1>5, <1>6, <1>7, <1>9, <1>10 DEF PresInv

\* Mount, Reconnect, Hook and Unmount.
LEMMA TabStepKeeps ==
  ASSUME PresInv, NEW t \in Tabs, P!TabStep(t) PROVE PresInv'
<1>1. /\ mounted \in [Tabs -> Pages \cup {None}] /\ late \subseteq P!Conns
      /\ conn \in [P!Conns -> ConnState] /\ ownSock \in [Tabs -> P!Conns \cup {None}]
  BY PresTyped DEF PresInv
<1>2. ASSUME NEW b \in Pages, P!Mount(t, b) PROVE PresInv'
  <2>1. mounted' \in [Tabs -> Pages \cup {None}]
    BY <1>1, <1>2 DEF P!Mount
  <2> QED BY <1>2, <2>1, OpensKeeps DEF P!Mount
<1>3. CASE P!Reconnect(t)
  <2>1. mounted[t] \in Pages /\ mounted' \in [Tabs -> Pages \cup {None}]
    BY <1>1, <1>3 DEF P!Reconnect
  <2> QED BY <1>3, <2>1, OpensKeeps DEF P!Reconnect
<1>4. CASE P!Hook(t)
  <2>1. /\ ownSock[t] \in P!Conns /\ hooked' = hooked \cup {ownSock[t]}
        /\ conn[ownSock[t]].net = "open"
        /\ UNCHANGED <<mounted, ownSock, late, shown, unheard, conn, queue>>
    BY <1>1, <1>4 DEF P!Hook, PresInv, OwnOpen
  <2>2. P!TypeOK'
    BY <2>1 DEF PresInv, P!TypeOK
  <2>3. AllStaged' /\ OwnOpen'
    BY <2>1 DEF PresInv, AllStaged, OwnOpen
  <2>4. Truthful'
    BY <2>1, KeepTruthful DEF PresInv
  <2>5. Vouched'
    BY <2>1, KeepVouched DEF PresInv
  <2> QED BY <2>2, <2>3, <2>4, <2>5 DEF PresInv
<1>5. CASE P!Unmount(t)
  <2>1. mounted' \in [Tabs -> Pages \cup {None}]
    BY <1>1, <1>5 DEF P!Unmount
  <2>2. CASE ownSock[t] = None
    <3>1. UNCHANGED <<ownSock, hooked, late, shown, unheard, conn, queue>>
      BY <1>5, <2>2 DEF P!Unmount
    <3>2. P!TypeOK'
      BY <2>1, <3>1 DEF PresInv, P!TypeOK
    <3>3. AllStaged' /\ OwnOpen' /\ Truthful' /\ Vouched'
      BY <3>1 DEF PresInv, AllStaged, OwnOpen, Truthful, Vouched, Present
    <3> QED BY <3>2, <3>3 DEF PresInv
  <2>3. CASE ownSock[t] # None
    <3>1. PICK c \in P!Conns : c = ownSock[t]
      BY <1>1, <2>3
    <3>2. PICK net \in {"closing", "half"} : conn' = [conn EXCEPT ![c].net = net]
      BY <1>5, <2>3, <3>1 DEF P!Unmount
    <3>3. P!StopsListening(c) /\ late' = late \cup {c}
      BY <1>5, <2>3, <3>1 DEF P!Unmount
    <3>4. late' \subseteq P!Conns
      BY <1>1, <3>3
    <3>5. conn[c].net = "open"
      BY <2>3, <3>1 DEF PresInv, OwnOpen
    <3>6. conn[c] \in ConnState
      BY <1>1
    <3> DEFINE v == [conn[c] EXCEPT !.net = net]
    <3>7. /\ v \in ConnState /\ v.wants = conn[c].wants /\ v.board = conn[c].board
          /\ v.listed = conn[c].listed /\ v.net = net /\ v.step = conn[c].step
      BY <3>6 DEF ConnState
    <3>8. conn' = [conn EXCEPT ![c] = v]
      BY <3>2
    <3> HIDE DEF v
    <3> QED BY <2>1, <3>2, <3>3, <3>4, <3>5, <3>7, <3>8, StopKeeps
  <2> QED BY <2>2, <2>3
<1> QED BY <1>2, <1>3, <1>4, <1>5 DEF P!TabStep

\* The closing event of a socket a page left, and a network that fails.
LEMMA TabHearsClose ==
  ASSUME PresInv, NEW c \in P!Conns, P!LateClose(c) \/ P!Lose(c)
  PROVE  PresInv'
<1>1. /\ mounted \in [Tabs -> Pages \cup {None}] /\ late \subseteq P!Conns
      /\ conn \in [P!Conns -> ConnState] /\ ownSock \in [Tabs -> P!Conns \cup {None}]
  BY PresTyped DEF PresInv
<1>2. CASE P!LateClose(c)
  <2>1. /\ UNCHANGED <<mounted, hooked, shown, unheard, conn, queue>>
        /\ late' = late \ {c} /\ ownSock' = [ownSock EXCEPT ![P!Owner(c)] = None]
    BY <1>2 DEF P!LateClose
  <2>2. late' \subseteq P!Conns /\ ownSock' \in [Tabs -> P!Conns \cup {None}]
    BY <1>1, <2>1
  <2>3. P!TypeOK'
    BY <2>1, <2>2 DEF PresInv, P!TypeOK
  <2>4. AllStaged' /\ Truthful' /\ Vouched'
    BY <2>1 DEF PresInv, AllStaged, Truthful, Vouched, Present
  <2>5. \A s \in Tabs : ownSock'[s] # None => ownSock'[s] = ownSock[s]
    BY <1>1, <2>1
  <2>6. OwnOpen'
    BY <2>1, <2>5 DEF PresInv, OwnOpen
  <2> QED BY <2>3, <2>4, <2>6 DEF PresInv
<1>3. CASE P!Lose(c)
  <2> DEFINE v == [conn[c] EXCEPT !.net = "half"]
  <2>1. conn[c] \in ConnState /\ conn[c].net = "open" /\ conn' = [conn EXCEPT ![c].net = "half"]
    BY <1>1, <1>3 DEF P!Lose
  <2>2. /\ v \in ConnState /\ v.wants = conn[c].wants /\ v.board = conn[c].board
        /\ v.listed = conn[c].listed /\ v.net = "half" /\ v.step = conn[c].step
    BY <2>1 DEF ConnState
  <2>3. conn' = [conn EXCEPT ![c] = v]
    BY <2>1
  <2>4. P!StopsListening(c) /\ UNCHANGED <<mounted, late>>
    BY <1>3 DEF P!Lose
  <2> HIDE DEF v
  <2> QED BY <1>1, <2>1, <2>2, <2>3, <2>4, StopKeeps
<1> QED BY <1>2, <1>3

\* The answer to the token check.
LEMMA TokenChecked ==
  ASSUME PresInv, NEW c \in P!Conns, P!Verified(c) \/ P!Refused(c)
  PROVE  PresInv'
<1>1. /\ mounted \in [Tabs -> Pages \cup {None}] /\ late \subseteq P!Conns
      /\ conn \in [P!Conns -> ConnState]
  BY PresTyped DEF PresInv
<1>2. /\ conn[c] \in ConnState /\ conn[c].net # "unused" /\ conn[c].step = "verifying"
      /\ Staged(conn[c], queue[c])
  BY <1>1 DEF P!Verified, P!Refused, PresInv, AllStaged
<1>3. /\ conn[c].wants \in Pages /\ conn[c].board = None /\ conn[c].listed = FALSE
      /\ queue[c] = <<>> /\ conn[c].wants # None
  BY <1>2, PresenceAssumption DEF Staged, P!PresenceAssumption
<1>4. CASE P!Verified(c)
  <2> DEFINE v == [conn[c] EXCEPT !.step = "catching", !.board = conn[c].wants, !.listed = TRUE]
  <2>1. UNCHANGED <<mounted, ownSock, hooked, late, shown, unheard, queue>>
    BY <1>4 DEF P!Verified, P!tabVars
  <2>2. conn' = [conn EXCEPT ![c] = v]
    BY <1>1, <1>4 DEF P!Verified
  <2>3. /\ v \in ConnState /\ v.wants = conn[c].wants /\ v.board = conn[c].wants
        /\ v.net = conn[c].net /\ v.step = "catching"
    BY <1>2 DEF ConnState
  <2> HIDE DEF v
  <2>4. conn'[c] = v /\ \A d \in P!Conns : d # c => conn'[d] = conn[d]
    BY <1>1, <2>2
  <2>5. P!TypeOK'
    <3>1. conn' \in [P!Conns -> ConnState]
      BY <1>1, <2>2, <2>3
    <3> QED BY <2>1, <3>1 DEF PresInv, P!TypeOK, ConnState
  <2>6. AllStaged'
    <3>1. Staged(v, queue[c])
      BY <1>2, <1>3, <2>3 DEF Staged
    <3>2. \A d \in P!Conns : Staged(conn'[d], queue[d])
      BY <2>4, <3>1 DEF PresInv, AllStaged
    <3> QED BY <2>1, <3>2 DEF AllStaged
  <2>7. \A d \in P!Conns : conn'[d].net = conn[d].net
    BY <2>3, <2>4
  <2>8. OwnOpen'
    <3>1. ASSUME NEW s \in Tabs, ownSock[s] # None
          PROVE  P!Owner(ownSock[s]) = s /\ conn'[ownSock[s]].net = "open"
      <4>1. ownSock[s] \in P!Conns
        BY <3>1, PresTyped DEF PresInv
      <4> QED BY <2>7, <3>1, <4>1 DEF PresInv, OwnOpen
    <3>2. \A d \in P!Conns : d \in hooked => conn'[d].net = "open"
      BY <2>7 DEF PresInv, OwnOpen
    <3> QED BY <2>1, <3>1, <3>2 DEF OwnOpen
  <2>9. Truthful' /\ Vouched'
    <3>1. \A d \in P!Conns : d # c => conn'[d].board = conn[d].board
      BY <2>4
    <3> QED BY <1>3, <2>1, <3>1, JoinKeeps DEF PresInv
  <2> QED BY <2>5, <2>6, <2>8, <2>9 DEF PresInv
<1>5. CASE P!Refused(c)
  <2> DEFINE v == [conn[c] EXCEPT !.step = "done", !.net = "closed"]
  <2>1. conn' = [conn EXCEPT ![c] = v]
    BY <1>1, <1>5 DEF P!Refused
  <2>2. /\ v \in ConnState /\ v.wants = conn[c].wants /\ v.board = conn[c].board
        /\ v.listed = conn[c].listed /\ v.net = "closed" /\ v.step = "done"
    BY <1>2 DEF ConnState
  <2>3. UNCHANGED <<mounted, late>>
    BY <1>5 DEF P!Refused
  <2> HIDE DEF v
  <2>4. CASE conn[c].net = "open"
    <3>1. P!StopsListening(c)
      BY <1>5, <2>4 DEF P!Refused
    <3> QED BY <1>1, <2>1, <2>2, <2>3, <2>4, <3>1, StopKeeps
  <2>5. CASE conn[c].net # "open"
    <3>1. UNCHANGED <<mounted, ownSock, hooked, late, shown, unheard, queue>>
      BY <1>5, <2>3, <2>5 DEF P!Refused
    <3>2. conn'[c] = v /\ \A d \in P!Conns : d # c => conn'[d] = conn[d]
      BY <1>1, <2>1
    <3>3. P!TypeOK'
      <4>1. conn' \in [P!Conns -> ConnState]
        BY <1>1, <2>1, <2>2
      <4> QED BY <3>1, <4>1 DEF PresInv, P!TypeOK, ConnState
    <3>4. AllStaged'
      <4>1. Staged(v, queue[c])
        BY <1>2, <1>3, <2>2 DEF Staged
      <4>2. \A d \in P!Conns : Staged(conn'[d], queue[d])
        BY <3>2, <4>1 DEF PresInv, AllStaged
      <4> QED BY <3>1, <4>2 DEF AllStaged
    <3>5. \A d \in P!Conns : conn[d].net = "open" => conn'[d].net = "open"
      BY <2>5, <3>2
    <3>6. OwnOpen'
      <4>1. ASSUME NEW s \in Tabs, ownSock[s] # None
            PROVE  P!Owner(ownSock[s]) = s /\ conn'[ownSock[s]].net = "open"
        <5>1. ownSock[s] \in P!Conns
          BY <4>1, PresTyped DEF PresInv
        <5> QED BY <3>5, <4>1, <5>1 DEF PresInv, OwnOpen
      <4>2. \A d \in P!Conns : d \in hooked => conn'[d].net = "open"
        BY <3>5 DEF PresInv, OwnOpen
      <4> QED BY <3>1, <4>1, <4>2 DEF OwnOpen
    <3>7. \A d \in P!Conns : conn'[d].board = conn[d].board
      BY <2>2, <3>2
    <3>8. Truthful'
      BY <3>1, <3>7, KeepTruthful DEF PresInv
    <3>9. Vouched'
      BY <3>1, <3>7, KeepVouched DEF PresInv
    <3> QED BY <3>3, <3>4, <3>6, <3>8, <3>9 DEF PresInv
  <2> QED BY <2>4, <2>5
<1> QED BY <1>4, <1>5

\* The user of connection c is announced to its board, and c may be told of others.
LEMMA SayKeeps ==
  ASSUME PresInv, NEW c \in P!Conns, NEW us \in SUBSET Users,
         UNCHANGED <<mounted, ownSock, hooked, late, shown, unheard>>,
         NEW v \in ConnState, conn' = [conn EXCEPT ![c] = v],
         v.wants = conn[c].wants, v.board = conn[c].board, v.listed = conn[c].listed,
         v.net = conn[c].net, v.step = conn[c].step \/ (v.step = "done" /\ v.net # "unused"),
         \A u \in us : Present(conn, c, u),
         queue' \in [P!Conns -> Seq(P!Message)],
         \A d \in P!Conns : d # c =>
           \/ queue'[d] = queue[d]
           \/ Hears(c, d) /\ queue'[d] = Append(queue[d], P!Here({P!UserOn(c)})),
         \/ queue'[c] = queue[c]
         \/ /\ conn[c].net = "open" /\ conn[c].board # None
            /\ queue'[c] = Append(queue[c], P!Here(us))
  PROVE  PresInv'
<1>1. conn \in [P!Conns -> ConnState] /\ queue \in [P!Conns -> Seq(P!Message)]
  BY PresTyped DEF PresInv
<1>2. conn'[c] = v /\ \A d \in P!Conns : d # c => conn'[d] = conn[d]
  BY <1>1
<1>3. P!Here(us) \in P!Message /\ P!Here({P!UserOn(c)}) \in P!Message
  BY UsersTyped DEF P!Here, P!Message
<1>4. \A d \in P!Conns : queue[d] \in Seq(P!Message)
  BY <1>1
<1>5. \A d \in P!Conns : queue'[d] \in Seq(P!Message)
  OBVIOUS
<1>6. P!TypeOK'
  <2>1. conn' \in [P!Conns -> ConnState]
    BY <1>1
  <2> QED BY <2>1 DEF PresInv, P!TypeOK, ConnState
<1>7. AllStaged'
  <2>1. ASSUME NEW d \in P!Conns, d # c PROVE Staged(conn'[d], queue'[d])
    <3>1. Staged(conn[d], queue[d])
      BY DEF PresInv, AllStaged
    <3>2. queue'[d] = queue[d] \/ (conn[d].net = "open" /\ conn[d].board # None)
      BY <2>1 DEF Hears
    <3> QED BY <1>2, <2>1, <3>1, <3>2 DEF Staged
  <2>2. Staged(conn'[c], queue'[c])
    <3>1. Staged(conn[c], queue[c])
      BY DEF PresInv, AllStaged
    <3> QED BY <1>2, <3>1 DEF Staged
  <2> QED BY <2>1, <2>2 DEF AllStaged
<1>8. \A d \in P!Conns : conn'[d].net = conn[d].net /\ conn'[d].board = conn[d].board
  BY <1>2
<1>9. OwnOpen'
  <2>1. ASSUME NEW s \in Tabs, ownSock[s] # None
        PROVE  P!Owner(ownSock[s]) = s /\ conn'[ownSock[s]].net = "open"
    <3>1. ownSock[s] \in P!Conns
      BY <2>1, PresTyped DEF PresInv
    <3> QED BY <1>8, <2>1, <3>1 DEF PresInv, OwnOpen
  <2>2. \A d \in P!Conns : d \in hooked => conn'[d].net = "open"
    BY <1>8 DEF PresInv, OwnOpen
  <2> QED BY <2>1, <2>2 DEF OwnOpen
<1>10. ASSUME NEW d \in P!Conns, NEW u \in Users, u # P!UserOn(d)
       PROVE  \/ News(queue'[d], u) = News(queue[d], u)
              \/ News(queue'[d], u) = {"here"} /\ Present(conn, d, u)
  <2>1. CASE queue'[d] = queue[d]
    BY <2>1
  <2>2. CASE d # c /\ queue'[d] # queue[d]
    <3> DEFINE m == P!Here({P!UserOn(c)})
    <3>1. Hears(c, d) /\ queue'[d] = Append(queue[d], m)
      BY <2>2
    <3>2. m.users = {P!UserOn(c)} /\ m.kind = "here" /\ m \in P!Message
      BY <1>3 DEF P!Here
    <3> HIDE DEF m
    <3>3. CASE u = P!UserOn(c)
      <4>1. u \in m.users
        BY <3>2, <3>3
      <4>2. News(queue'[d], u) = {m.kind}
        <5>1. queue[d] \in Seq(P!Message)
          BY <1>4
        <5>2. News(Append(queue[d], m), u) = {m.kind}
          BY <3>2, <4>1, <5>1, NewsOfAppended
        <5> QED BY <3>1, <5>2
      <4>3. Present(conn, d, u)
        BY <3>1, <3>3 DEF Present, Hears
      <4> QED BY <3>2, <4>2, <4>3
    <3>4. CASE u # P!UserOn(c)
      <4>1. u \notin m.users /\ queue[d] \in Seq(P!Message)
        BY <1>4, <3>2, <3>4
      <4>2. News(Append(queue[d], m), u) = News(queue[d], u)
        BY <3>2, <4>1, NewsOfAppended
      <4> QED BY <3>1, <4>2
    <3> QED BY <3>3, <3>4
  <2>3. CASE d = c /\ queue'[d] # queue[d]
    <3> DEFINE m == P!Here(us)
    <3>1. queue'[d] = Append(queue[d], m)
      BY <2>3
    <3>2. m.users = us /\ m.kind = "here" /\ m \in P!Message
      BY <1>3 DEF P!Here
    <3> HIDE DEF m
    <3>3. CASE u \in us
      <4>1. News(queue'[d], u) = {m.kind}
        BY <1>4, <3>1, <3>2, <3>3, NewsOfAppended
      <4>2. Present(conn, d, u)
        BY <2>3, <3>3
      <4> QED BY <3>2, <4>1, <4>2
    <3>4. CASE u \notin us
      BY <1>4, <3>1, <3>2, <3>4, NewsOfAppended
    <3> QED BY <3>3, <3>4
  <2> QED BY <2>1, <2>2, <2>3
<1>11. Truthful' /\ Vouched'
  BY <1>8, <1>10, HereSaid DEF PresInv
<1> QED BY <1>6, <1>7, <1>9, <1>11 DEF PresInv

LEMMA CaughtUpKeeps ==
  ASSUME PresInv, NEW c \in P!Conns, NEW told \in BOOLEAN, P!CaughtUp(c, told)
  PROVE  PresInv'
<1> DEFINE there == {P!UserOn(d) : d \in P!OnBoard(conn[c].board)} \ {P!UserOn(c)}
           joined == P!Broadcast(c, P!Here({P!UserOn(c)}))
           v == [conn[c] EXCEPT !.step = "done"]
<1>1. /\ UNCHANGED <<mounted, ownSock, hooked, late, shown, unheard>>
      /\ conn[c].step = "catching" /\ conn' = [conn EXCEPT ![c].step = "done"]
  BY DEF P!CaughtUp, P!tabVars
<1>2. conn \in [P!Conns -> ConnState] /\ conn[c] \in ConnState /\ Staged(conn[c], queue[c])
      /\ queue \in [P!Conns -> Seq(P!Message)]
  BY PresTyped DEF PresInv, AllStaged
<1>3. conn[c].net # "unused"
  BY <1>1, <1>2 DEF Staged
<1>4. queue' = IF told \/ conn[c].board = None THEN queue
               ELSE IF conn[c].net = "open" /\ there # {}
                 THEN [joined EXCEPT ![c] = Append(@, P!Here(there))]
                 ELSE joined
  BY DEF P!CaughtUp
<1>5. /\ v \in ConnState /\ v.wants = conn[c].wants /\ v.board = conn[c].board
      /\ v.listed = conn[c].listed /\ v.net = conn[c].net /\ v.step = "done"
  BY <1>2 DEF ConnState
<1>6. conn' = [conn EXCEPT ![c] = v]
  BY <1>1, <1>2
<1>7. there \in SUBSET Users /\ \A u \in there : conn[c].board # None => Present(conn, c, u)
  BY UsersTyped DEF P!OnBoard, Present
<1>8. joined = P!Broadcast(c, P!Here({P!UserOn(c)}))
  OBVIOUS
<1>9. joined \in [P!Conns -> Seq(P!Message)]
  <2>1. P!Here({P!UserOn(c)}) \in P!Message
    BY UsersTyped DEF P!Here, P!Message
  <2> QED BY <1>2, <2>1, BroadcastTyped
<1> HIDE DEF there, joined, v
<1>10. /\ joined[c] = queue[c]
      /\ \A d \in P!Conns : d # c =>
           \/ joined[d] = queue[d]
           \/ Hears(c, d) /\ joined[d] = Append(queue[d], P!Here({P!UserOn(c)}))
  BY <1>8, BroadcastIs
<1>11. CASE conn[c].board = None
  <2>1. queue' = queue
    BY <1>4, <1>11
  <2>2. queue' \in [P!Conns -> Seq(P!Message)]
    BY <1>2, <2>1
  <2>3. {} \in SUBSET Users /\ \A u \in {} : Present(conn, c, u)
    OBVIOUS
  <2>4. \A d \in P!Conns : queue'[d] = queue[d]
    BY <2>1
  <2>5. v.step = conn[c].step \/ (v.step = "done" /\ v.net # "unused")
    BY <1>3, <1>5
  <2>6. \A d \in P!Conns : d # c =>
           \/ queue'[d] = queue[d]
           \/ Hears(c, d) /\ queue'[d] = Append(queue[d], P!Here({P!UserOn(c)}))
    BY <2>4
  <2>7. queue'[c] = queue[c]
    BY <2>4
  <2> QED BY <1>1, <1>5, <1>6, <2>2, <2>3, <2>5, <2>6, <2>7, SayKeeps
<1>12. CASE conn[c].board # None
  <2>1. queue' \in [P!Conns -> Seq(P!Message)]
    <3>1. P!Here(there) \in P!Message
      BY <1>7 DEF P!Here, P!Message
    <3>2. Append(queue[c], P!Here(there)) \in Seq(P!Message)
      BY <1>2, <3>1
    <3>3. [joined EXCEPT ![c] = Append(joined[c], P!Here(there))] \in [P!Conns -> Seq(P!Message)]
      BY <1>10, <1>9, <3>2
    <3> QED BY <1>2, <1>4, <1>9, <3>3
  <2>2. \A d \in P!Conns : d # c =>
           \/ queue'[d] = queue[d]
           \/ Hears(c, d) /\ queue'[d] = Append(queue[d], P!Here({P!UserOn(c)}))
    <3>1. \A d \in P!Conns : d # c => queue'[d] = queue[d] \/ queue'[d] = joined[d]
      <4>1. \A d \in P!Conns : d # c =>
              [joined EXCEPT ![c] = Append(joined[c], P!Here(there))][d] = joined[d]
        BY <1>9
      <4> QED BY <1>4, <4>1
    <3> QED BY <1>10, <3>1
  <2>3. \/ queue'[c] = queue[c]
        \/ /\ conn[c].net = "open" /\ conn[c].board # None
           /\ queue'[c] = Append(queue[c], P!Here(there))
    BY <1>4, <1>10, <1>12
  <2>4. \A u \in there : Present(conn, c, u)
    BY <1>7, <1>12
  <2> QED BY <1>1, <1>3, <1>5, <1>6, <1>7, <1>12, <2>1, <2>2, <2>3, <2>4, SayKeeps
<1> QED BY <1>11, <1>12

\* The client's heartbeat and the server's announcement of an idle client.
LEMMA HeartbeatKeeps ==
  ASSUME PresInv, NEW c \in P!Conns, P!Heartbeat(c) \/ P!Idle(c)
  PROVE  PresInv'
<1>1. /\ UNCHANGED <<mounted, ownSock, hooked, late, shown, unheard, conn>>
      /\ conn[c].board # None /\ queue' = P!Broadcast(c, P!Here({P!UserOn(c)}))
  BY DEF P!Heartbeat, P!Idle, P!tabVars
<1>2. conn \in [P!Conns -> ConnState] /\ conn[c] \in ConnState
  BY PresTyped DEF PresInv
<1>3. conn' = [conn EXCEPT ![c] = conn[c]]
  BY <1>1, <1>2
<1>4. /\ queue'[c] = queue[c]
      /\ \A d \in P!Conns : d # c =>
           \/ queue'[d] = queue[d]
           \/ Hears(c, d) /\ queue'[d] = Append(queue[d], P!Here({P!UserOn(c)}))
  BY <1>1, BroadcastIs
<1>6. queue' \in [P!Conns -> Seq(P!Message)]
  <2>1. P!Here({P!UserOn(c)}) \in P!Message
    BY UsersTyped DEF P!Here, P!Message
  <2> QED BY <1>1, <2>1, PresTyped, BroadcastTyped DEF PresInv
<1>5. {} \in SUBSET Users /\ \A u \in {} : Present(conn, c, u)
  OBVIOUS
<1> QED BY <1>1, <1>2, <1>3, <1>4, <1>5, <1>6, SayKeeps

\* The leave of a connection the tab no longer listens to.
LEMMA GoneKeeps ==
  ASSUME PresInv, NEW c \in P!Conns,
         UNCHANGED <<mounted, ownSock, hooked, late, shown, unheard>>,
         conn[c].net # "open", conn[c].net # "unused",
         queue' = P!Broadcast(c, P!Leave({P!UserOn(c)})),
         NEW v \in ConnState, conn' = [conn EXCEPT ![c] = v],
         v.wants = conn[c].wants, v.step = conn[c].step, v.board = None,
         \/ v.net = "closed" /\ v.listed = FALSE
         \/ v.net = "left" /\ v.listed = conn[c].listed
  PROVE  PresInv'
<1>1. conn \in [P!Conns -> ConnState] /\ queue \in [P!Conns -> Seq(P!Message)]
  BY PresTyped DEF PresInv
<1>2. conn'[c] = v /\ \A d \in P!Conns : d # c => conn'[d] = conn[d]
  BY <1>1
<1>3. /\ queue'[c] = queue[c]
      /\ \A d \in P!Conns : d # c =>
           \/ queue'[d] = queue[d]
           \/ Hears(c, d) /\ queue'[d] = Append(queue[d], P!Leave({P!UserOn(c)}))
  BY BroadcastIs
<1>4. P!TypeOK'
  <2>1. conn' \in [P!Conns -> ConnState]
    BY <1>1
  <2>2. P!Leave({P!UserOn(c)}) \in P!Message
    BY UsersTyped DEF P!Leave, P!Message
  <2>3. queue' \in [P!Conns -> Seq(P!Message)]
    BY <1>1, <2>2, BroadcastTyped
  <2> QED BY <2>1, <2>3 DEF PresInv, P!TypeOK, ConnState
<1>5. AllStaged'
  <2>1. ASSUME NEW d \in P!Conns, d # c PROVE Staged(conn'[d], queue'[d])
    <3>1. Staged(conn[d], queue[d])
      BY DEF PresInv, AllStaged
    <3>2. queue'[d] = queue[d] \/ (conn[d].net = "open" /\ conn[d].board # None)
      BY <1>3 DEF Hears
    <3> QED BY <1>2, <2>1, <3>1, <3>2 DEF Staged
  <2>2. Staged(conn'[c], queue'[c])
    <3>1. Staged(conn[c], queue[c])
      BY DEF PresInv, AllStaged
    <3> QED BY <1>2, <1>3, <3>1 DEF Staged
  <2> QED BY <2>1, <2>2 DEF AllStaged
<1>6. \A d \in P!Conns : conn[d].net = "open" => conn'[d].net = "open"
  BY <1>2
<1>7. OwnOpen'
  <2>1. ASSUME NEW s \in Tabs, ownSock[s] # None
        PROVE  P!Owner(ownSock[s]) = s /\ conn'[ownSock[s]].net = "open"
    <3>1. ownSock[s] \in P!Conns
      BY <2>1, PresTyped DEF PresInv
    <3> QED BY <1>6, <2>1, <3>1 DEF PresInv, OwnOpen
  <2>2. \A d \in P!Conns : d \in hooked => conn'[d].net = "open"
    BY <1>6 DEF PresInv, OwnOpen
  <2> QED BY <2>1, <2>2 DEF OwnOpen
<1>8. Truthful' /\ Vouched'
  <2>1. conn'[c].board = None /\ \A d \in P!Conns : d # c => conn'[d].board = conn[d].board
    BY <1>2
  <2> QED BY <2>1, LeaveSaid DEF PresInv
<1> QED BY <1>4, <1>5, <1>7, <1>8 DEF PresInv

LEMMA LeavesKeep ==
  ASSUME PresInv, NEW c \in P!Conns, P!Unsubscribe(c) \/ P!Closed(c) \/ P!Stale(c)
  PROVE  PresInv'
<1>1. conn \in [P!Conns -> ConnState] /\ conn[c] \in ConnState
  BY PresTyped DEF PresInv
<1>2. /\ UNCHANGED <<mounted, ownSock, hooked, late, shown, unheard>>
      /\ queue' = P!Broadcast(c, P!Leave({P!UserOn(c)}))
      /\ conn[c].net # "open" /\ conn[c].net # "unused"
  BY DEF P!Unsubscribe, P!Closed, P!Stale, P!Gone, P!tabVars
<1>3. CASE P!Unsubscribe(c)
  <2> DEFINE v == [conn[c] EXCEPT !.net = "left", !.board = None]
  <2>1. conn' = [conn EXCEPT ![c] = v]
    BY <1>1, <1>3 DEF P!Unsubscribe
  <2>2. /\ v \in ConnState /\ v.wants = conn[c].wants /\ v.step = conn[c].step
        /\ v.board = None /\ v.net = "left" /\ v.listed = conn[c].listed
    BY <1>1 DEF ConnState
  <2> HIDE DEF v
  <2> QED BY <1>2, <2>1, <2>2, GoneKeeps
<1>4. CASE P!Closed(c) \/ P!Stale(c)
  <2> DEFINE v == [conn[c] EXCEPT !.net = "closed", !.board = None, !.listed = FALSE]
  <2>1. conn' = [conn EXCEPT ![c] = v]
    BY <1>1, <1>4 DEF P!Closed, P!Stale, P!Gone
  <2>2. /\ v \in ConnState /\ v.wants = conn[c].wants /\ v.step = conn[c].step
        /\ v.board = None /\ v.net = "closed" /\ v.listed = FALSE
    BY <1>1 DEF ConnState
  <2> HIDE DEF v
  <2> QED BY <1>2, <2>1, <2>2, GoneKeeps
<1> QED BY <1>3, <1>4

LEMMA InitPres == P!Init => PresInv
<1> SUFFICES ASSUME P!Init PROVE PresInv
  OBVIOUS
<1>1. /\ \A c \in P!Conns : conn[c] = P!Unused /\ queue[c] = <<>>
      /\ \A t \in Tabs : ownSock[t] = None /\ shown[t] = {}
      /\ hooked = {}
  BY DEF P!Init
<1>2. P!TypeOK
  BY DEF P!Init, P!Unused, P!TypeOK
<1>3. AllStaged
  BY <1>1 DEF AllStaged, Staged, P!Unused
<1>4. OwnOpen /\ Vouched
  BY <1>1 DEF OwnOpen, Vouched
<1>5. Truthful
  BY <1>1, NoNews DEF Truthful
<1> QED BY <1>2, <1>3, <1>4, <1>5 DEF PresInv

LEMMA NextPres == PresInv /\ [P!Next]_P!vars => PresInv'
<1> SUFFICES ASSUME PresInv, [P!Next]_P!vars PROVE PresInv'
  OBVIOUS
<1>1. CASE UNCHANGED P!vars
  <2>1. UNCHANGED <<mounted, ownSock, hooked, late, shown, unheard, conn, queue>>
    BY <1>1 DEF P!vars
  <2>2. P!TypeOK'
    BY <2>1 DEF PresInv, P!TypeOK
  <2>3. AllStaged' /\ OwnOpen' /\ Truthful' /\ Vouched'
    BY <2>1 DEF PresInv, AllStaged, OwnOpen, Truthful, Vouched, Present
  <2> QED BY <2>2, <2>3 DEF PresInv
<1>2. ASSUME NEW c \in P!Conns, P!ConnStep(c) PROVE PresInv'
  BY <1>2, TabHearsClose, ReadKeeps, TokenChecked, CaughtUpKeeps, HeartbeatKeeps, LeavesKeep
  DEF P!ConnStep
<1> QED BY <1>1, <1>2, TabStepKeeps DEF P!Next

\* The invariant tells both properties.
LEMMA PresInvSays == PresInv => GhostsOnlyMissed /\ DeadWithinReach
<1> SUFFICES ASSUME PresInv PROVE GhostsOnlyMissed /\ DeadWithinReach
  OBVIOUS
<1>1. GhostsOnlyMissed
  <2> SUFFICES ASSUME NEW t \in Tabs, NEW u \in Users \ {UserOf[t]},
                      \/ "here" \in UNION {P!LastNews(queue[c], u) : c \in P!Listening(t)}
                      \/ /\ "leave" \notin UNION {P!LastNews(queue[c], u) : c \in P!Listening(t)}
                         /\ u \in shown[t] \ unheard[t]
               PROVE  \E d \in P!Conns :
                        P!UserOn(d) = u /\ conn[d].board \in {conn[c].wants : c \in P!Listening(t)}
    BY DEF GhostsOnlyMissed, P!GhostsOnlyMissed
  <2>1. \A c : c \in P!Listening(t) <=> c \in hooked /\ P!Owner(c) = t
    BY DEF P!Listening
  <2>2. hooked \subseteq P!Conns
    BY PresTyped DEF PresInv
  <2>3. PICK c \in P!Conns : c \in hooked /\ P!Owner(c) = t /\ Present(conn, c, u)
    <3>1. CASE "here" \in UNION {P!LastNews(queue[c], u) : c \in P!Listening(t)}
      <4>1. PICK c \in P!Conns : c \in hooked /\ P!Owner(c) = t /\ "here" \in News(queue[c], u)
        BY <2>1, <2>2, <3>1, NewsIs
      <4>2. u # P!UserOn(c)
        BY <4>1, ConnsAre
      <4> QED BY <4>1, <4>2 DEF PresInv, Truthful
    <3>2. CASE /\ "leave" \notin UNION {P!LastNews(queue[c], u) : c \in P!Listening(t)}
               /\ u \in shown[t] \ unheard[t]
      <4>1. PICK c \in P!Conns : /\ c \in hooked /\ P!Owner(c) = t
                                 /\ "leave" \in News(queue[c], u) \/ Present(conn, c, u)
        BY <3>2 DEF PresInv, Vouched
      <4>2. "leave" \notin News(queue[c], u)
        BY <2>1, <3>2, <4>1, NewsIs
      <4> QED BY <4>1, <4>2
    <3> QED BY <3>1, <3>2
  <2>4. PICK d \in P!Conns : /\ P!UserOn(d) = u /\ conn[d].board = conn[c].board
                              /\ conn[c].board # None
    BY <2>3 DEF Present
  <2>5. conn[c].board = conn[c].wants
    BY <2>3, <2>4 DEF PresInv, OwnOpen, AllStaged, Staged
  <2> QED BY <2>1, <2>3, <2>4, <2>5
<1>2. DeadWithinReach
  BY DEF PresInv, AllStaged, Staged, DeadWithinReach, P!DeadWithinReach
<1> QED BY <1>1, <1>2

\* Every variable of presence keeps its type.
THEOREM PresenceTypeCorrect == P!Spec => []P!TypeOK
<1>1. PresInv => P!TypeOK
  BY DEF PresInv
<1> QED BY <1>1, InitPres, NextPres, PTL DEF P!Spec

\* Whatever is lost, orphaned or late, joins, leaves and lists give a tab no user
\* who is on none of its boards: each it will show is on one, or was shown already
\* when the tab last stopped listening.
THEOREM NoNewGhosts == P!Spec => []GhostsOnlyMissed
<1> QED BY InitPres, NextPres, PresInvSays, PTL DEF P!Spec

\* The check of stale clients finds every dead connection some user's registry
\* still holds, also one that died while its subscription was verified.
THEOREM DeadAreFound == P!Spec => []DeadWithinReach
<1> QED BY InitPres, NextPres, PresInvSays, PTL DEF P!Spec
=============================================================================
