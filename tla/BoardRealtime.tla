---------------------------- MODULE BoardRealtime ----------------------------
(* How a committed board event reaches the board a browser tab shows: the      *)
(* event log (outbox_events), its publication to Redis, the connections of     *)
(* apps/ws-server, and in the tab boardSocketClient.ts, the sync FSM, its      *)
(* orchestrator, the reconciler of incoming events and the board store.        *)
(* Each function of the tab and of the server runs to its next await alone;    *)
(* a connection is FIFO from the server to the tab.                            *)
EXTENDS SyncStateMachine, Sequences, FiniteSets, FiniteSetsExt

CONSTANTS
    Boards, NoBoard,
    Sockets, NoSock,   \* WebSocket objects of the tab; a closed one is reused
    MaxSeq,            \* bound: events committed on a board
    Unknown,           \* sequences of events whose type the tab does not know
    Subscribed,        \* boards whose channel the server already listens to
    InOrder,           \* whether events are first published in their order
    CatchUpMayFail,    \* whether the catch-up queries may fail
    FetchJournal,      \* whether the orchestrator was given a fetchJournal
    ResyncThreshold,   \* RESYNC_THRESHOLD
    MaxCatchUp,        \* MAX_CATCH_UP
    MaxBuffer,         \* BUFFER_OVERFLOW_THRESHOLD, MAX_BUFFER_BEFORE_DESYNC
    MaxMounts, MaxDrops, MaxRehydrations, MaxFailures    \* bounds

ASSUME RealtimeAssumption ==
    /\ NoBoard \notin Boards /\ NoSock \notin Sockets
    /\ MaxSeq \in Nat /\ Unknown \subseteq 1..MaxSeq /\ Subscribed \subseteq Boards
    /\ {InOrder, CatchUpMayFail, FetchJournal} \subseteq BOOLEAN
    /\ {ResyncThreshold, MaxCatchUp, MaxBuffer} \subseteq Nat \ {0}
    /\ {MaxMounts, MaxDrops, MaxRehydrations, MaxFailures} \subseteq Nat

VARIABLES
    \* the server
    committed,  \* the last sequence of each board in outbox_events
    published,  \* the sequences Redis has been given
    redisSub,   \* the server's subscription to each board's channel
    reg,        \* boardClients: the board each connection is registered for
    mark,       \* lastSequence, the watermark of each connection
    task,       \* the subscribe each socket's open handler sent, while it runs
    \* the tab's sockets
    sock,       \* the state of each socket
    inbox,      \* what was sent on it and is not delivered
    ws, board,  \* boardSocket.ws and boardSocket.boardId
    \* the orchestrator
    fsm, gapTimer, reconnect,   \* reconnect: the attempt its timer is set for
    resync,     \* runFullResync while it runs
    \* the board store
    seq, buffer, status,        \* boardSequence, bufferedEvents, syncStatus
    applied,    \* the events applied since the board was loaded
    loaded,     \* the last event the loaded lists and cards already show
    \* what the bounds count
    mounts, drops, rehydrations, failures

server == <<committed, published, redisSub, reg, mark, task>>
socket == <<sock, inbox, ws, board>>
sync   == <<fsm, gapTimer, reconnect, resync>>
store  == <<seq, buffer, status, applied, loaded>>
budget == <<mounts, drops, rehydrations, failures>>
vars   == <<server, socket, sync, store, budget>>

Event == [board : Boards, seq : 1..MaxSeq]
EventMessage(b, n) == [type |-> "EVENT", event |-> [board |-> b, seq |-> n]]
ResyncMessage == [type |-> "RESYNC_REQUIRED"]

NoTask == [at |-> "none", on |-> NoSock, board |-> NoBoard, base |-> 0, upto |-> 0]
NoResync == [phase |-> "off", upto |-> 0, aborted |-> FALSE]

Init == /\ committed = [b \in Boards |-> 0] /\ published = [b \in Boards |-> {}]
        /\ redisSub = [b \in Boards |-> IF b \in Subscribed THEN "on" ELSE "off"]
        /\ reg = [s \in Sockets |-> NoBoard] /\ mark = [s \in Sockets |-> 0]
        /\ task = [s \in Sockets |-> NoTask]
        /\ sock = [s \in Sockets |-> "closed"] /\ inbox = [s \in Sockets |-> <<>>]
        /\ ws = NoSock /\ board = NoBoard
        /\ fsm = "IDLE" /\ gapTimer = FALSE /\ reconnect = 0 /\ resync = NoResync
        /\ seq = 0 /\ buffer = {} /\ status = "healthy" /\ applied = {} /\ loaded = 0
        /\ mounts = 0 /\ drops = 0 /\ rehydrations = 0 /\ failures = 0
-----------------------------------------------------------------------------
(* The event log and its publication *)

\* A command of any client: nextBoardSequence and the outbox append, one commit.
Commit(b) == /\ committed[b] < MaxSeq
             /\ committed' = [committed EXCEPT ![b] = @ + 1]
             /\ UNCHANGED <<published, redisSub, reg, mark, task, socket, sync,
                            store, budget>>

\* The connections that the channel's message is forwarded to.
Receivers(b, n) == {s \in Sockets : /\ redisSub[b] = "on" /\ reg[s] = b
                                    /\ sock[s] = "open" /\ n > mark[s]}

\* The outbox worker publishes an event once or more; the server forwards it.
Publish(b, n) ==
    /\ n <= committed[b]
    /\ InOrder => 1..(n - 1) \subseteq published[b]
    /\ published' = [published EXCEPT ![b] = @ \cup {n}]
    /\ inbox' = [s \in Sockets |-> IF s \in Receivers(b, n)
                                   THEN Append(inbox[s], EventMessage(b, n))
                                   ELSE inbox[s]]
    /\ mark' = [s \in Sockets |-> IF s \in Receivers(b, n) THEN n ELSE mark[s]]
    /\ UNCHANGED <<committed, redisSub, reg, task, sock, ws, board, sync, store, budget>>

RedisSubscribed(b) == /\ redisSub[b] = "pending"
                      /\ redisSub' = [redisSub EXCEPT ![b] = "on"]
                      /\ UNCHANGED <<committed, published, reg, mark, task, socket,
                                     sync, store, budget>>
-----------------------------------------------------------------------------
(* subscribeClient and performCatchUp *)

\* After the token check: register, then start the catch-up.
Register(o) ==
    LET t == task[o] IN
    /\ t.at = "auth"
    /\ reg' = [reg EXCEPT ![t.on] = t.board]
    /\ mark' = [mark EXCEPT ![t.on] = t.base]
    /\ redisSub' = [redisSub EXCEPT ![t.board] = IF @ = "off" THEN "pending" ELSE @]
    /\ task' = [task EXCEPT ![o].at = "count"]
    /\ UNCHANGED <<committed, published, socket, sync, store, budget>>

\* SELECT COUNT(*) ... AND sequence > lastSeq
Count(o) ==
    LET t == task[o]
        missed == committed[t.board] - t.base IN
    /\ t.at = "count"
    /\ IF missed > ResyncThreshold
       THEN /\ inbox' = [inbox EXCEPT ![t.on] = Append(@, ResyncMessage)]
            /\ task' = [task EXCEPT ![o] = NoTask]
       ELSE /\ task' = [task EXCEPT ![o] = IF missed > 0 THEN [t EXCEPT !.at = "select"]
                                                         ELSE NoTask]
            /\ UNCHANGED inbox
    /\ UNCHANGED <<committed, published, redisSub, reg, mark, sock, ws, board, sync,
                   store, budget>>

\* SELECT ... ORDER BY sequence ASC LIMIT MAX_CATCH_UP: the rows it reads.
Select(o) == /\ task[o].at = "select"
             /\ task' = [task EXCEPT ![o].at = "rows",
                                     ![o].upto = Min({committed[task[o].board],
                                                      task[o].base + MaxCatchUp})]
             /\ UNCHANGED <<committed, published, redisSub, reg, mark, socket, sync,
                            store, budget>>

\* Variant: the watermark becomes the log's last sequence.
SendRowsToHead(o) ==
    LET t == task[o]
        rows == [i \in 1..(t.upto - t.base) |-> EventMessage(t.board, t.base + i)] IN
    /\ t.at = "rows"
    /\ inbox' = [inbox EXCEPT ![t.on] = @ \o rows]
    /\ mark' = [mark EXCEPT ![t.on] = committed[t.board]]
    /\ task' = [task EXCEPT ![o] = NoTask]
    /\ UNCHANGED <<committed, published, redisSub, reg, sock, ws, board, sync, store,
                   budget>>

\* Each row is sent and becomes the watermark.
SendRows(o) ==
    LET t == task[o]
        rows == [i \in 1..(t.upto - t.base) |-> EventMessage(t.board, t.base + i)] IN
    /\ t.at = "rows"
    /\ inbox' = [inbox EXCEPT ![t.on] = @ \o rows]
    /\ mark' = [mark EXCEPT ![t.on] = t.upto]
    /\ task' = [task EXCEPT ![o] = NoTask]
    /\ UNCHANGED <<committed, published, redisSub, reg, sock, ws, board, sync, store,
                   budget>>

\* A query fails: the client goes on without catch-up.
CatchUpFails(o) == /\ CatchUpMayFail
                   /\ task[o].at \in {"count", "select"}
                   /\ task' = [task EXCEPT ![o] = NoTask]
                   /\ UNCHANGED <<committed, published, redisSub, reg, mark, socket,
                                  sync, store, budget>>
-----------------------------------------------------------------------------
(* The sync FSM and the effects the orchestrator runs *)

\* runFullResync: one at a time, and only with a fetchJournal.
ResyncAfter(s, t) ==
    IF ResyncTriggered(s, t) /\ FetchJournal /\ resync.phase = "off"
    THEN [NoResync EXCEPT !.phase = "fetching"] ELSE resync

\* getSyncFSM().send(m), with the effects but for UPDATE_STORE_STATUS; n is the
\* attempt m carries and timer the one its sender has left set.
SendAttempt(m, n, timer) ==
    LET t == Transition(fsm, m) IN
    /\ fsm' = t
    /\ gapTimer' = GapTimerAfter(fsm, t, gapTimer)
    /\ reconnect' = ReconnectAfter(fsm, m, t, timer, n)
    /\ resync' = ResyncAfter(fsm, t)

Send(m) == SendAttempt(m, 0, reconnect)
StatusSent(m) == status' = StatusAfter(fsm, Transition(fsm, m), status)

\* new WebSocket(url)
OpenNew(socks) == \E s \in Sockets :
                     /\ socks[s] = "closed" /\ task[s] = NoTask
                     /\ ws' = s
                     /\ sock' = [socks EXCEPT ![s] = "connecting"]
-----------------------------------------------------------------------------
(* boardSocketClient.ts *)

\* handleOpen: the subscribe goes out on boardSocket.ws, whichever socket opened.
SocketOpens(s) ==
    /\ sock[s] = "connecting"
    /\ sock' = [sock EXCEPT ![s] = "open"]
    /\ task' = IF ws \in Sockets /\ sock'[ws] = "open"
               THEN [task EXCEPT ![s] = [NoTask EXCEPT !.at = "auth", !.on = ws,
                                                       !.board = board, !.base = seq]]
               ELSE task
    /\ Send("WS_CONNECTED") /\ StatusSent("WS_CONNECTED")
    /\ UNCHANGED <<committed, published, redisSub, reg, mark, inbox, ws, board, seq,
                   buffer, applied, loaded, budget>>

\* The server forgets a connection that is gone, with its subscribe tasks.
Forget(s) == /\ reg' = [reg EXCEPT ![s] = NoBoard]
             /\ mark' = [mark EXCEPT ![s] = 0]
             /\ inbox' = [inbox EXCEPT ![s] = <<>>]
             /\ task' = [o \in Sockets |-> IF task[o].on = s THEN NoTask ELSE task[o]]

\* handleClose: boardSocket.ws is cleared, whichever socket closed.
HandleClose(s) == /\ sock' = [sock EXCEPT ![s] = "closed"]
                  /\ ws' = NoSock
                  /\ Send("WS_CLOSED") /\ StatusSent("WS_CLOSED")
                  /\ Forget(s)
                  /\ UNCHANGED <<committed, published, redisSub, board, seq, buffer,
                                 applied, loaded>>

\* The network, the server's heartbeat or a refused token ends a connection.
SocketDrops(s) == /\ sock[s] \in {"connecting", "open"}
                  /\ drops < MaxDrops /\ drops' = drops + 1
                  /\ HandleClose(s)
                  /\ UNCHANGED <<mounts, rehydrations, failures>>

\* The close event of a socket the tab closed itself.
CloseCompletes(s) == sock[s] = "closing" /\ HandleClose(s) /\ UNCHANGED budget
-----------------------------------------------------------------------------
(* reconcileIncomingEvent *)

\* Events of other types than the tab knows, and those already applied.
Ignored(e) == e.seq \in Unknown \/ e.seq <= seq

\* Variants: one buffered event at most; all of them.
DrainOnce(n) == IF \E x \in buffer : x.seq = n + 1 THEN n + 1 ELSE n
DrainAll(n) == Max({n} \cup {x.seq : x \in buffer})

\* The last of the buffered events that follow n without a hole.
DrainTo(n) == CHOOSE m \in n..(n + Cardinality(buffer)) :
                /\ \A k \in (n + 1)..m : \E x \in buffer : x.seq = k
                /\ ~\E x \in buffer : x.seq = m + 1

\* bufferedEvents is keyed by the sequence alone.
BufferGap(e) ==
    LET held == {x \in buffer : x.seq # e.seq} \cup {e}
        overflow == Cardinality(held) > MaxBuffer IN
    /\ buffer' = held
    /\ Send(IF overflow THEN "RESYNC_REQUIRED" ELSE "GAP_DETECTED")
    /\ status' = IF overflow THEN "offline" ELSE "catching_up"
    /\ UNCHANGED <<seq, applied, loaded>>

\* Apply e and what the buffer holds next; GAP_FILLED if that empties it.
Apply(e) ==
    LET last == DrainTo(e.seq)
        drained == {x \in buffer : x.seq <= last} IN
    /\ seq' = last
    /\ buffer' = buffer \ drained
    /\ applied' = applied \cup {e} \cup drained
    /\ status' = "synced" /\ UNCHANGED loaded
    /\ IF drained # {} /\ drained = buffer /\ status = "catching_up"
       THEN Send("GAP_FILLED") ELSE UNCHANGED sync

\* handleMessage of a socket the tab has not closed; it need not be ws.
Deliver(s) ==
    /\ sock[s] = "open" /\ inbox[s] # <<>>
    /\ inbox' = [inbox EXCEPT ![s] = Tail(@)]
    /\ LET m == Head(inbox[s]) IN
       \/ /\ m.type = "RESYNC_REQUIRED"
          /\ Send("RESYNC_REQUIRED") /\ StatusSent("RESYNC_REQUIRED")
          /\ UNCHANGED <<seq, buffer, applied, loaded>>
       \/ m.type = "EVENT" /\ Ignored(m.event) /\ UNCHANGED <<store, sync>>
       \/ m.type = "EVENT" /\ ~Ignored(m.event) /\ m.event.seq > seq + 1 /\ BufferGap(m.event)
       \/ m.type = "EVENT" /\ ~Ignored(m.event) /\ m.event.seq = seq + 1 /\ Apply(m.event)
    /\ UNCHANGED <<server, sock, ws, board, budget>>
-----------------------------------------------------------------------------
(* useSyncOrchestrator.ts and useHydrateBoard.ts *)

GapTimerFires == /\ gapTimer
                 /\ Send("GAP_TIMEOUT") /\ StatusSent("GAP_TIMEOUT")
                 /\ UNCHANGED <<server, socket, seq, buffer, applied, loaded, budget>>

\* The SCHEDULE_RECONNECT timer: doConnect, unless there is a socket already.
ReconnectFires ==
    LET m == AttemptMessage(reconnect) IN
    /\ reconnect > 0
    /\ IF ws = NoSock THEN OpenNew(sock) ELSE UNCHANGED <<sock, ws>>
    /\ SendAttempt(m, reconnect, 0) /\ StatusSent(m)
    /\ UNCHANGED <<server, inbox, board, seq, buffer, applied, loaded, budget>>

\* triggerManualReconnect sends attempt 0.
ManualReconnect ==
    /\ board # NoBoard
    /\ SendAttempt("RECONNECT_ATTEMPT", 0, reconnect)
    /\ UNCHANGED <<server, socket, store, budget>>

\* initBoard with the server-rendered board, at sequence "0"; connect() runs first.
\* The lists and cards are as fresh as can be.
InitBoard(b) == seq' = 0 /\ buffer' = {} /\ applied' = {} /\ loaded' = committed[b]

\* disconnect() closes the socket the client holds, and only that one.
ClosingOwn == [s \in Sockets |-> IF s = ws THEN "closing" ELSE sock[s]]
Aborted == IF resync.phase = "off" THEN resync ELSE [resync EXCEPT !.aborted = TRUE]

\* The effect's cleanup, if a board is mounted, then initBoard and connect().
Mount(b) ==
    /\ mounts < MaxMounts /\ mounts' = mounts + 1
    /\ board' = b
    /\ OpenNew(ClosingOwn)
    /\ fsm' = "CONNECTING" /\ gapTimer' = FALSE /\ reconnect' = 0 /\ resync' = Aborted
    /\ InitBoard(b) /\ status' = "healthy"
    /\ UNCHANGED <<server, inbox, drops, rehydrations, failures>>

Unmount ==
    /\ board # NoBoard
    /\ board' = NoBoard /\ ws' = NoSock /\ sock' = ClosingOwn
    /\ fsm' = "IDLE" /\ gapTimer' = FALSE /\ reconnect' = 0 /\ resync' = Aborted
    /\ UNCHANGED <<server, inbox, store, budget>>

\* The page is rendered again with other lists or cards.
Rehydrate == /\ board # NoBoard
             /\ rehydrations < MaxRehydrations /\ rehydrations' = rehydrations + 1
             /\ InitBoard(board) /\ status' = "healthy"
             /\ UNCHANGED <<server, socket, sync, mounts, drops, failures>>

\* The last page of the journal is read in the database.
ResyncReads == /\ resync.phase = "fetching" /\ ~resync.aborted
               /\ resync' = [resync EXCEPT !.phase = "fetched", !.upto = committed[board]]
               /\ UNCHANGED <<server, socket, fsm, gapTimer, reconnect, store, budget>>

\* The journal is replayed, over the types the tab does not know, and the store
\* overwritten with the result.
ResyncCompletes ==
    /\ resync.phase = "fetched" /\ ~resync.aborted
    /\ seq' = resync.upto /\ loaded' = resync.upto /\ buffer' = {}
    /\ applied' = {[board |-> board, seq |-> n] : n \in (1..resync.upto) \ Unknown}
    /\ LET t == Transition(fsm, "REPLAY_COMPLETE") IN
       /\ fsm' = t
       /\ gapTimer' = GapTimerAfter(fsm, t, gapTimer)
       /\ reconnect' = ReconnectAfter(fsm, "REPLAY_COMPLETE", t, reconnect, 0)
       /\ status' = StatusAfter(fsm, t, "synced")
    /\ resync' = NoResync
    /\ UNCHANGED <<server, socket, budget>>

\* It was aborted, a fetch failed or the result is not valid. isResyncing is
\* still set when REPLAY_FAILED triggers the full resync, which does nothing.
ResyncFails ==
    /\ resync.phase # "off"
    /\ IF resync.aborted THEN UNCHANGED failures
                         ELSE failures < MaxFailures /\ failures' = failures + 1
    /\ LET t == Transition(fsm, "REPLAY_FAILED") IN
       /\ fsm' = t
       /\ gapTimer' = GapTimerAfter(fsm, t, gapTimer)
       /\ reconnect' = ReconnectAfter(fsm, "REPLAY_FAILED", t, reconnect, 0)
    /\ StatusSent("REPLAY_FAILED")
    /\ resync' = NoResync
    /\ UNCHANGED <<server, socket, seq, buffer, applied, loaded, mounts, drops,
                   rehydrations>>
-----------------------------------------------------------------------------
FirstPublish(b, n) == n \notin published[b] /\ Publish(b, n)

ServerStep(o) == Register(o) \/ Count(o) \/ Select(o) \/ SendRows(o)
TabStep(s) == SocketOpens(s) \/ CloseCompletes(s) \/ Deliver(s)
Timer == GapTimerFires \/ ReconnectFires
ResyncStep == ResyncReads \/ ResyncCompletes \/ (resync.aborted /\ ResyncFails)

Next == \/ \E b \in Boards : \/ Commit(b) \/ RedisSubscribed(b) \/ Mount(b)
                             \/ \E n \in 1..MaxSeq : Publish(b, n)
        \/ \E s \in Sockets : ServerStep(s) \/ CatchUpFails(s) \/ TabStep(s) \/ SocketDrops(s)
        \/ Timer \/ ResyncReads \/ ResyncCompletes \/ ResyncFails
        \/ ManualReconnect \/ Unmount \/ Rehydrate

Spec == Init /\ [][Next]_vars

\* The outbox worker polls, PostgreSQL and Redis answer, the event loop runs
\* callbacks and timers; nobody commits, remounts or retries by force.
FairSpec == /\ Spec
            /\ \A b \in Boards : /\ WF_vars(RedisSubscribed(b))
                                 /\ \A n \in 1..MaxSeq : WF_vars(FirstPublish(b, n))
            /\ \A s \in Sockets : WF_vars(ServerStep(s)) /\ WF_vars(TabStep(s))
            /\ WF_vars(GapTimerFires) /\ WF_vars(ReconnectFires) /\ WF_vars(ResyncStep)
-----------------------------------------------------------------------------
TypeOK ==
    /\ committed \in [Boards -> 0..MaxSeq]
    /\ published \in [Boards -> SUBSET (1..MaxSeq)]
    /\ redisSub \in [Boards -> {"off", "pending", "on"}]
    /\ reg \in [Sockets -> Boards \cup {NoBoard}] /\ mark \in [Sockets -> 0..MaxSeq]
    /\ task \in [Sockets -> [at : {"none", "auth", "count", "select", "rows"},
                             on : Sockets \cup {NoSock}, board : Boards \cup {NoBoard},
                             base : 0..MaxSeq, upto : 0..MaxSeq]]
    /\ sock \in [Sockets -> {"closed", "connecting", "open", "closing"}]
    /\ \A s \in Sockets : \A i \in 1..Len(inbox[s]) :
          inbox[s][i] = ResyncMessage \/ inbox[s][i].event \in Event
    /\ ws \in Sockets \cup {NoSock} /\ board \in Boards \cup {NoBoard}
    /\ fsm \in SyncStates /\ gapTimer \in BOOLEAN /\ reconnect \in 0..MaxAttempts
    /\ resync \in [phase : {"off", "fetching", "fetched"}, upto : 0..MaxSeq,
                   aborted : BOOLEAN]
    /\ seq \in 0..MaxSeq /\ buffer \in SUBSET Event /\ applied \in SUBSET Event
    /\ status \in StoreStatuses /\ loaded \in 0..MaxSeq
    /\ mounts \in 0..MaxMounts /\ drops \in 0..MaxDrops
    /\ rehydrations \in 0..MaxRehydrations /\ failures \in 0..MaxFailures

\* The FSM never waits for a timer that is not set, and no timer outlives the
\* state it belongs to: across drops, remounts and forced retries.
TimersMatchState == /\ gapTimer <=> fsm = "GAP"
                    /\ reconnect > 0 <=> fsm = "RECONNECTING"

\* Between two callbacks the buffer holds nothing that could be applied.
NoStrandedEvent == \A e \in buffer : e.seq > seq + 1

\* The board shows exactly the events of its log up to boardSequence.
ProjectionIsPrefix ==
    board \in Boards =>
        applied = {[board |-> board, seq |-> n] : n \in (1..seq) \ Unknown}

\* The events on their way to the tab over socket s: sent and not delivered, or
\* still to be read by the catch-up.
Underway(s, n) ==
    \/ \E i \in 1..Len(inbox[s]) : inbox[s][i] = EventMessage(reg[s], n)
    \/ \E o \in Sockets : /\ task[o].on = s /\ task[o].at \in {"auth", "count", "select"}
                          /\ n > task[o].base
    \/ \E o \in Sockets : /\ task[o].on = s /\ task[o].at = "rows"
                          /\ n \in (task[o].base + 1)..task[o].upto

\* Nothing below a connection's watermark is lost: the tab has it, or it is
\* underway. Live forwarding and catch-up of one connection may interleave.
NothingLostBelowMark ==
    \A s \in Sockets : reg[s] \in Boards /\ sock[s] = "open" =>
        \A n \in (1..mark[s]) \ Unknown :
            n <= seq \/ (\E e \in buffer : e.seq = n) \/ Underway(s, n)

\* A committed event of a type the tab knows is eventually on the board, unless
\* the tab leaves it.
EventuallySeen == \A b \in Boards, n \in (1..MaxSeq) \ Unknown :
    (board = b /\ committed[b] >= n) ~> (seq >= n \/ loaded >= n \/ board # b)
=============================================================================
