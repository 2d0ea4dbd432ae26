------------------------------ MODULE Presence ------------------------------
(***************************************************************************)
(* Who is shown as being on a board: the connections and registries of the *)
(* WebSocket server, the presence messages it fans out, and what each tab  *)
(* makes of them.                                                          *)
(*                                                                         *)
(* The server is one thread: an action is the code between two awaits.  A  *)
(* tab's side of a connection is its socket; a connection the network has  *)
(* lost is "half": the tab knows, the server does not.  Cursor and typing  *)
(* messages have no effect in a tab, whose managers are never initialised, *)
(* and no component sends them.                                            *)
(***************************************************************************)
EXTENDS Naturals, Sequences

CONSTANTS
  Tabs, Users, Boards,
  UserOf,      \* the user who opened a tab
  None,        \* no board, no tab, no connection
  MaxConns,    \* bound: connections a tab opens over time
  MaxQueue     \* bound: a heartbeat waits while a receiver's queue is this long

PresenceAssumption ==
  /\ UserOf \in [Tabs -> Users]
  /\ MaxConns \in [Tabs -> Nat] /\ MaxQueue \in Nat \ {0}
  /\ None \notin Tabs \cup Boards

\* The n-th connection a tab opens.
Conns == UNION {{t} \X (1..MaxConns[t]) : t \in Tabs}
Owner(c) == c[1]

VARIABLES
  mounted,  \* the board a tab shows
  sock,     \* the socket its boardSocket holds
  hooked,   \* the sockets whose onmessage usePresenceSync has patched
  late,     \* sockets a page closed whose close event is still to come
  shown,    \* the keys of the tab's presence store
  missed,   \* history: those shown when the tab last stopped listening to a socket
  conn,     \* the server's ClientState of each connection
  queue     \* what the server sent and the tab has not received

vars == <<mounted, sock, hooked, late, shown, missed, conn, queue>>
tabVars == <<mounted, sock, hooked, late, shown, missed>>

Unused == [wants |-> None, net |-> "unused", step |-> "verifying",
           board |-> None, listed |-> FALSE]

Init ==
  /\ mounted = [t \in Tabs |-> None]
  /\ sock = [t \in Tabs |-> None]
  /\ hooked = {} /\ late = {}
  /\ shown = [t \in Tabs |-> {}]
  /\ missed = [t \in Tabs |-> {}]
  /\ conn = [c \in Conns |-> Unused]
  /\ queue = [c \in Conns |-> <<>>]

-----------------------------------------------------------------------------
(* Messages.  PRESENCE_JOIN, PRESENCE_UPDATE and PRESENCE_LIST all end in    *)
(* applyRemotePresence, PRESENCE_LEAVE in applyRemoteLeave.                  *)

Here(us)  == [kind |-> "here", users |-> us]
Leave(us) == [kind |-> "leave", users |-> us]

Applied(s, m) ==
  IF m.kind = "leave" THEN s \ m.users ELSE s \cup m.users

UserOn(c) == UserOf[Owner(c)]
OnBoard(b) == {c \in Conns : conn[c].board = b}

\* Every other connection of the board whose socket is open.  What a tab is sent
\* about its own user it skips (routeInboundMessage): that is left out.
Receivers(c) ==
  {d \in OnBoard(conn[c].board) \ {c} :
     conn[c].board # None /\ conn[d].net = "open" /\ UserOn(d) # UserOn(c)}

Broadcast(c, m) ==
  [d \in Conns |-> IF d \in Receivers(c) THEN Append(queue[d], m) ELSE queue[d]]

-----------------------------------------------------------------------------
(* The tab *)

\* A new socket opens and sends "subscribe" for the board.
Opens(t, b) ==
  \E n \in 1..MaxConns[t] :
    /\ conn[<<t, n>>].net = "unused"
    /\ n > 1 => conn[<<t, n - 1>>].net # "unused"
    /\ conn' = [conn EXCEPT ![<<t, n>>].wants = b, ![<<t, n>>].net = "open"]
    /\ sock' = [sock EXCEPT ![t] = <<t, n>>]

\* The board page mounts and connects.
Mount(t, b) ==
  /\ mounted[t] = None
  /\ Opens(t, b)
  /\ mounted' = [mounted EXCEPT ![t] = b]
  /\ UNCHANGED <<hooked, late, shown, missed, queue>>

\* The sync FSM connects again after a close event.
Reconnect(t) ==
  /\ mounted[t] # None /\ sock[t] = None
  /\ Opens(t, mounted[t])
  /\ UNCHANGED <<mounted, hooked, late, shown, missed, queue>>

\* The timer of 500 ms or the interval of 5 s patches the socket's onmessage.
Hook(t) ==
  /\ sock[t] # None /\ sock[t] \notin hooked
  /\ hooked' = hooked \cup {sock[t]}
  /\ UNCHANGED <<mounted, sock, late, shown, missed, conn, queue>>

\* The store is a singleton that no code resets: what was shown stays.
StopsListening(c) ==
  /\ sock' = [sock EXCEPT ![Owner(c)] = None]
  /\ hooked' = hooked \ {c}
  /\ missed' = [missed EXCEPT ![Owner(c)] = shown[Owner(c)]]
  /\ queue' = [queue EXCEPT ![c] = <<>>]
  /\ UNCHANGED shown

\* Leaving the page sends "unsubscribe" and closes the socket; on a failing
\* network the server hears of neither.
Unmount(t) ==
  /\ mounted[t] # None
  /\ mounted' = [mounted EXCEPT ![t] = None]
  /\ IF sock[t] = None
       THEN UNCHANGED <<sock, hooked, late, shown, missed, conn, queue>>
       ELSE /\ StopsListening(sock[t])
            /\ late' = late \cup {sock[t]}
            /\ \E net \in {"closing", "half"} : conn' = [conn EXCEPT ![sock[t]].net = net]

\* The close event of a socket the page left: boardSocket forgets the socket it
\* holds, which is the next page's and stays open, an orphan.  (An event that
\* comes while it holds none changes nothing.)
LateClose(c) ==
  /\ c \in late /\ sock[Owner(c)] # None
  /\ late' = late \ {c}
  /\ sock' = [sock EXCEPT ![Owner(c)] = None]
  /\ UNCHANGED <<mounted, hooked, shown, missed, conn, queue>>

\* The network fails and the tab sees the socket close.  Losing an orphan, too,
\* makes boardSocket forget the socket it holds.
Lose(c) ==
  /\ conn[c].net = "open"
  /\ StopsListening(c)
  /\ conn' = [conn EXCEPT ![c].net = "half"]
  /\ UNCHANGED <<mounted, late>>

\* An unpatched socket's messages are lost.
Deliver(c) ==
  /\ conn[c].net = "open" /\ queue[c] # <<>>
  /\ LET t == Owner(c)
         m == Head(queue[c])
     IN IF c \in hooked
          THEN /\ shown' = [shown EXCEPT ![t] = Applied(@, m)]
               /\ missed' = [missed EXCEPT ![t] = @ \ m.users]
          ELSE UNCHANGED <<shown, missed>>
  /\ queue' = [queue EXCEPT ![c] = Tail(@)]
  /\ UNCHANGED <<mounted, sock, hooked, late, conn>>

-----------------------------------------------------------------------------
(* The server *)

\* "subscribe", the first message of a connection, has arrived and its token is
\* good: the connection joins both registries, whatever became of it meanwhile,
\* and its catch-up is awaited.
Verified(c) ==
  /\ conn[c].net # "unused" /\ conn[c].step = "verifying"
  /\ conn' = [conn EXCEPT ![c].step = "catching", ![c].board = conn[c].wants,
                          ![c].listed = TRUE]
  /\ UNCHANGED <<tabVars, queue>>

\* The token is refused and the socket closed by the server.
Refused(c) ==
  /\ conn[c].net # "unused" /\ conn[c].step = "verifying"
  /\ conn' = [conn EXCEPT ![c].step = "done", ![c].net = "closed"]
  /\ IF conn[c].net = "open" THEN StopsListening(c)
       ELSE UNCHANGED <<sock, hooked, shown, missed, queue>>
  /\ UNCHANGED <<mounted, late>>

\* The catch-up ends.  After it a client on the board is announced and told who
\* is there; one that must resynchronise is told only that.
CaughtUp(c, resync) ==
  /\ conn[c].step = "catching"
  /\ conn' = [conn EXCEPT ![c].step = "done"]
  /\ LET there == {UserOn(d) : d \in OnBoard(conn[c].board)} \ {UserOn(c)}
         joined == Broadcast(c, Here({UserOn(c)}))
     IN queue' = IF resync \/ conn[c].board = None THEN queue
                 ELSE IF conn[c].net = "open" /\ there # {}
                   THEN [joined EXCEPT ![c] = Append(@, Here(there))]
                   ELSE joined
  /\ UNCHANGED tabVars

HasRoom(c) == \A d \in Receivers(c) : Len(queue[d]) < MaxQueue

\* Variant: the server keeps the status it is told and tells nobody: users learn
\* of each other by joins and lists alone.
KeptHeartbeat(c) ==
  /\ sock[Owner(c)] = c /\ conn[c].board # None
  /\ UNCHANGED vars

\* A tab's heartbeat of 8 s, on the socket boardSocket holds: the others on the
\* board hear of its user.
Heartbeat(c) ==
  /\ sock[Owner(c)] = c /\ conn[c].board # None
  /\ HasRoom(c)
  /\ queue' = Broadcast(c, Here({UserOn(c)}))
  /\ UNCHANGED <<tabVars, conn>>

\* Variant: the registry forgets the client before its leave is broadcast, which
\* then finds no board.
SilentlyGone(c, net) ==
  /\ conn' = [conn EXCEPT ![c].net = net, ![c].board = None, ![c].listed = FALSE]
  /\ UNCHANGED queue

\* broadcastPresenceLeave, unregisterUserClient, unsubscribeClient
Gone(c, net) ==
  /\ queue' = Broadcast(c, Leave({UserOn(c)}))
  /\ conn' = [conn EXCEPT ![c].net = net, ![c].board = None, ![c].listed = FALSE]

\* "unsubscribe", which follows "subscribe" on the connection.
Unsubscribe(c) ==
  /\ conn[c].net = "closing"
  /\ queue' = Broadcast(c, Leave({UserOn(c)}))
  /\ conn' = [conn EXCEPT ![c].net = "left", ![c].board = None]
  /\ UNCHANGED tabVars

\* The server's close or error event, orderly or after the network failed.
Closed(c) ==
  /\ conn[c].net \in {"left", "half"}
  /\ Gone(c, "closed")
  /\ UNCHANGED tabVars

\* Variant: the check terminates the client and leaves its user's registry alone.
StaleOnBoardOnly(c) ==
  /\ conn[c].net \in {"half", "closed"} /\ conn[c].board # None
  /\ queue' = Broadcast(c, Leave({UserOn(c)}))
  /\ conn' = [conn EXCEPT ![c].net = "closed", ![c].board = None]
  /\ UNCHANGED tabVars

\* The check every 30 s: a client that has not answered for 35 s is terminated.
Stale(c) ==
  /\ conn[c].net \in {"half", "closed"} /\ conn[c].board # None
  /\ Gone(c, "closed")
  /\ UNCHANGED tabVars

\* The same check: a client that sent no presence for 15 s, dead or an orphan, is
\* announced as idle.  (Of the socket a tab holds this would be one more heartbeat.)
Idle(c) ==
  /\ conn[c].board # None /\ sock[Owner(c)] # c
  /\ HasRoom(c)
  /\ queue' = Broadcast(c, Here({UserOn(c)}))
  /\ UNCHANGED <<tabVars, conn>>

-----------------------------------------------------------------------------
TabStep(t) ==
  \/ \E b \in Boards : Mount(t, b)
  \/ Reconnect(t)
  \/ Hook(t)
  \/ Unmount(t)

ConnStep(c) ==
  \/ LateClose(c)
  \/ Lose(c)
  \/ Deliver(c)
  \/ Verified(c)
  \/ Refused(c)
  \/ \E resync \in BOOLEAN : CaughtUp(c, resync)
  \/ Heartbeat(c)
  \/ Unsubscribe(c)
  \/ Closed(c)
  \/ Stale(c)
  \/ Idle(c)

Next == (\E t \in Tabs : TabStep(t)) \/ (\E c \in Conns : ConnStep(c))

Spec == Init /\ [][Next]_vars

\* A tab's heartbeats go out and its sockets are read.  Nothing is assumed of
\* users, of the network, of the token check and the catch-up, or of the server
\* noticing the end of a connection.  Fairness of Heartbeat is strong, since only
\* MaxQueue disables it.
FairSpec ==
  /\ Spec
  /\ \A c \in Conns : WF_vars(Deliver(c)) /\ SF_vars(Heartbeat(c))

-----------------------------------------------------------------------------
Message == [kind : {"here", "leave"}, users : SUBSET Users]

TypeOK ==
  /\ mounted \in [Tabs -> Boards \cup {None}]
  /\ sock \in [Tabs -> Conns \cup {None}]
  /\ hooked \subseteq Conns /\ late \subseteq Conns
  /\ shown \in [Tabs -> SUBSET Users] /\ missed \in [Tabs -> SUBSET Users]
  /\ conn \in [Conns ->
       [wants : Boards \cup {None},
        net : {"unused", "open", "closing", "left", "half", "closed"},
        step : {"verifying", "catching", "done"},
        board : Boards \cup {None}, listed : BOOLEAN]]
  /\ queue \in [Conns -> Seq(Message)]

Listening(t) == {c \in hooked : Owner(c) = t}

\* What the last message of a queue q that is about u makes of u: its kind, or
\* nothing when no message is about u.
LastNews(q, u) ==
  LET about == {i \in 1..Len(q) : u \in q[i].users}
  IN {q[i].kind : i \in {j \in about : \A k \in about : k <= j}}

\* In whatever order a tab reads what is underway to the sockets it listens to, each
\* user it will show has a connection in the registry of a board it listens to, or
\* was shown already when it last stopped listening to a socket.  No order of
\* joins, updates, lists and leaves, of lost, orphaned and late connections, gives
\* a tab a new ghost.
GhostsOnlyMissed ==
  \A t \in Tabs : \A u \in Users \ {UserOf[t]} :
    LET news == UNION {LastNews(queue[c], u) : c \in Listening(t)}
        boards == {conn[c].wants : c \in Listening(t)}
        willShow == \/ "here" \in news
                    \/ ("leave" \notin news /\ u \in shown[t] \ missed[t])
    IN willShow => \E d \in Conns : UserOn(d) = u /\ conn[d].board \in boards

\* The check of stale clients walks the boards' registries only.  It still reaches
\* every connection whose end no event will report: none that is dead is left in
\* its user's registry without being on a board, also when a subscription goes on
\* after its socket was closed.  (One that said "unsubscribe" is out of its reach:
\* it must still be closed.)
DeadWithinReach ==
  \A c \in Conns :
    conn[c].net \in {"half", "closed"} /\ conn[c].listed => conn[c].board # None

InTouch(t) ==
  /\ sock[t] \in hooked
  /\ conn[sock[t]].board = mounted[t]

\* Two users who stay on one board end up seeing each other, although a leave of
\* another connection of theirs, closed or found stale, takes them off the screen.
ShownWhilePresent ==
  \A s, t \in Tabs : UserOf[s] # UserOf[t] =>
    (<>[](InTouch(s) /\ InTouch(t) /\ mounted[s] = mounted[t])
       => <>[](UserOf[s] \in shown[t]))
=============================================================================
