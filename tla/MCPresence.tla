----------------------------- MODULE MCPresence -----------------------------
(* Presence on a small instance: a tab each of two users.  Its state has names *)
(* of its own, so that the proofs about the other traffic of a tab's sockets   *)
(* (BoardRealtime) can stand beside those about presence.                      *)
EXTENDS Naturals

CONSTANTS Tabs, Users, Pages, UserOf, None, MaxConns, MaxQueue,
          ann, bob, annsTab, bobsTab

VARIABLES mounted, ownSock, hooked, late, shown, unheard, conn, queue

P == INSTANCE Presence WITH Boards <- Pages, sock <- ownSock, missed <- unheard

ASSUME PresenceAssumption == P!PresenceAssumption

PresenceSpec == P!FairSpec

\* A tab shows a user who is on a board it listens to, or one it showed already when
\* it stopped listening to a socket (usePresenceSync.ts, subscribeClient).
GhostsOnlyMissed == P!GhostsOnlyMissed
\* The check of stale clients reaches every dead connection that is still in its
\* user's registry (heartbeatInterval).
DeadWithinReach == P!DeadWithinReach
\* Two users who stay on one board end up seeing each other (sendHeartbeat).
ShownWhilePresent == P!ShownWhilePresent

MCTabs == {annsTab, bobsTab}
MCMaxConns == [t \in MCTabs |-> IF t = bobsTab THEN 1 ELSE 2]
MCUserOf == [t \in MCTabs |-> IF t = bobsTab THEN bob ELSE ann]
=============================================================================
