# Trello-Jira in TLA+

A Kanban application: a Next.js client (`apps/web`), a tRPC API over PostgreSQL
(`packages/api`, `packages/domain`, `packages/db`, `packages/infrastructure`), a
worker that publishes the transactional outbox (`apps/outbox-worker`) and a
WebSocket server that forwards board events to browser tabs (`apps/ws-server`).
This directory specifies the path a change takes from a user's command to every
other user's screen, the tables and requests around it (workspaces, boards, card
features, accounts) and who is shown on a board; it checks them on small instances
with TLC, and proves the parts that matter most with TLAPS.

```
 browser tab                                     BoardView   (store, optimistic mutations)
   |                                             TitleEditors, CreateForms (what is typed)
   | command                                     CardOrder   (where a card goes in its list)
   v
 BoardService / list handlers                    BoardWrites --implements--> SerialBoard
   | one SERIALIZABLE transaction: rows, sequence, outbox_events, record
   |      routers of workspaces, boards, card features   Workspaces, Boards, Checklists,
   |      one READ COMMITTED transaction, 0-sequence events          CardDetails
   |      routes of auth, a statement at a time          Accounts
   v
 outbox worker (poll, publish, handlers,         OutboxWorker --implements--> OutboxContract
   | retry, dead letter)
   v Redis channel of the board
 ws-server (register, catch-up, live             \
   | forwarding, watermark; presence)             | BoardRealtime (with SyncStateMachine),
   v WebSocket                                    | Presence
 tab: socket client, sync FSM, orchestrator,      |
      reconciler, store                          /
```

Sections: 1 inventory, 2 modules, 3 runs and bounds, 4 fairness, 5 what the code does
not do, 6 proofs, 7 what is only model-checked and what is not modelled, 8 what is left.

## 1. Inventory

| Component | State | Operations | Hard behaviour | What makes it correct |
|---|---|---|---|---|
| Board commands (`board.service.ts`, `list/*.ts`, repositories) | cards, lists, `board_sequences`, `outbox_events`, `idempotency_keys` | create, update, move, delete a card; create, move a list | concurrent transactions, repeated commands, early returns after writes, lock order | one effect a command, true answers, expected revisions met, events that tell the table's history |
| Ordering (`domain/src/ordering`, `positioningEngine.ts`, `rebalance-worker.ts`) | `position` | generate between two neighbours, drop, scan | room runs out; order shown and order stored; a stale view | an accepted move lands where it was dropped; no two cards share a position; nothing to rebalance |
| Outbox worker (`outbox-worker/src/index.ts`, handlers) | the queue columns of `outbox_events`, `notifications`, Redis | poll and claim, publish, handle, record a failure, commit | several workers, crashes between publication and commit, poisoned rows | at-least-once publication, one notification, a row settled once and for good |
| WebSocket server (`ws-server/src/index.ts`) | registries, subscriptions, watermarks | subscribe, catch up, forward, unsubscribe, disconnect, check of stale clients | live forwarding between the awaits of the catch-up; a subscription that goes on after its socket closed | nothing below the watermark is lost; dead connections are found |
| Realtime client (`boardSocketClient.ts`, `useSyncOrchestrator.ts`, `reconcileIncomingEvent.ts`, `useHydrateBoard.ts`) and FSM (`syncStateMachine.ts`) | socket, FSM, timers, buffer, sequence | connect, reconcile, buffer, drain, resync, hydrate, unmount | late callbacks of replaced sockets, out-of-order and repeated events, gap and reconnect timers | the board is a prefix of its log; nothing is stranded; it catches up |
| Client view (`useBoardStore.ts`, reducers, `useOptimisticMutation.ts`, `useMoveCard.ts`, `useDeleteCardWithUndo.ts`, `useDragEngine.ts`) | rows, buckets, snapshots, mutation records, retry timers | drag, drop, acknowledge, retry, roll back, undo, apply an event, resync | snapshots older than the events applied since; two ways back from one failure | untouched cards follow their events; rows and buckets agree; a snapshot is restored once |
| Editors and forms (`CardModal.tsx`, `CardItem.tsx`, `create-card-form.tsx`, `create-list-form.tsx`, `useCardModal.ts`) | texts, dirty and saving flags, timers, calls under way, temporary rows | type, save by timer, blur or cleanup, answer, roll back, navigate; submit, close, reload | overlapping saves, answers late or lost, a page rendered before a save, a form closed on its call | the title shown is the one saved or being saved; typed text is sent, to its card; a temporary row stands for something |
| Workspaces (`workspaces/*.router.ts`, use cases) | `workspaces`, `workspace_members`, `invitations`, idempotency keys | invite, accept, revoke, change a role, remove, leave, transfer, delete, restore | checks without locks beside checks under locks | one owner, who stays; an invitation is settled once |
| Boards (`board-management.ts`, `board-members.ts`) | `boards`, `board_members`, events | invite, remove, change a role, archive, delete, restore, settings | every check is made without a lock | the owner stays; one active row a user; events tell the board |
| Card features (`card-features/*.router.ts`) | checklists, items, labels, comments, assignees, attachments, due date, cover, watchers | every mutation of theirs | unlocked checks of titles, caps and existence; hard deletes under concurrent inserts | events tell the rows; titles distinct; caps passed by a race only |
| Accounts (`app/api/auth/*`, `auth/*`) | `users`, `verification_tokens`, the personal workspace | sign up, verify, resend, forget, reset, sign in | no transaction: every statement commits alone and may be the last | one account an address; whoever was told 201 can enter; links are single and replace one another |
| Presence (`ws-server`, `usePresenceSync.ts`, `presenceManager.ts`) | registries, sockets, users shown | heartbeat, join, leave, list, read | half-open connections, replaced sockets, leaves of one of several connections | no new ghost; whoever stays is shown |
| Notifications (`notification.router.ts`, `notificationStore.ts`, bell, inbox) | rows, a Redis counter, a badge | insert, push, count, mark read | the push precedes the commit | one inbox row (in `OutboxWorker`); the rest is not modelled |
| Client outbox, tab coordination, legacy connection clients, replay engine | IndexedDB, broadcast channel | – | – | mounted by no page: section 7 |
| Tokens, access-control caches, jobs, webhooks, ops and sync routers | Redis, rows | – | – | instantiated by no application, or read only: section 7 |
| Profile and board metadata, schema and row-level security, user interface | single rows, none | – | – | section 7 |

`PROJECT.json` lists all components with their files and status, and every hazard
with the line where it bites and the properties that watch it.

How they interact. The *log* of a board (`outbox_events` with a `sequence`) is
written by commands and read by the worker and by the catch-up query. The *channel* is
written by the worker, at least once and not necessarily in order, and read by the
server. The *connection* is FIFO. The *FSM messages* connect sockets, reconciler and
timers in the tab. The *rows* connect requests of one router with each other. The
modules meet there: `BoardRealtime.Commit` (a board's log grows by the next sequence)
is what `BoardWrites.DenseLog` establishes; `BoardRealtime.Publish` (any committed
event, any number of times, in order or not) is what `OutboxContract` allows;
`BoardView` takes the events in order, as `BoardRealtime` delivers them; `CardOrder`
makes a command one step, which `BoardWrites` is proved to come to (`SerialBoard`); `CardDetails`
lets any user be a member when a guard asks, which is what `Boards` allows.

## 2. Modules

Conventions. One module a component, one action a handler or a step between two
points where the code can wait or fail; proofs of module `M` are in `MProofs`, model
values, symmetry and functions for TLC in `MCM`; where `MCM` composes modules that share
nothing (`MCBoardView`, `MCCardFeatures`, `MCAccountsBoards`), proofs of all are in one. A module's text says what it abstracts.
Variables marked "history" record what happened for the properties; no guard reads one.
An operator whose comment begins with "Variant" is a plausible mistake in the
definition after it: no specification uses it, it is there to show which property would
notice it ("mutants" in `PROJECT.json`).

### OutboxWorker, OutboxContract
One action per step of `pollOnce` and `processClaimed`. The `table` variables are
committed state; `claimed`, `done`, `bumped` and `inserted` are what one transaction has
locked or written and not yet committed; `published` and `dlq` are Redis, which no
rollback undoes. `Claim` is the `SELECT ... FOR UPDATE SKIP LOCKED`,
`Publish`/`PublishFails` the publication (a rejected one may have arrived),
`HandlerSucceeds`/`HandlerThrows`/`HandlerSqlError` the handler, `RecordFailure` the
catch block, `Commit` the end of the poll, `Abort` a crash or a lost connection.
`HandlerSqlError` rolls the batch back because PostgreSQL rejects every further
statement of a failed transaction, the catch block's included; on the last attempt the
dead letter has been sent by then. `OutboxContract` is what
the rest of the system may rely on, without batches, locks or counters; the refinement
mapping is in `OutboxWorker`.

### SyncStateMachine, BoardRealtime
`SyncStateMachine` has the transition function and its effects as pure operators.
`BoardRealtime` composes log, publication, server and tab. Both programs are
single-threaded, so one action is the code between two awaits: the server's
`subscribeClient` is `Register`, `Count`, `Select` and `SendRows`, with live
`Publish` steps in between; a callback in the tab (`SocketOpens`, `Deliver`,
`HandleClose`, a timer) runs whole, with all FSM messages it sends and their
effects. A dropped connection takes its undelivered messages with it. `seq`,
`buffer`, `applied` and `loaded` are the store; `applied` stands for the projection.
Events carry their board because the code's buffer is keyed by sequence alone.
`disconnect` also sends `unsubscribe`; a closing socket delivers nothing in any case,
so the server forgets it when the close completes.

### BoardWrites, SerialBoard
One action per statement that can wait or fail. `Begin` takes the snapshot, `Lock`
takes the next row of `Steps` (the order in which the command's code touches
rows), waits while another transaction has it, and is refused (`Refused`) when the
row changed since the snapshot (PostgreSQL's 40001) or the idempotency record
exists by now (23505). `TakeSequence` is `nextBoardSequence`; `Refuse` an early
return; `Abort` everything that rolls back (serialization failure, deadlock victim,
lost connection, a position that cannot be generated); `Finish` the commit;
`Replay` the return of a recorded response; `SaveList` the early return by which
`moveListUseCase` always ends, after it has written. A card or a
list that a command creates has a fresh identity and is not followed further.
Only the commands that a router reaches are modelled: `updateList`, `deleteList`
and `BoardService.moveList` are not.

`SerialBoard` is what the commands promise: cards, list revisions, logs and answers, with
no transaction, snapshot, lock or record. A command is one step (`Do`) that is allowed by
the rows as they are at that step and leaves its event under the next sequence, or it does
not happen; `Drag` is the list move that is saved and refused. `BoardWrites` implements it
with its own variables of these names; which board's log a command extends (`LogOf`) and
which commands take effect once (`Once`: those that keep a record) are computed from its
constants.

### CardOrder
`Midpoint` and `Generate` are the ordering algorithm over an alphabet of `Base`
letters; `Less` is its comparison, `LocaleLess` the one by which the client sorts a
list. A client loads the board (`Load`), drops a card into a gap it sees (`Drop`) and
so names two neighbours and the revisions it knows; the server computes the position
from the neighbours as they are by then (`MoveCard`) or refuses (`RefuseMove`).
`CreateCard` appends, `DeleteCard` deletes. `ScannedLists` is the rebalance worker's
query.

### BoardView
The store of one browser (`card`, `bucket`, `known`), the optimistic move (`DragStart`,
`DragOver`, `Drop`, then `Serve` by the server and `Succeed`, `FailRetryable`,
`FailForGood`, `Retry`), the delete that can be undone (`DeleteShown`, `Undo`,
`AutoClose`, and its call), resync and remount, other users' changes (`RemoteChange`) and the
delivery of events. `ahead` collects the cards whose view is not what events made it;
`clean` is dropped when a change finds its card elsewhere than it says.

### TitleEditors, CreateForms
`TitleEditors` has the server's titles, those the store shows, the modal's editor
(`useFieldSync`: `Type`, `TimerFires`, `Blur`, and `LeaveFor`, the cleanup by which it is
unmounted or shows another card) and the editor on each card (`StartEdit`, `TypeOnCard`,
`Escape`, `SaveOnCard`). A save is a member of `calls` from the `await` to its answer:
`Apply` is the server's, `Succeed` and `Fail` the client's continuation, and a failed call
may still be applied later. Next.js runs the server actions of a page one at a time, except
that a navigation lets the next overtake the one under way (`free`): the one assumption
made of a library. `Navigate`, `Render` and `Arrive` are the three moments of a
navigation; `Arrive` may or may not replace the store, as the hash of the page's card
identifiers decides. An answer is heard while its instance of the editor is mounted and,
in the modal, no later save has begun. `drifted`, `carried` and `lost` are histories.
Not modelled: conflict answers (no caller sends an `expectedRevision`) and `card.updated`
events (the reducer throws on them). A deletion event may be skipped, as it is for a card
at a later revision; a field of a card may be left after the modal was entered.

`CreateForms` has the form of a card and that of a list: `form` is the component's state,
`call` each submission's server action, `temp` and `own` the rows shown, `created` the
tables. `Close` and `Leave` abort, which makes the form deaf to the answer and stops
nothing on the server. Forms of several lists share nothing, so one card form stands for
all.

`MCBoardView` runs `BoardView`, `TitleEditors` or `CreateForms` on one instance: they
write different entries of the store.

### Workspaces, Boards
A request is admitted on what it reads (`Admit`), for some procedures locks
(`Workspaces.Lock`), and writes (`Write`, `Apply`): the steps of a READ COMMITTED
transaction between which others commit. In `Workspaces` the roles, the owner pointer,
invitations and idempotency keys are state, and the expiry of invitations and of the
restore window are actions. `Boards` also has what the events of the outbox tell
(`told`, `toldRole`), applied in the order of their commits.

### Checklists, CardDetails
The routers under `card-features` for one card: `Checklists` has checklists and items,
`CardDetails` labels, comments, assignees, attachments, due date and cover, and who
watches. `Admit` reads (key, rows, titles, caps), `Commit` writes rows, event and key
together, unless a unique index or the stored key refuses it; `Abort` rolls back. The event
(`Tell`) carries the fields of the request, as the use cases build it.

A write is one step with its commit where nothing can come between them: the row it changes
is locked until then, the row it inserts is seen by nobody, and an update that finds its row
gone finds it gone for good. Two statements have steps of their own, because others can
commit between them and their commit. `Checklists.Sweep` is the deletion of a checklist's
items: it locks those it finds (`swept`, which `UpdateItem`, `RemoveItem` and other
deletions wait for), and an item inserted later stays; `DeleteChecklist` is the rest.
`CardDetails.Miss` is a statement that finds nothing to insert or delete and so locks
nothing: a label's request then appends no event, a removal of an assignee does
(`Appends`). `beside`, `raced` and `overtaken` are histories.

`MCCardFeatures` runs either module on one instance: they write no common table. So does
`MCAccountsBoards` with `Boards` and `Accounts`, whose tables meet in no statement modelled.

### Accounts
Every statement of the route handlers is a step that commits alone (`InsertUser`,
`InsertWorkspace`, `InsertMember`, `ClearLinks`, `IssueLink`, `SendMail`, `BurnLink`,
`WriteUser`); `Fail` ends a request anywhere. A link is the row of
`verification_tokens`, with what became of it.

### Presence
Connections (`conn`: the board the tab asked for, what the network did, what the server
knows), the FIFO of each, the socket each tab holds, those its hook listens to
(`hooked`) and the users it shows. `Verified`, `Refused`, `CaughtUp` are the awaits of a
subscription, `Heartbeat`, `Unsubscribe` and `Closed` the handlers, `Stale` and `Idle`
the server's periodic check. A connection the network lost is "half": the tab knows,
the server does not. `LateClose` is the close event of a socket the page has replaced.
`MCPresence` runs it as an instance whose boards, held sockets and missed users have names
of their own (`Pages`, `ownSock`, `unheard`), so that one module, `BoardRealtimeProofs`, can
prove about both kinds of traffic on a tab's sockets.

## 3. Runs

| Run | Shows | Bounds | States |
|---|---|---|---|
| `outbox` | through crashes, a row leaves the queue published or out of retries (`CrashConsistency`); one notification a row, when it is settled (`InboxExactlyOnce`); the contract is implemented; every row is settled, without a poisoned one (`EventuallySettled`) | 2 workers, 3 rows (notifying, e-mailing, poisoned), batch 2, 2 retries, 1 crash: the batch is smaller than the rows, so batches overlap and the limit is reached | 175,000 |
| `realtime_stream` | what the server's watermark says is sent is in the tab or underway (`NothingLostBelowMark`); every committed event is eventually shown (`EventuallySeen`) | 4 events published in order, 1 drop, buffer 2, within the limits of section 5 | 67,000 |
| `realtime_disorder` | nothing applicable stays buffered (`NoStrandedEvent`); the board is exactly a prefix of its log (`ProjectionIsPrefix`) | 3 events in any order and repeated, buffer 1 (overflows), 2 mounts, 1 each of drop, rehydration, failed resync; catch-ups fail; resync threshold 2 | 876,000 |
| `writes` | one effect a command (`AppliedOnce`), true answers (`AnswersAgree`), events that tell the card's history (`LogIsHistory`); the transactions take effect one at a time, each on the rows and revisions it was checked against (`ImplementsSerial`) | 2 connections; a move and a card creation sent twice, an edit, a deletion, a list creation and a list move once; 2 lists, 1 card | 556,000 |
| `card_order` | an accepted move found its list as its user saw it (`AcceptedAsSeen`); equal positions only come of a move between cards that are not neighbours (`TwinsOnlyByDisorder`); the rebalance worker finds nothing (`NothingToRebalance`) | 3 cards, 2 lists, 1 client, 2 moves; 4 letters `0 A B a`, depth and threshold 2, so room runs out | 694,000 |
| `card_order_shown` | *violation*: a list is shown in another order than its positions (`ShownInOrder`) | as above, 1 move | |
| `board_view` | untouched cards follow their events (`ViewFollowsEvents`); rows and buckets agree (`CleanBoardConsistent`); a snapshot is restored once (`RestoredOnce`); the title shown is saved (`ShownIsSaved`); typed text is sent, to its card (`TypedTextKept`); temporary rows and refusing forms only come of a close (`OrphansOnlyByClose`) | 2 cards, 2 lists, 1 move by drag; 1 each of other users' changes, visual moves, and detours (delete with undo, resync, remount); 2 titles, 2 typed, 2 saves, 1 navigation, 1 change of others; 2 submissions, 1 reload or leave | 1,843,000 |
| `workspaces` | one owner (`AtMostOneOwner`), lost only to a role write (`OwnerLostOnlyToRoleWrite`), never removed (`OwnerNeverRemoved`); invitations settle once (`InvitationsSettleOnce`) | 3 users, 2 invitations, 1 key, 5 requests, 2 at a time | 1,071,000 |
| `accounts_boards` | a signup answered 201 can enter (`SignupComplete`), changes take their link (`ChangedByItsLink`), a new link replaces the old (`OneLiveLink`), a link works once but for a race (`LinkWorksOnce`); the board's owner stays (`BoardKeepsOwner`); one active row a user (`OneActiveRow`); events tell board and members (`EventsTellBoard`) | 2 addresses, 1 slug, 3 requests at a time, 2 links, any statement may be the last; 3 users, 2 rows a user, 4 requests, 3 at a time | 385,000 |
| `checklists` | keys applied once (`KeyAppliedOnce`); events that tell the checklists and the items of live ones (`EventsTellChecklists`); orphaned items by a race only (`OrphansOnlyByRace`) | 2 users (1 admin), 2 checklists, 2 items, 2 titles, 2 texts; 5 requests, 2 at a time | 466,000 |
| `card_details` | events that tell the card's details, a label's timeline included (`EventsTellCard`); caps passed by a race only (`CapsPassedOnlyByRace`) | 2 users (1 admin), either assigned at first or none, 1 label, 1 comment, 3 attachments, caps 1; 3 requests, 2 at a time | 400,000 |
| `presence` | no new ghost (`GhostsOnlyMissed`); dead connections are within reach of the check (`DeadWithinReach`); whoever stays is shown (`ShownWhilePresent`) | 2 users with a tab each, 3 connections, 1 board, heartbeats wait behind a queue of 1 | 244,000 |

Why the bounds suffice. Conflicts between requests, transactions or workers are between
two of them over one row; two slots and inputs that share every kind of row give each
pair in every order, and further requests give what comes after. A board has three
slots since two invitations and a removal race on one user. A card may begin with an
assignee, so that three requests (two removals, one addition) bring the assignee that comes
back before a removal that missed him. The reconciler's cases
depend on an event being next, later or earlier than `seq + 1` and on the buffer being
empty, partly drained, drained or full: three events and a buffer of one reach them. The
interleaving of catch-up and live forwarding needs a log that is partly read, an event
forwarded between two queries, and a reconnection from a position in the middle. Two mounts
are the least that make a callback of one mount meet the next. The ordering algorithm's
cases are those of the first letter in which two positions differ: next to each other or
with room, at a letter of the alphabet's end or inside; four letters and depth two have all
of them, and every client compares a letter with its other case. A snapshot goes stale by
one change of another user. Two saves of one title are the least that overlap, by one editor or
by both, and one navigation brings a stale page, overtakes, closes the modal or takes it
to another card; a third title, a second navigation and a third submission were run
apart (up to 3.2 million states) and add no violation.
Every invariant and action property of the passing runs, and both refinements, are proved as
well, for every value of the constants or under the hypotheses that section 6 names.

Every cfg but `Checklists.cfg` and `CardDetails.cfg` says `CHECK_DEADLOCK FALSE`: commits, drops,
mounts, requests and attempts are bounded, so a behaviour may end. No module models a
wait that could deadlock but `BoardWrites`, where `Abort` is PostgreSQL's deadlock
detection (`Workspaces.Lock` takes a request's rows in one step).

Symmetry is used for safety only; the runs with liveness properties have none.

## 4. Fairness

* `OutboxWorker.FairSpec`: weak fairness of each worker's `Step`. `loop()` polls
  again after `POLL_MS` whatever happened, and `Publish` and the handlers end. Nothing
  is assumed of `Append` or `Abort`; that a failing publication may fail each time is
  allowed, the retry limit settles the row. `EventuallySettled` is conditional: no
  poisoned row is ever appended (section 5).
* `BoardRealtime.FairSpec`: weak fairness of the first publication of each event (the
  worker's `EventuallySettled`), of the server's pending tasks, of the tab's
  event loop and of its timers. Commits, mounts, drops, manual reconnects and
  catch-up failures are never assumed to happen.
* `Presence.FairSpec`: weak fairness of `Deliver` (the tab reads its sockets), strong
  fairness of `Heartbeat`, an interval timer. It is strong because only the bound
  `MaxQueue` ever disables a heartbeat of a tab in touch with its board. Nothing is
  assumed of the network, of the server's check or of users.
* The other modules have no liveness property: a request may fail for reasons nobody
  controls, and no part of the program repeats it.

## 5. What the code does not do

Disagreements between the code and its comments, documents or evident purpose, met
while modelling. The first is the subject of a violation run; the model has all of those
that concern a modelled part, and the properties are stated so as to hold in spite of them.

**Order of cards.**
* `useBoardStore.ts:480` and `applyCardMoved.ts:129` sort by `localeCompare`, the server
  by code points; `position.comparator.ts:28` calls its comparison deterministic and
  locale-independent. The first card appended to a list gets `V`, the second `k`, shown
  above it. A drop then names neighbours that are not next to each other, and is
  refused, lands elsewhere, or takes a position another card has.
* The midpoint gives up at 32 letters, so a list takes at most about 190 appends, 160
  prepends or insertions at one point, and then refuses. The worker looks for positions
  longer than 48 letters, the client for 48 and more: neither ever sees one, and no
  caller applies the client's plan. The worker is started by no package script.
* `getLastCardInList` orders in the database: with a collation other than `C`, appends
  would repeat positions (the docker image's default collation is C-like).

**Publication.**
* A row whose handler fails in SQL rolls its whole batch back at every poll, its retry
  count included, and so is never settled and blocks what is claimed with it
  (`outbox-worker/src/index.ts:30,143`).
* A dead letter whose publication fails is settled all the same (`index.ts:149-151`), so
  the auditor the comment describes would not find it.

**Realtime.**
* An event type the tab does not know is skipped without consuming its sequence
  (`reconcileIncomingEvent.ts:46`); every later event waits behind it. `createListUseCase`
  appends one (`create-list.ts:161`).
* A gap that persists is never repaired: the application passes no `fetchJournal`
  (`useBoardEngine.ts:45`, against `realtime-rules.md:61`).
* After a quick remount the old socket's late callbacks act on the new board
  (`boardSocketClient.ts:281`, `79-100`, against `realtime-rules.md:155`): events of
  another board are applied, and the FSM may be `HEALTHY` with no socket held.
* After a gap that a later event fills, `GAP_FILLED` may not be sent, as the reconciler
  has set the status to `synced` before (`reconcileIncomingEvent.ts:216`).

`EventuallySeen` holds because the constants of `realtime_stream` keep the run within
limits that the code sets. Each of these can be relaxed to see the property fail:

* `CatchUpMayFail = TRUE`: a failed catch-up query (ws-server `index.ts:349`) is made
  good only if a later event reveals the gap.
* `ResyncThreshold < MaxSeq`: a board with more than 500 events is always answered
  `RESYNC_REQUIRED`, and nothing is fetched.
* `MaxAttempts` within reach of `MaxDrops`: after the last reconnection attempt
  the FSM rests in `DESYNCED`, where neither a timer nor the manual retry acts.
* `MaxRehydrations > 0`: `initBoard` resets `boardSequence` to 0 on a live connection.
* `Subscribed = {}`: the server does not wait for Redis to confirm `SUBSCRIBE`, so the
  first viewer's catch-up may precede it.
* `MaxMounts > 1` with two sockets, `Unknown # {}`: as above.
* `FetchJournal = TRUE`: a resync overwrites events that were applied while it fetched
  (`useSyncOrchestrator.ts:110`); they come again only through a later gap.

**Commands.**
* `save` of a list asks the result for `rowCount`, which the driver calls `count`
  (`list.repository.ts:105`): every list move is reported as a conflict, and the early
  return (`move-list.ts:91`) commits the position it wrote, without sequence or event.
* `moveCard` and `createCard` lock list, board and counter in opposite orders
  ("Deadlock Prevention", `infrastructure/src/index.ts:138`); PostgreSQL aborts one.
* tRPC's `next()` answers an error instead of throwing it, so `tenantContextMiddleware`
  commits the transaction of a procedure that threw (`trpc.ts:628`). The procedures
  modelled throw before their first write, or on a statement that PostgreSQL refused,
  whose transaction it rolls back at its commit: `Abort` stands for both.
* `timeoutGuard` raises a signal after ten seconds that no procedure reads
  (`trpc.ts:725`): a request is not cut short, and its transaction commits however late.
* `createList` and `moveList` carry a `mutationId` and never look it up
  (`create-list.ts:77`). `moveCard` does not compare the target list's board with the
  card's.

**Client view.**
* A rollback restores the buckets but not a row a newer event protected; the snapshot is
  taken after the visual move, so "rolled back" means the visual place
  (`useMoveCard.ts:122`). A failure that may be retried is neither resent nor rolled
  back; a refusal returned as `{success: false}` is acknowledged; a late failure after a
  remount restores the old snapshot; undoing a delete discards what was applied since.
* A drop outside leaves the visual move; a quick drop or a concurrent event leaves a card
  in two buckets. `boardInvariants.ts` is asserted in tests only.
* The events' version is 1 whatever the card's revision, so a deletion is ignored for a
  card at a later one. List revisions are never raised in the store, so a second
  move in one list is refused as stale. The server's `card.updated` has no `changes`, on
  which the reducer throws. A created card keeps its temporary identifier and appears
  twice (`applyCardUpdated.ts:66`). Acknowledgement by correlation never matches: the
  events carry the server's request identifier.
* The board's first sequence is `boards.current_sequence`, while commands count in
  `board_sequences`. `boardApi` calls `.mutateAsync` on a proxy that has none.

**Editors and forms.**
* The answer to a save clears the dirty flag under text typed meanwhile
  (`CardModal.tsx:227`): if the field is left before the timer fires, that text is not
  saved, and the next title from the store replaces it.
* The last of several failing saves puts back the title it found, which the one before it
  never confirmed (`CardModal.tsx:243`); an editor on the card puts its title back over
  whatever came after it (`CardItem.tsx:475`). A save whose answer is lost is rolled back
  though the server has it.
* The cleanup's emergency save (`CardModal.tsx:316`) shows nothing, and `card.updated`
  has no effect: the board keeps the old title until the store is replaced. With a save
  under way it sends the text again under a new `mutationId`. If `?card=` changes, it is
  one instance of the editor that goes on: its text and dirty flag go along to the
  other card, to be saved there.
* `CardModal.tsx:156` looks for "CONFLICT" in messages that `mapDomainErrorToClient` and
  production builds replace: the branch for a conflict is not taken.
* A page rendered before a save replaces the store with the older title when the cards'
  identifiers differ from the last page's; if they do not, a page with a newer title
  changes nothing (`useHydrateBoard.ts:49`).
* A creation form closed on its call refuses every later submission
  (`create-card-form.tsx:340`), until it is mounted anew, and leaves its temporary row. A
  failure overwrites what was typed since (`:328`). `replaceList` adds the confirmed list
  to no `listOrder`, so the temporary column stays (`useBoardStore.ts:859`).

**Workspaces and boards.**
* `updateRole` reads without a lock and may overwrite the OWNER row a transfer has
  committed since (`members.router.ts:24,147`): a workspace without an owner. `accept`
  has no row lock: a member removed meanwhile may rejoin by a second accept under way. An expired
  pending invitation blocks a new one. The old `inviteMember` emits no event.
* A board setting that finds no row, the board being deleted meanwhile, still appends its
  event (`board-management.ts:17`). An ADMIN may grant ADMIN. The settings page offers
  deletion for archived boards only, which the procedure rejects. Renaming and creating a
  board emit no event.

**Card features.** The events have sequence 0 and the channel is named after the card
(`board:<cardId>:events`), so they reach no client. A comment's revision is not
compared (`comments.repository.ts:236`, against `schema/comments.ts:6`). `labels.delete`
rejects everyone, `labels.update` serves the creator only. `isLocked` is set by nothing.
Concurrent appends to a checklist get one position; items outlive a deleted card; an
assignee may outlive his membership. The caps are checked, not enforced. An item inserted
between the deletion of a checklist's items and its commit outlives the checklist
(`checklists.router.ts:478`: "a concurrent SELECT inside the tx never sees orphaned items"),
and its event comes before the checklist's deletion, so that a reader does not have it.
`removeAssignee` appends its event although its DELETE may have found nothing
(`assignees.router.ts:280`): if the user was assigned again meanwhile, the last event says
that he is not.

**Accounts.** A second signup whose name yields a taken slug fails after its user row is
committed: the user may then verify and sign in, and has no workspace to enter (against
`authAuditLogger.ts:16`). Signup and reset share one rate window, the three
mails another.

**Notifications.** The handler skips the actor by `payload.actorId`, while `card.updated`
carries `userId`: a watcher is told of his own edits, against the handler's "Never notify
the actor about their own action". The bell is mounted by the application shell, the
socket by the board page, and each mount reseeds the badge: "badge updates in real time"
is never seen. A removed member stays a watcher. Pushes and mails precede the commit and
are repeated with it.

**Presence.** The sweep that `presenceManager.ts:17` promises never runs, since
`collaboration.init` has no caller: a ghost whose leave was missed stays, also across boards.
The hook patches `onmessage` every 5 s, one wrapper upon another, and misses what comes
before it patches a new socket. A leave of one of a user's tabs removes him until his
next heartbeat. The close event of a replaced socket orphans its successor, which stays
subscribed and sends no heartbeat. A client that unsubscribed and died without a close
stays in its user's registry.

**Profile.** `updatePreferences` merges in memory on an unlocked read: two partial updates
at once lose one, though "partial updates do not wipe out" each other. `toggleStar` reads
and then writes: two at once count as one.

## 6. Proofs

All theorems hold for every value of the constants that the modules' `ASSUME`s admit:
any number of users, boards, workers, tabs, requests and events. A type invariant is a
conjunct of each module's inductive invariant `IInv`; section 3's properties that are
proved are named in `PROJECT.json` under "theorems".

**OutboxWorkerProofs** (`EventAssumption`, `LimitAssumption`). `IInv` joins the type
invariant and the committed table's properties with two facts per worker: `Locked`
(what it works on is locked by it, unsettled, and partitioned by its progress) and
`Uncommitted` (what it will settle has been published or is out of retries).
`CrashConsistency` alone is not inductive: `Commit` settles rows on the word of
`done`. From `IInv`: `ClaimsAreDisjoint`, `CrashConsistent`, `NotifiedOnce`,
`RowsStayVisible`, `TypeCorrect`. `SettledStaysSettled` and `WorkerImplementsContract`
treat `Commit` apart and show that every other step settles nothing.

**BoardRealtimeProofs** (`AttemptAssumption`, `RealtimeAssumption`). `TimersAreSound`:
the gap timer is set exactly in `GAP`, the reconnect timer exactly in `RECONNECTING`. The
lemma about `Transition` and its effects is applied to every callback that sends a
message. `TypeCorrect` and `NothingStranded` rest on one invariant: `TypeInv` adds to
the types what a task of the server and a request for the journal aim at, and that a tab
without a board has no socket and an idle FSM (`Homeless`), so that nothing is applied to
no board; `StoreInv` says that the buffer is finite, known and beyond `seq + 1`. The
lemma `DrainStops` finds, by the least sequence missing from the buffer, where the drain
loop ends. `ProjectionSound` (one board, as a tab that never changes its board has)
adds the prefix itself; with several boards it fails, by the foreign socket of
section 5.

`NothingLost` states `NothingLostBelowMark` under `WithinLimits`, hypotheses on the
constants that `realtime_stream` satisfies: the server is subscribed to every channel,
first publications are in order, a catch-up neither fails nor is cut off (`MaxSeq` within
`MaxCatchUp` and `ResyncThreshold`), no journal, no rehydration, and one mount or one
socket. Numbers of events, boards, drops, reconnections and mounts of one socket, and the
size of the buffer, are arbitrary. Each hypothesis was left out alone on a small instance,
where TLC then found an event lost (for the mounts: with three of them and two sockets);
these are the limits of section 5, set by the code or by its surroundings. The property
itself is not inductive: it speaks of what is below the watermark, and an event may be
published between the registration and the catch-up query. `AllCovered` says of every
event *owed* to an open connection (published already, or below its watermark) that it is
in the store, in the connection's queue or among the rows its catch-up will still read.
That a delivery keeps this for the event it consumes rests on `StoreInv` and `DrainStops`;
that a live event is either forwarded or still to be read, on `InStage` (what each stage
of a subscription says of watermark and base) and `LogInOrder` (Redis has a prefix of the
log); that nothing else writes the store, on `OneSocket`.

*Presence.* `NoNewGhosts` and `DeadAreFound`, for any number of tabs, users, boards and
connections (`PresenceAssumption`). `GhostsOnlyMissed` is about what a tab will show in
whatever order it reads its sockets, so its proof is about the last news of a user on each
connection (lemmas on `News`: what a message appended, read or broadcast does to them).
`Truthful`: a connection whose last news is "here" leads to a board whose registry has the
user. `Vouched`: a user shown, and not missed, is on a board the tab listens to, unless
the leave is underway. Both need that a connection is subscribed to the board it asked for
and that a connection on no board has nothing queued (`AllStaged`), and that a tab listens
to open sockets of its own (`OwnOpen`). A connection leaves its board's registry only
together with a broadcast of the leave, in `Unsubscribe`, `Closed` and `Stale`.

**BoardWritesProofs** (`CommandAssumption`). `LogIsDense`, `KeyedAppliedOnce` and
`AnswersAreTrue`. The invariant says what the locks are worth: a
transaction has locked what it has counted (`HoldsItsSteps`), no row is locked
twice (`LocksDisjoint`), under the counter's lock the sequence taken is still the
next one (`NextSequence`), under the record's lock there is still no record
(`NoRecord`), and every keyed event has its record (`Recorded`). A committing
transaction holds both rows, since `Steps` contains them for every command that
appends (`StepsOfCommands`). `ExpectationsMet` needs what the locks alone do not give:
what a transaction has seen and nobody has written since is as it was
(`SnapshotTrue`), and it holds no lock on a row that changed (`LocksFresh`, which is
PostgreSQL's refusal); so the revision it compared is the one it writes over.
`LogTellsHistory` rests on the same two: a command that commits an event of a card holds
the card's row, so the card it saw is the card it writes over, and found it alive
(`FoundAlive`); its event therefore starts where the last one left the card
(`HistoryGoesOn`), and every other commit leaves the card's events as they are
(`HistoryStands`).

`WritesAreSerial` (`Spec => ImplementsSerial`) is what these come to: the transactions are
serializable in the order of their commits. The step of `SerialBoard` is `Finish`
(`FinishIsSerial`): the card and the revisions that the transaction read in its snapshot are
those of the tables at its commit, by `SnapshotTrue` and `LocksFresh` (`FinishExpects`); its
sequence is the next one and its record is still absent (`FinishesNext`). `SaveList` is
`Drag`. Every other step maps to a stutter (`StepIsSerial`); for `Replay` this needs
`RecordsAnswered`: what a record makes the server answer, it has answered before.

**CardOrderProofs** (`OrderAssumption`). `GenerateBetween`: a generated position lies
strictly between its neighbours and is at most `MaxDepth` long, for every base and
depth; the lemmas find the first letter in which two positions differ by well-founded
induction. `WorkerFindsNothing` follows, `TwinsByDisorder` needs that requests name
cards and lists that exist (`Named`). `AcceptedSeen` (any number of clients): a list
changes only together with its revision, so a store or a request that states the
current revision shows the list as it is (`ViewsTrue`, `RequestsTrue`).

**WorkspacesProofs.** `OwnerStands`: the row of `owner_id` says OWNER unless a role write
overwrote it. `LockedView`: a request that has locked its rows still finds them as it
read them, given that locks exclude each other (`LocksExclusive`). `AtMostOneOwner` is
then inductive through a transfer, `OwnerNeverRemoved` through `remove` and `leave`.

**CardFeaturesProofs.** Checklists: requests name what they read (`RequestsAimed`),
identifiers of running creations differ and are not in the table (`CreatorsDiffer`,
`UnmintedAbsent`), and a key is applied exactly if it is saved (`AppliedWhenSaved`).
`SweepsInv` is what a deletion knows between its first statement and its commit: the items
it swept are stored, of its checklist and no other deletion's, and an item of the checklist
that it did not sweep is one of those added beside it; `OrphansByRace` and, for the items
that a deletion makes a reader forget, `EventsTell` follow.
Details: `EventsTellDetails` says that what the events told (`detailTold`) shows the rows,
which each write keeps because it tells what it writes (`Writes`, `Agreed`); a request's
fields fit its operation from its admission on (`RequestsApt`), and one that found nothing
is of a kind that changes no row at its commit (`MissesApt`): what it tells is then true
already, or takes an assignee away that the history has. `CapsHold` counts the
requests that have passed the check with the rows: a request is admitted below the cap,
so rows and pending requests together stay below the cap plus the slots.

**AccountsBoardsProofs** (`AccountsAssumption`, `BoardsAssumption`). Accounts: one
fact for each point a signup can have reached (`SignupRows`, `WorkspaceOwners`), and for
links, races apart: while a link is being issued for an identifier no other request issues
one and none is live (`OneIssue`), and one that a request is about to write by, or has, is
live no more (`SpentLinks`). Boards: `RequestsSpareOwner` (no admitted request is aimed at
the owner's row, whatever commits before it writes) with `OwnerRow`, `OthersRows` and
`OneActive`; `MembersTold` and `SettingsTold` give `EventsTellMembers`.
`FrozenWhileDeleted` says of every step that a deleted board does not change;
`PartsOfMembers` that the composition the run checks satisfies both specifications.

**BoardViewProofs** (`BoundsAssumption`, `MarksAssumption` and those of the two modules
beside it). *Cards.* `BoardInv` joins the types with three facts. `Agrees`: a card outside
`ahead` is where the events put it (`EventsFollowed`), which every reducer keeps because the
optimistic changes name the card they put ahead. `Restores`: the status of a move's record
tells whether its call can still end in a rollback (`SnapshotRestoredOnce`). `Cleanness`:
`CleanBoardConsistent` is not inductive, since a rollback writes the buckets of its
snapshot; what makes it so is that the snapshot that may be restored over a clean view, the
last move's, is `Harmless` (when it was taken after the visual move, its buckets are those
of the view, and a newer revision keeps its row from coming back), and that the toast's
snapshot was itself consistent.
*Titles.* The property counts the calls that wait; the invariant orders them. `Followed`:
the waiting calls of a card that has not drifted are a chain (`Chained`) from the title the
server has to the title shown, each made when the store showed what the one before it sends.
A call applied in its turn moves the chain's start, a new one its end, a rollback of the last
takes the end back; any other outcome is a drift. `TextKept` says where a text not yet sent
is: with its own card, dirty or in a timer. That gives `TitlesShown` and `TextSent`.
*Forms.* `LastOfKind`: the call a form awaits is of its kind, so an answer releases the form
that asked; `CallsAccounted`: a call nobody hears was aborted or its row is gone, and one
applied has made its row. That gives `OrphansByClose`.
`PartsOfView` joins the three: the composition that the run checks satisfies the
specification of each.

## 7. What is only model-checked, what is not modelled, and why

*Only model-checked.* Liveness (`EventuallySettled`, `EventuallySeen`,
`ShownWhilePresent`) is outside the prover's reach; so are the limits of `NothingLost` (a
theorem has them as hypotheses, TLC shows that none can be left out) and the two mounts
with two sockets under which TLC still finds nothing lost. `card_order_shown` is a
violation.

*Only proved.* `LiveTitlesDistinct` (no two live checklists of a card have one title),
`OneAccountPerAddress` and `AppliedOnExpectedRevision` (a command that names revisions is
applied to these only, which `ImplementsSerial` contains) are theorems (`TitlesDistinct`,
`AccountsUnique`, `ExpectationsMet`) and no run of their own.

*Hazards no property covers.* Each is what the code does, so no property of it holds
(section 5): the list that moves without an event; the poisoned row, which
`EventuallySettled` excludes by its hypothesis, though its safety is checked; the catch-up
that does not close a gap and the gap that only a `fetchJournal` would close, which
`EventuallySeen` and `NothingLost` exclude by their limits. The lock order is PostgreSQL's
to resolve.

*Not modelled.*
* Client outbox, tab coordination, the legacy connection clients and the replay engine:
  mounted by no page. (In the leader election every later tab would lead: the timer that
  its yield branch waits for is never reset.)
* Tokens and sessions of `infrastructure/auth` and the access-control caches: no
  application instantiates them; procedures read memberships from the tables.
* The routers of jobs and webhooks hand their work to queues and stores that nothing
  provides; those of ops and sync only read.
* The push, the counter and the badge of notifications: lost, repeated and reseeded by
  design. The watchers' endpoints: inserts and deletes of single rows.
* Cursor, typing and awareness: the managers are never initialised and no component
  sends anything; the presence router's channel has no caller.
* Profile and board metadata, a workspace's name and background, a board's description:
  updates of a single row nothing else depends on.
* Row-level security and migrations: the database's. The constraints that decide a race
  (unique indexes, conditional updates) are part of the modules that write the rows. The
  audit table is written beside the outbox and read by no code.
* The description's editor, a second instance of the hook in `TitleEditors`, and trimming: a
  title is what the server keeps of it.
* Rendering, the greater part of the client's lines, which keeps no state of its own; e-mail
  texts, file contents, validation of formats.

## 8. What is left

1. An abstract tab (it shows a prefix of the log that grows) beside `OutboxContract` and
   `SerialBoard`, and the three composed: every successful command is eventually on every
   connected board.
2. `NothingLost` for a tab that keeps the socket of one earlier mount.
3. Two boards in `writes` (the card moved across boards) and two clients in `card_order`
   (5.3 million states: outside the run's time, and proved for any number).
4. A refinement for titles: `TitleEditors` implements one register with one writer a
   save, as long as no call is lost and none overlaps another.
5. Lists and labels in `BoardView`, once the reducers of their events are reachable.
