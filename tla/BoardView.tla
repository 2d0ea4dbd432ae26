----------------------------- MODULE BoardView -----------------------------
(***************************************************************************)
(* What one browser shows of a board while its user drags and deletes cards *)
(* and other users change them: the store (cards and the buckets of the      *)
(* lists), the optimistic mutations with their snapshots, records and retry  *)
(* timers, the delete that can be undone, and the server they all meet.      *)
(*                                                                         *)
(* Events reach the store in the order of their sequence (module             *)
(* BoardRealtime); this module is about what the reducers make of them when  *)
(* the view is ahead of the server, or behind a snapshot.  The order of the  *)
(* cards within a bucket is abstracted.                                      *)
(***************************************************************************)
EXTENDS Naturals, Sequences, FiniteSets

CONSTANTS
    Cards, Lists,
    Mutations,     \* correlation identifiers of optimistic moves
    MaxRemote,     \* bound: changes made by other users
    MaxDrags,      \* bound: visual moves
    MaxDetours,    \* bound: deletes with undo, rehydrations and remounts
    Absent, None

ASSUME BoundsAssumption == {MaxRemote, MaxDrags, MaxDetours} \subseteq Nat

Row == [list : Lists, rev : Nat]
Snapshot == [row : Row \cup {Absent}, buckets : UNION {[S -> SUBSET Cards] : S \in SUBSET Lists},
             revisions : UNION {[S -> Nat] : S \in SUBSET Lists}]
Move == [card : Cards, from : Lists, to : Lists, call : {"open", "over"}, served : BOOLEAN,
         snap : Snapshot]

Toast == "toast"    \* the undo toast as the owner of a snapshot

ASSUME MarksAssumption ==
    /\ Absent \notin Row
    /\ None \notin Cards \cup Mutations \cup Move \cup {Toast} /\ Toast \notin Mutations

VARIABLES
    srv,       \* table cards: the list and the revision of each live card
    lrev,      \* table lists: revisions
    wire,      \* appended events that the store has not applied
    seen,      \* history: srv as the applied events describe it
    card,      \* store.cards
    bucket,    \* store.cardsByList
    known,     \* revisions in store.lists
    drag,      \* the drag under way: card, source list, current container
    move,      \* variables and snapshot of each optimistic move
    record,    \* status in the MutationLifecycleManager
    timer,     \* mutations whose retry timer is armed
    pending,   \* status in store.pendingMutations
    toast,     \* the delete that can still be undone, with its snapshot
    used,      \* bounds: remote changes, visual moves, detours so far
    restored,  \* history: how often a mutation's snapshot was restored
    last,      \* history: whose optimistic change was the last of the view
    ahead,     \* history: cards shown otherwise than the events say
    clean      \* history: every change found the card in a list it names

server == <<srv, lrev, wire>>
view == <<card, bucket, last, ahead, clean>>
mutation == <<move, record, timer, pending, restored>>
vars == <<server, seen, view, known, drag, mutation, toast, used>>

Rows == [Cards -> Row \cup {Absent}]
Buckets == [Lists -> SUBSET Cards]
BucketsOf(cs) == [l \in Lists |-> {c \in Cards : cs[c] # Absent /\ cs[c].list = l}]
Present(cs, c) == cs[c] # Absent

Counters == [remote : 0..MaxRemote, drags : 0..MaxDrags, detours : 0..MaxDetours]
Within(f, max) == used[f] < max
Count(f) == used' = [used EXCEPT ![f] = @ + 1]

TypeOK ==
    /\ srv \in Rows /\ seen \in Rows /\ card \in Rows
    /\ bucket \in Buckets
    /\ lrev \in [Lists -> Nat] /\ known \in [Lists -> Nat]
    /\ record \in [Mutations -> {"none", "sent", "acknowledged", "failed", "retried", "rolled_back"}]
    /\ pending \in [Mutations -> {"none", "pending", "failed", "acked"}]
    /\ timer \subseteq Mutations
    /\ used \in Counters
    /\ restored \in [Mutations -> Nat]
    /\ last \in Mutations \cup {Toast, None}
    /\ ahead \subseteq Cards
    /\ clean \in BOOLEAN

Init ==
    /\ \E l \in [Cards -> Lists \cup {Absent}] :
         srv = [c \in Cards |-> IF l[c] = Absent THEN Absent ELSE [list |-> l[c], rev |-> 1]]
    /\ lrev = [l \in Lists |-> 0]
    /\ wire = <<>>
    /\ seen = srv /\ card = srv /\ bucket = BucketsOf(srv) /\ known = lrev
    /\ drag = None
    /\ move = [m \in Mutations |-> None]
    /\ record = [m \in Mutations |-> "none"]
    /\ timer = {}
    /\ pending = [m \in Mutations |-> "none"]
    /\ toast = None
    /\ used = [remote |-> 0, drags |-> 0, detours |-> 0]
    /\ restored = [m \in Mutations |-> 0]
    /\ last = None /\ ahead = {} /\ clean = TRUE

-----------------------------------------------------------------------------
(* The reducers.  An optimistic event carries the revision after the one      *)
(* shown; the websocket server sends every event with version 1.             *)

Moved(c, from, to) == [kind |-> "moved", card |-> c, from |-> from, to |-> to]
Created(c, l) == [kind |-> "created", card |-> c, from |-> l, to |-> l]
Deleted(c, l) == [kind |-> "deleted", card |-> c, from |-> l, to |-> l]

WireVersion == 1

\* Variant: the card stays in the list it leaves.
BucketsAfterMoveKeeping(c, from, to) == [bucket EXCEPT ![to] = @ \cup {c}]

BucketsAfterMove(c, from, to) ==
    [l \in Lists |-> IF l = to THEN bucket[l] \cup {c} ELSE IF l = from THEN bucket[l] \ {c} ELSE bucket[l]]

\* Variant: a move older than the card shown is skipped, as deletions are.
MoveAppliesUnlessOlder(c, version) == Present(card, c) /\ card[c].rev <= version

\* applyCardMoved: no version is compared.
MoveApplies(c, version) == Present(card, c)

ApplyMoved(c, from, to, version) ==
    IF MoveApplies(c, version)
    THEN /\ card' = [card EXCEPT ![c] = [list |-> to, rev |-> version]]
         /\ bucket' = BucketsAfterMove(c, from, to)
         /\ clean' = (clean /\ \A l \in Lists : c \in bucket[l] => l \in {from, to})
    ELSE UNCHANGED <<card, bucket, clean>>

\* applyCardCreated: an identifier already in the list is not added again.
ApplyCreated(c, l, version) ==
    /\ card' = [card EXCEPT ![c] = [list |-> l, rev |-> version]]
    /\ bucket' = [bucket EXCEPT ![l] = @ \cup {c}]
    /\ clean' = (clean /\ \A k \in Lists : c \in bucket[k] => k = l)

\* applyCardDeleted: a card shown at a later revision is kept.
DeletionApplies(c, version) == Present(card, c) /\ card[c].rev <= version

ApplyDeleted(c, version) ==
    IF DeletionApplies(c, version)
    THEN /\ card' = [card EXCEPT ![c] = Absent]
         /\ bucket' = [bucket EXCEPT ![card[c].list] = @ \ {c}]
         /\ clean' = clean
    ELSE UNCHANGED <<card, bucket, clean>>

-----------------------------------------------------------------------------
(* The server and the other users.                                           *)

Raised(l, k) == [x \in Lists |-> IF x \in {l, k} THEN lrev[x] + 1 ELSE lrev[x]]

\* moveCard saves the card with the revision it has.
ServerMoves(c, l) ==
    /\ srv' = [srv EXCEPT ![c].list = l]
    /\ lrev' = Raised(srv[c].list, l)
    /\ wire' = Append(wire, Moved(c, srv[c].list, l))

RemoteMove ==
    \E c \in Cards, l \in Lists : Present(srv, c) /\ ServerMoves(c, l)

RemoteCreate ==
    \E c \in Cards, l \in Lists :
      /\ ~Present(srv, c) /\ ~Present(card, c) /\ ~Present(seen, c)
      /\ \A i \in DOMAIN wire : wire[i].card # c
      /\ \A m \in Mutations : move[m] # None => move[m].card # c
      /\ toast = None
      /\ srv' = [srv EXCEPT ![c] = [list |-> l, rev |-> 0]]
      /\ lrev' = Raised(l, l)
      /\ wire' = Append(wire, Created(c, l))

ServerDeletes(c) ==
    /\ srv' = [srv EXCEPT ![c] = Absent]
    /\ lrev' = Raised(srv[c].list, srv[c].list)
    /\ wire' = Append(wire, Deleted(c, srv[c].list))

RemoteDelete == \E c \in Cards : Present(srv, c) /\ ServerDeletes(c)

RemoteChange ==
    /\ Within("remote", MaxRemote)
    /\ RemoteMove \/ RemoteCreate \/ RemoteDelete
    /\ Count("remote")
    /\ UNCHANGED <<seen, view, known, drag, mutation, toast>>

-----------------------------------------------------------------------------
(* The next event reaches the reconciler.  No event carries the correlation  *)
(* of a mutation (the server stamps its own request identifier), so pending  *)
(* mutations are not resolved here.                                          *)

SeenAfter(e) ==
    [seen EXCEPT ![e.card] = IF e.kind = "deleted" THEN Absent ELSE [list |-> e.to, rev |-> WireVersion]]

ApplyEvent(e) ==
    CASE e.kind = "moved" -> ApplyMoved(e.card, e.from, e.to, WireVersion)
      [] e.kind = "created" -> ApplyCreated(e.card, e.to, WireVersion)
      [] e.kind = "deleted" -> ApplyDeleted(e.card, WireVersion)

\* Cards an event leaves shown otherwise than it says: moved or deleted, but not applied.
Missed(e) ==
    IF e.kind = "deleted" THEN Present(card, e.card) /\ ~DeletionApplies(e.card, WireVersion)
    ELSE e.kind = "moved" /\ ~Present(card, e.card)

Deliver ==
    /\ wire # <<>>
    /\ LET e == Head(wire) IN
       /\ ApplyEvent(e)
       /\ seen' = SeenAfter(e)
       /\ ahead' = IF Missed(e) THEN ahead \cup {e.card} ELSE ahead \ {e.card}
    /\ last' = None
    /\ wire' = Tail(wire)
    /\ UNCHANGED <<srv, lrev, known, drag, mutation, toast, used>>

-----------------------------------------------------------------------------
(* Dragging.                                                                *)

DragStart ==
    /\ drag = None
    /\ Within("drags", MaxDrags)
    /\ \E l \in Lists : \E c \in bucket[l] : drag' = [card |-> c, source |-> l, at |-> l]
    /\ UNCHANGED <<server, seen, view, known, mutation, toast, used>>

\* The pointer rested over a list: the store's moveCard shows the card there.
DragOver ==
    /\ drag # None
    /\ Within("drags", MaxDrags)
    /\ \E l \in Lists \ {drag.at} :
         /\ drag' = [drag EXCEPT !.at = l]
         /\ IF Present(card, drag.card)
            THEN /\ ApplyMoved(drag.card, drag.at, l, card[drag.card].rev + 1)
                 /\ ahead' = ahead \cup {drag.card}
                 /\ last' = None
            ELSE UNCHANGED view
    /\ Count("drags")
    /\ UNCHANGED <<server, seen, known, mutation, toast>>

\* Dropped outside every list: the visual move stays.
DropOutside ==
    /\ drag # None
    /\ drag' = None
    /\ UNCHANGED <<server, seen, view, known, mutation, toast, used>>

SnapshotOf(c, from, to) ==
    [row |-> card[c], buckets |-> [l \in {from, to} |-> bucket[l]],
     revisions |-> [l \in {from, to} |-> known[l]]]

\* onMutate, and the request that mutationFn sends with the revisions known.
Drop(m) ==
    /\ drag # None
    /\ move[m] = None
    /\ \E to \in Lists :
         /\ move' = [move EXCEPT ![m] =
              [card |-> drag.card, from |-> drag.source, to |-> to, call |-> "open", served |-> FALSE,
               snap |-> SnapshotOf(drag.card, drag.source, to)]]
         /\ IF Present(card, drag.card)
            THEN /\ record' = [record EXCEPT ![m] = "sent"]
                 /\ pending' = [pending EXCEPT ![m] = "pending"]
                 /\ ApplyMoved(drag.card, drag.source, to, card[drag.card].rev + 1)
                 /\ ahead' = ahead \cup {drag.card}
                 /\ last' = m
            ELSE UNCHANGED <<record, pending, view>>
    /\ drag' = None
    /\ UNCHANGED <<server, seen, known, timer, restored, toast, used>>

-----------------------------------------------------------------------------
(* The request of a move, and what the client makes of its end.              *)

Accepts(v) ==
    /\ Present(srv, v.card)
    /\ \A l \in {v.from, v.to} : lrev[l] = v.snap.revisions[l]

\* A refusal is an answer too: { success: false } as data, with status 200.
Serve(m) ==
    /\ move[m] # None /\ ~move[m].served
    /\ IF Accepts(move[m]) THEN ServerMoves(move[m].card, move[m].to) ELSE UNCHANGED server
    /\ move' = [move EXCEPT ![m].served = TRUE]
    /\ UNCHANGED <<seen, view, known, drag, record, timer, pending, restored, toast, used>>

Ends(m, rec, pend) ==
    /\ move' = [move EXCEPT ![m].call = "over"]
    /\ record' = [record EXCEPT ![m] = rec]
    /\ pending' = [pending EXCEPT ![m] = IF @ = "none" THEN "none" ELSE pend]

\* onSuccess
Succeed(m) ==
    /\ move[m] # None /\ move[m].call = "open" /\ move[m].served
    /\ Ends(m, IF record[m] = "sent" THEN "acknowledged" ELSE record[m], "acked")
    /\ UNCHANGED <<server, seen, view, known, drag, timer, restored, toast, used>>

\* restoreSnapshot: a card shown at a later revision is not restored, the buckets are.
Restore(m) ==
    LET v == move[m] IN
    /\ card' = IF Present(card, v.card) /\ (v.snap.row = Absent \/ card[v.card].rev > v.snap.row.rev)
               THEN card
               ELSE IF v.snap.row = Absent THEN card ELSE [card EXCEPT ![v.card] = v.snap.row]
    /\ bucket' = [l \in Lists |->
         IF l \in {v.from, v.to} /\ known[l] <= v.snap.revisions[l] THEN v.snap.buckets[l] ELSE bucket[l]]
    /\ restored' = [restored EXCEPT ![m] = @ + 1]
    /\ ahead' = ahead \cup {v.card}
    /\ clean' = (clean /\ last = m /\ v.snap.row # Absent /\ v.snap.row.list = v.to)
    /\ last' = None

\* Variant: the safety net does not ask whether the manager has the snapshot.
RollsBackHereAlways(m) == TRUE

\* The safety net of onError: the manager has no record, so no snapshot.
RollsBackHere(m) == record[m] = "none"

\* onError with an error the manager may retry.
FailRetryable(m) ==
    /\ move[m] # None /\ move[m].call = "open"
    /\ Ends(m, IF record[m] = "sent" THEN "failed" ELSE record[m], "failed")
    /\ timer' = IF record[m] = "sent" THEN timer \cup {m} ELSE timer
    /\ IF RollsBackHere(m) THEN Restore(m) ELSE UNCHANGED <<view, restored>>
    /\ UNCHANGED <<server, seen, known, drag, toast, used>>

\* onError with any other error: the manager rolls back at once.
FailForGood(m) ==
    /\ move[m] # None /\ move[m].call = "open"
    /\ Ends(m, IF record[m] = "sent" THEN "rolled_back" ELSE record[m], "failed")
    /\ Restore(m)
    /\ UNCHANGED <<server, seen, known, drag, timer, toast, used>>

\* The retry timer.  No resend function is registered: the record stays retried.
Retry(m) ==
    /\ m \in timer
    /\ timer' = timer \ {m}
    /\ record' = [record EXCEPT ![m] = IF @ = "failed" THEN "retried" ELSE @]
    /\ UNCHANGED <<server, seen, view, known, drag, move, pending, restored, toast, used>>

\* gcPendingMutations, five minutes later.
CollectPending(m) ==
    /\ pending[m] \in {"failed", "acked"}
    /\ pending' = [pending EXCEPT ![m] = "none"]
    /\ UNCHANGED <<server, seen, view, known, drag, move, record, timer, restored, toast, used>>

-----------------------------------------------------------------------------
(* The delete that can be undone: its snapshot is the whole view.            *)

DeleteShown ==
    /\ toast = None
    /\ Within("detours", MaxDetours)
    /\ \E c \in {c \in Cards : Present(card, c)} :
         /\ toast' = [card |-> c, call |-> "none", served |-> FALSE,
                      cards |-> card, buckets |-> bucket, revisions |-> known]
         /\ ApplyDeleted(c, card[c].rev + 1)
         /\ ahead' = ahead \cup {c}
    /\ last' = Toast
    /\ Count("detours")
    /\ UNCHANGED <<server, seen, known, drag, mutation>>

\* setState(previousState): every card and list, whatever came in meanwhile.
RestoreAll ==
    /\ card' = toast.cards
    /\ bucket' = toast.buckets
    /\ known' = toast.revisions
    /\ ahead' = {c \in Cards :
         \/ Present(toast.cards, c) # Present(seen, c)
         \/ Present(seen, c) /\ toast.cards[c].list # seen[c].list}
    /\ clean' = (clean /\ last = Toast)
    /\ last' = None
    /\ toast' = None

Undo ==
    /\ toast # None /\ toast.call = "none"
    /\ RestoreAll
    /\ UNCHANGED <<server, seen, drag, mutation, used>>

AutoClose ==
    /\ toast # None /\ toast.call = "none"
    /\ toast' = [toast EXCEPT !.call = "open"]
    /\ UNCHANGED <<server, seen, view, known, drag, mutation, used>>

\* The server may refuse, and says so in an answer that is not looked at.
DeleteServed ==
    /\ toast # None /\ toast.call = "open" /\ ~toast.served
    /\ toast' = [toast EXCEPT !.served = TRUE]
    /\ \/ Present(srv, toast.card) /\ ServerDeletes(toast.card)
       \/ UNCHANGED server
    /\ UNCHANGED <<seen, view, known, drag, mutation, used>>

DeleteAnswered ==
    /\ toast # None /\ toast.served
    /\ toast' = None
    /\ UNCHANGED <<server, seen, view, known, drag, mutation, used>>

DeleteLost ==
    /\ toast # None /\ toast.call = "open"
    /\ RestoreAll
    /\ UNCHANGED <<server, seen, drag, mutation, used>>

-----------------------------------------------------------------------------
(* Loading the board: initBoard replaces cards, lists, buckets and pending    *)
(* mutations with what the server has; the events below its sequence are      *)
(* dropped.                                                                 *)

Load ==
    /\ Within("detours", MaxDetours)
    /\ Count("detours")
    /\ card' = srv /\ seen' = srv /\ bucket' = BucketsOf(srv) /\ known' = lrev
    /\ wire' = <<>>
    /\ pending' = [m \in Mutations |-> "none"]
    /\ last' = None /\ ahead' = {} /\ clean' = TRUE
    /\ UNCHANGED <<srv, lrev, move, restored, toast>>

\* A full resync: the mutation records and their timers go on.
Resync == Load /\ UNCHANGED <<record, timer, drag>>

\* resetMutationLifecycleManager
TimersAfterReset == {}

\* The route is left and entered again: a new manager, and no drag.
Remount ==
    /\ Load
    /\ record' = [m \in Mutations |-> "none"]
    /\ timer' = TimersAfterReset
    /\ drag' = None

Next ==
    \/ RemoteChange \/ Deliver
    \/ DragStart \/ DragOver \/ DropOutside
    \/ \E m \in Mutations :
         \/ Drop(m) \/ Serve(m) \/ Succeed(m) \/ FailRetryable(m) \/ FailForGood(m)
         \/ Retry(m) \/ CollectPending(m)
    \/ DeleteShown \/ Undo \/ AutoClose \/ DeleteServed \/ DeleteAnswered \/ DeleteLost
    \/ Resync \/ Remount

Spec == Init /\ [][Next]_vars

-----------------------------------------------------------------------------
(* What must hold.                                                          *)

\* A card that no optimistic change, restored snapshot or skipped event touched
\* since its last event is shown where the events say it is, whatever happens
\* to the cards around it (applyCardMoved, applyCardCreated, applyCardDeleted).
ViewFollowsEvents ==
    \A c \in Cards \ ahead :
      /\ Present(card, c) <=> Present(seen, c)
      /\ Present(card, c) => card[c].list = seen[c].list

\* The critical assertions of boardInvariants.ts hold until a change finds its
\* card in a list it does not name, or a snapshot is restored over later changes,
\* or over a move that no visual move preceded (the card keeps its row then).
CleanBoardConsistent ==
    clean => \A c \in Cards, l \in Lists : c \in bucket[l] <=> Present(card, c) /\ card[c].list = l

\* A snapshot is restored at most once, and never for a mutation that the
\* manager acknowledged or will retry (useOptimisticMutation's two ways back).
RestoredOnce ==
    \A m \in Mutations :
      /\ restored[m] <= 1
      /\ restored[m] = 1 => move[m].call = "over" /\ record[m] \in {"rolled_back", "none"}
=============================================================================
