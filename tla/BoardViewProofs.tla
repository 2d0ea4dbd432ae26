--------------------------- MODULE BoardViewProofs ---------------------------
(***************************************************************************)
(* Proofs about what a browser shows of a board, for any cards, lists,       *)
(* mutations, titles and requests: its cards (BoardView), a card's title     *)
(* under its two editors (TitleEditors, as T) and what its forms create      *)
(* (CreateForms, as F), each by the inductive invariant stated before it.    *)
(***************************************************************************)
EXTENDS MCBoardView, SequenceTheorems, WellFoundedInduction, TLAPS

-----------------------------------------------------------------------------
(* The cards of the board.                                                   *)

\* A card is in the bucket of the list its row names, and in no other.
Consistent(cs, bs) == \A c \in Cards, l \in Lists : c \in bs[l] <=> Present(cs, c) /\ cs[c].list = l

\* The cards cs are where the rows sn have them, those of ah aside.
Agrees(cs, sn, ah) ==
    \A c \in Cards \ ah : /\ Present(cs, c) <=> Present(sn, c)
                          /\ Present(cs, c) => cs[c].list = sn[c].list

Event == [kind : {"moved", "created", "deleted"}, card : Cards, from : Lists, to : Lists]
Drag == [card : Cards, source : Lists, at : Lists]
Undoable == [card : Cards, call : {"none", "open"}, served : BOOLEAN, cards : Rows, buckets : Buckets,
             revisions : [Lists -> Nat]]
Status == {"none", "sent", "acknowledged", "failed", "retried", "rolled_back"}

MoveFits(v) == v \in Move /\ v.snap.buckets \in [{v.from, v.to} -> SUBSET Cards]

\* The snapshot of a move is restored by a call that ends, once.
RestoreFits(v, rec, times) ==
    /\ v = None => rec = "none" /\ times = 0
    /\ v # None /\ v.call = "open" => rec \in {"none", "sent"} /\ times = 0
    /\ times <= 1
    /\ times = 1 => v # None /\ v.call = "over" /\ rec \in {"rolled_back", "none"}

\* What clean asks of a snapshot before it may be restored, and what restoring
\* it then does: nothing, for the move did nothing either.
Harmless(v, cs, bs) ==
    v.snap.row # Absent /\ v.snap.row.list = v.to =>
        /\ Present(cs, v.card) /\ cs[v.card].rev > v.snap.row.rev
        /\ \A l \in {v.from, v.to} : v.snap.buckets[l] = bs[l]

BoardTyped ==
    /\ srv \in Rows /\ seen \in Rows /\ card \in Rows /\ bucket \in Buckets
    /\ lrev \in [Lists -> Nat] /\ known \in [Lists -> Nat]
    /\ wire \in Seq(Event)
    /\ drag \in {None} \cup Drag
    /\ move \in [Mutations -> {None} \cup Move] /\ \A m \in Mutations : move[m] # None => MoveFits(move[m])
    /\ toast \in {None} \cup Undoable
    /\ record \in [Mutations -> Status] /\ restored \in [Mutations -> Nat]

Restores == \A m \in Mutations : RestoreFits(move[m], record[m], restored[m])

Cleanness ==
    /\ clean => Consistent(card, bucket)
    /\ clean /\ last = Toast /\ toast # None => Consistent(toast.cards, toast.buckets)
    /\ \A m \in Mutations : last = m => move[m] # None /\ (clean => Harmless(move[m], card, bucket))

BoardInv == BoardTyped /\ Restores /\ Cleanness /\ Agrees(card, seen, ahead)

-----------------------------------------------------------------------------
LEMMA RowTyped ==
  /\ Absent \notin Row /\ None \notin Mutations /\ None \notin Move /\ None # Toast /\ Toast \notin Mutations
  /\ \A l \in Lists, n \in Nat : [list |-> l, rev |-> n] \in Row
  /\ \A r \in Row : r.list \in Lists /\ r.rev \in Nat
BY MarksAssumption DEF Row

LEMMA BucketsTyped ==
  ASSUME NEW cs \in Rows
  PROVE  BucketsOf(cs) \in Buckets /\ Consistent(cs, BucketsOf(cs))
BY DEF BucketsOf, Buckets, Consistent, Present

\* applyCardMoved
LEMMA MovedKeeps ==
  ASSUME card \in Rows, bucket \in Buckets, clean => Consistent(card, bucket),
         NEW c \in Cards, NEW from \in Lists, NEW to \in Lists, NEW version \in Nat,
         ApplyMoved(c, from, to, version)
  PROVE  /\ card' \in Rows /\ bucket' \in Buckets
         /\ (clean' => clean) /\ (clean' => Consistent(card', bucket'))
         /\ \A d \in Cards : d # c => card'[d] = card[d]
         /\ Present(card, c) => card'[c] = [list |-> to, rev |-> version]
         /\ ~Present(card, c) => UNCHANGED <<card, bucket, clean>>
<1>1. CASE Present(card, c)
  <2> DEFINE row == [list |-> to, rev |-> version]
  <2>1. /\ card' = [card EXCEPT ![c] = row]
        /\ bucket' = BucketsAfterMove(c, from, to)
        /\ clean' = (clean /\ \A l \in Lists : c \in bucket[l] => l \in {from, to})
    BY <1>1 DEF ApplyMoved, MoveApplies
  <2>2. row \in Row /\ row # Absent /\ row.list = to
    BY RowTyped
  <2> HIDE DEF row
  <2>3. card' \in Rows /\ card'[c] = row /\ \A d \in Cards : d # c => card'[d] = card[d]
    BY <2>1, <2>2 DEF Rows
  <2>4. bucket' \in Buckets
    BY <2>1 DEF BucketsAfterMove, Buckets
  <2>5. ASSUME clean' PROVE Consistent(card', bucket')
    <3>1. clean /\ (\A l \in Lists : c \in bucket[l] => l \in {from, to}) /\ Consistent(card, bucket)
      BY <2>1, <2>5
    <3>2. \A l \in Lists : bucket'[l] = IF l = to THEN bucket[l] \cup {c}
                                        ELSE IF l = from THEN bucket[l] \ {c} ELSE bucket[l]
      BY <2>1 DEF BucketsAfterMove
    <3>3. ASSUME NEW d \in Cards, NEW l \in Lists
          PROVE  d \in bucket'[l] <=> Present(card', d) /\ card'[d].list = l
      <4>1. CASE d = c
        BY <2>2, <2>3, <3>1, <3>2, <4>1 DEF Present
      <4>2. CASE d # c
        <5>1. d \in bucket[l] <=> Present(card, d) /\ card[d].list = l
          BY <3>1 DEF Consistent
        <5>2. (d \in bucket'[l] <=> d \in bucket[l]) /\ card'[d] = card[d]
          BY <2>3, <3>2, <4>2
        <5> QED
          BY <5>1, <5>2 DEF Present
      <4> QED
        BY <4>1, <4>2
    <3> QED
      BY <3>3 DEF Consistent
  <2> QED
    BY <1>1, <2>1, <2>3, <2>4, <2>5 DEF row
<1>2. CASE ~Present(card, c)
  BY <1>2 DEF ApplyMoved, MoveApplies
<1> QED
  BY <1>1, <1>2

\* applyCardCreated
LEMMA CreatedKeeps ==
  ASSUME card \in Rows, bucket \in Buckets, clean => Consistent(card, bucket),
         NEW c \in Cards, NEW l \in Lists, NEW version \in Nat, ApplyCreated(c, l, version)
  PROVE  /\ card' \in Rows /\ bucket' \in Buckets
         /\ (clean' => clean) /\ (clean' => Consistent(card', bucket'))
         /\ \A d \in Cards : d # c => card'[d] = card[d]
         /\ Present(card', c) /\ card'[c].list = l
<1> DEFINE row == [list |-> l, rev |-> version]
<1>1. /\ card' = [card EXCEPT ![c] = row]
      /\ bucket' = [bucket EXCEPT ![l] = bucket[l] \cup {c}]
      /\ clean' = (clean /\ \A k \in Lists : c \in bucket[k] => k = l)
  BY DEF ApplyCreated
<1>2. row \in Row /\ row # Absent /\ row.list = l
  BY RowTyped
<1> HIDE DEF row
<1>3. card' \in Rows /\ card'[c] = row /\ \A d \in Cards : d # c => card'[d] = card[d]
  BY <1>1, <1>2 DEF Rows
<1>4. bucket' \in Buckets /\ \A k \in Lists : bucket'[k] = IF k = l THEN bucket[k] \cup {c} ELSE bucket[k]
  BY <1>1 DEF Buckets
<1>5. ASSUME clean' PROVE Consistent(card', bucket')
  <2>1. (\A k \in Lists : c \in bucket[k] => k = l) /\ Consistent(card, bucket)
    BY <1>1, <1>5
  <2>2. ASSUME NEW d \in Cards, NEW k \in Lists
        PROVE  d \in bucket'[k] <=> Present(card', d) /\ card'[d].list = k
    <3>1. CASE d = c
      BY <1>2, <1>3, <1>4, <2>1, <3>1 DEF Present
    <3>2. CASE d # c
      <4>1. d \in bucket[k] <=> Present(card, d) /\ card[d].list = k
        BY <2>1 DEF Consistent
      <4>2. (d \in bucket'[k] <=> d \in bucket[k]) /\ card'[d] = card[d]
        BY <1>3, <1>4, <3>2
      <4> QED
        BY <4>1, <4>2 DEF Present
    <3> QED
      BY <3>1, <3>2
  <2> QED
    BY <2>2 DEF Consistent
<1> QED
  BY <1>1, <1>2, <1>3, <1>4, <1>5 DEF Present

\* applyCardDeleted
LEMMA DeletedKeeps ==
  ASSUME card \in Rows, bucket \in Buckets, clean => Consistent(card, bucket),
         NEW c \in Cards, NEW version \in Nat, ApplyDeleted(c, version)
  PROVE  /\ card' \in Rows /\ bucket' \in Buckets /\ (clean' <=> clean)
         /\ (clean' => Consistent(card', bucket'))
         /\ \A d \in Cards : d # c => card'[d] = card[d]
         /\ DeletionApplies(c, version) => ~Present(card', c)
         /\ ~DeletionApplies(c, version) => UNCHANGED <<card, bucket>>
<1>1. CASE DeletionApplies(c, version)
  <2>1. /\ card' = [card EXCEPT ![c] = Absent]
        /\ bucket' = [bucket EXCEPT ![card[c].list] = bucket[card[c].list] \ {c}]
        /\ clean' = clean
    BY <1>1 DEF ApplyDeleted
  <2>2. card[c] # Absent /\ card[c].list \in Lists
    BY <1>1, RowTyped DEF DeletionApplies, Present, Rows
  <2>3. /\ card' \in Rows /\ card'[c] = Absent /\ \A d \in Cards : d # c => card'[d] = card[d]
        /\ bucket' \in Buckets
        /\ \A l \in Lists : bucket'[l] = IF l = card[c].list THEN bucket[l] \ {c} ELSE bucket[l]
    BY <2>1, <2>2 DEF Rows, Buckets
  <2>4. ASSUME clean PROVE Consistent(card', bucket')
    <3>1. Consistent(card, bucket)
      BY <2>4
    <3>2. ASSUME NEW d \in Cards, NEW l \in Lists
          PROVE  d \in bucket'[l] <=> Present(card', d) /\ card'[d].list = l
      <4>1. d \in bucket[l] <=> Present(card, d) /\ card[d].list = l
        BY <3>1 DEF Consistent
      <4>2. CASE d = c
        <5>1. ~Present(card', d)
          BY <2>3, <4>2 DEF Present
        <5>2. d \notin bucket'[l]
          BY <2>3, <4>1, <4>2
        <5> QED
          BY <5>1, <5>2
      <4>3. CASE d # c
        <5>1. (d \in bucket'[l] <=> d \in bucket[l]) /\ card'[d] = card[d]
          BY <2>3, <4>3
        <5> QED
          BY <4>1, <5>1 DEF Present
      <4> QED
        BY <4>2, <4>3
    <3> QED
      BY <3>2 DEF Consistent
  <2> QED
    BY <1>1, <2>1, <2>3, <2>4 DEF Present
<1>2. CASE ~DeletionApplies(c, version)
  <2>1. UNCHANGED <<card, bucket, clean>>
    BY <1>2 DEF ApplyDeleted
  <2> QED
    BY <1>2, <2>1
<1> QED
  BY <1>1, <1>2

-----------------------------------------------------------------------------
\* A snapshot that does nothing does nothing, whatever becomes of its request.
SameMove(v, w) == /\ w # None /\ w.card = v.card /\ w.from = v.from /\ w.to = v.to /\ w.snap = v.snap

\* A step that the view does not show.
LEMMA QuietKeeps ==
  ASSUME BoardInv, BoardTyped', Restores', UNCHANGED <<view, seen>>,
         \A m \in Mutations : move[m] # None => SameMove(move[m], move'[m]),
         toast' # None => toast # None /\ toast'.cards = toast.cards /\ toast'.buckets = toast.buckets
  PROVE  BoardInv'
<1>1. UNCHANGED <<card, bucket, last, ahead, clean, seen>>
  BY DEF view
<1>2. Cleanness'
  <2>0. Cleanness
    BY DEF BoardInv
  <2>1. clean' => Consistent(card', bucket')
    BY <1>1, <2>0 DEF Cleanness
  <2>2. clean' /\ last' = Toast /\ toast' # None => Consistent(toast'.cards, toast'.buckets)
    BY <1>1, <2>0 DEF Cleanness
  <2>3. ASSUME NEW m \in Mutations, last' = m
        PROVE  move'[m] # None /\ (clean' => Harmless(move'[m], card', bucket'))
    <3>1. move[m] # None /\ (clean => Harmless(move[m], card, bucket)) /\ SameMove(move[m], move'[m])
      BY <1>1, <2>0, <2>3 DEF Cleanness
    <3> QED
      BY <1>1, <3>1 DEF SameMove, Harmless
  <2> QED
    BY <2>1, <2>2, <2>3 DEF Cleanness
<1>3. Agrees(card, seen, ahead)'
  BY <1>1 DEF BoardInv
<1> QED
  BY <1>2, <1>3 DEF BoardInv

\* The server's part of a step.
LEMMA ServerMovesTyped ==
  ASSUME BoardTyped, NEW c \in Cards, NEW l \in Lists, Present(srv, c), ServerMoves(c, l)
  PROVE  srv' \in Rows /\ lrev' \in [Lists -> Nat] /\ wire' \in Seq(Event)
<1>1. srv[c] \in Row /\ srv[c].list \in Lists
  BY RowTyped DEF BoardTyped, Rows, Present
<1>2. [srv[c] EXCEPT !.list = l] \in Row /\ Moved(c, srv[c].list, l) \in Event
  BY <1>1 DEF Moved, Event, Row
<1>3. srv' \in Rows
  BY <1>2 DEF ServerMoves, BoardTyped, Rows
<1>4. lrev' \in [Lists -> Nat]
  BY DEF ServerMoves, Raised, BoardTyped
<1>5. wire' \in Seq(Event)
  BY <1>2, AppendProperties DEF ServerMoves, BoardTyped
<1> QED
  BY <1>3, <1>4, <1>5

LEMMA ServerDeletesTyped ==
  ASSUME BoardTyped, NEW c \in Cards, Present(srv, c), ServerDeletes(c)
  PROVE  srv' \in Rows /\ lrev' \in [Lists -> Nat] /\ wire' \in Seq(Event)
<1>1. srv[c].list \in Lists
  BY RowTyped DEF BoardTyped, Rows, Present
<1>2. Deleted(c, srv[c].list) \in Event
  BY <1>1 DEF Deleted, Event
<1>3. srv' \in Rows
  BY DEF ServerDeletes, BoardTyped, Rows
<1>4. lrev' \in [Lists -> Nat]
  BY DEF ServerDeletes, Raised, BoardTyped
<1>5. wire' \in Seq(Event)
  BY <1>2, AppendProperties DEF ServerDeletes, BoardTyped
<1> QED
  BY <1>3, <1>4, <1>5

LEMMA RemoteChangeKeeps ==
  ASSUME BoardInv, RemoteChange
  PROVE  BoardInv'
<1>1. UNCHANGED <<seen, card, bucket, last, ahead, clean, known, drag, move, record, timer, pending, restored, toast>>
  BY DEF RemoteChange, view, mutation
<1>2. srv' \in Rows /\ lrev' \in [Lists -> Nat] /\ wire' \in Seq(Event)
  <2>1. CASE RemoteMove
    BY <2>1, ServerMovesTyped DEF RemoteMove, BoardInv
  <2>2. CASE RemoteDelete
    BY <2>2, ServerDeletesTyped DEF RemoteDelete, BoardInv
  <2>3. CASE RemoteCreate
    <3>1. PICK c \in Cards, l \in Lists :
            /\ srv' = [srv EXCEPT ![c] = [list |-> l, rev |-> 0]]
            /\ lrev' = Raised(l, l) /\ wire' = Append(wire, Created(c, l))
      BY <2>3 DEF RemoteCreate
    <3>2. [list |-> l, rev |-> 0] \in Row /\ Created(c, l) \in Event
      BY RowTyped DEF Created, Event
    <3>3. srv' \in Rows
      BY <3>1, <3>2 DEF BoardInv, BoardTyped, Rows
    <3>4. lrev' \in [Lists -> Nat]
      BY <3>1 DEF Raised, BoardInv, BoardTyped
    <3>5. wire' \in Seq(Event)
      BY <3>1, <3>2, AppendProperties DEF BoardInv, BoardTyped
    <3> QED
      BY <3>3, <3>4, <3>5
  <2> QED
    BY <2>1, <2>2, <2>3 DEF RemoteChange
<1>3. BoardTyped' /\ Restores'
  BY <1>1, <1>2 DEF BoardInv, BoardTyped, Restores
<1> QED
  BY <1>1, <1>3, QuietKeeps DEF SameMove, view

\* A step that moves the view past every snapshot that was harmless.
LEMMA OvertakesKeeps ==
  ASSUME BoardInv, UNCHANGED <<srv, lrev, known, move, record, restored, toast>>,
         seen' \in Rows, card' \in Rows, bucket' \in Buckets, wire' \in Seq(Event), drag' \in {None} \cup Drag,
         clean' => Consistent(card', bucket'), last' = None, Agrees(card', seen', ahead')
  PROVE  BoardInv'
<1>1. BoardTyped'
  BY DEF BoardInv, BoardTyped
<1>2. Restores'
  BY DEF BoardInv, Restores
<1>3. Cleanness'
  BY RowTyped DEF Cleanness
<1> QED
  BY <1>1, <1>2, <1>3 DEF BoardInv

LEMMA DeliverKeeps ==
  ASSUME BoardInv, Deliver
  PROVE  BoardInv'
<1> DEFINE e == Head(wire)
<1>1. /\ ApplyEvent(e) /\ seen' = SeenAfter(e)
      /\ ahead' = IF Missed(e) THEN ahead \cup {e.card} ELSE ahead \ {e.card}
      /\ last' = None /\ wire' = Tail(wire)
      /\ UNCHANGED <<srv, lrev, known, drag, move, record, restored, toast>>
  BY DEF Deliver, mutation
<1>2. e \in Event /\ wire' \in Seq(Event)
  BY <1>1, HeadTailProperties DEF Deliver, BoardInv, BoardTyped
<1> HIDE DEF e
<1>3. e.card \in Cards /\ e.from \in Lists /\ e.to \in Lists /\ e.kind \in {"moved", "created", "deleted"}
  BY <1>2 DEF Event
<1>4. /\ card \in Rows /\ bucket \in Buckets /\ (clean => Consistent(card, bucket)) /\ seen \in Rows
      /\ Agrees(card, seen, ahead) /\ WireVersion \in Nat
  BY DEF BoardInv, BoardTyped, Cleanness, WireVersion
<1>5. [list |-> e.to, rev |-> WireVersion] \in Row
  BY <1>3, <1>4, RowTyped
<1>6. /\ seen' \in Rows /\ \A d \in Cards : d # e.card => seen'[d] = seen[d]
      /\ e.kind = "deleted" => seen'[e.card] = Absent
      /\ e.kind # "deleted" => seen'[e.card] # Absent /\ seen'[e.card].list = e.to
  BY <1>1, <1>3, <1>4, <1>5, RowTyped DEF SeenAfter, Rows
<1>7. /\ card' \in Rows /\ bucket' \in Buckets /\ (clean' => Consistent(card', bucket'))
      /\ \A d \in Cards : d # e.card => card'[d] = card[d]
      /\ ~Missed(e) => /\ Present(card', e.card) <=> Present(seen', e.card)
                       /\ Present(card', e.card) => card'[e.card].list = seen'[e.card].list
  <2>1. CASE e.kind = "moved"
    <3>1. ApplyMoved(e.card, e.from, e.to, WireVersion)
      BY <1>1, <2>1 DEF ApplyEvent
    <3>2. /\ card' \in Rows /\ bucket' \in Buckets
          /\ (clean' => clean) /\ (clean' => Consistent(card', bucket'))
          /\ \A d \in Cards : d # e.card => card'[d] = card[d]
          /\ Present(card, e.card) => card'[e.card] = [list |-> e.to, rev |-> WireVersion]
      BY <1>3, <1>4, <3>1, MovedKeeps
    <3>3. ~Missed(e) => Present(card, e.card)
      BY <2>1 DEF Missed
    <3> QED
      BY <1>5, <1>6, <2>1, <3>2, <3>3, RowTyped DEF Present
  <2>2. CASE e.kind = "created"
    <3>1. ApplyCreated(e.card, e.to, WireVersion)
      BY <1>1, <2>2 DEF ApplyEvent
    <3>2. /\ card' \in Rows /\ bucket' \in Buckets
          /\ (clean' => clean) /\ (clean' => Consistent(card', bucket'))
          /\ \A d \in Cards : d # e.card => card'[d] = card[d]
          /\ Present(card', e.card) /\ card'[e.card].list = e.to
      BY <1>3, <1>4, <3>1, CreatedKeeps
    <3> QED
      BY <1>6, <2>2, <3>2 DEF Present
  <2>3. CASE e.kind = "deleted"
    <3>1. ApplyDeleted(e.card, WireVersion)
      BY <1>1, <2>3 DEF ApplyEvent
    <3>2. /\ card' \in Rows /\ bucket' \in Buckets
          /\ (clean' => Consistent(card', bucket'))
          /\ \A d \in Cards : d # e.card => card'[d] = card[d]
          /\ DeletionApplies(e.card, WireVersion) => ~Present(card', e.card)
          /\ ~DeletionApplies(e.card, WireVersion) => UNCHANGED <<card, bucket>>
      BY <1>3, <1>4, <3>1, DeletedKeeps
    <3>3. ~Missed(e) => ~Present(card', e.card)
      BY <2>3, <3>2 DEF Missed
    <3> QED
      BY <1>6, <2>3, <3>2, <3>3 DEF Present
  <2> QED
    BY <1>3, <2>1, <2>2, <2>3
<1>8. ASSUME NEW d \in Cards, d \notin ahead'
      PROVE  (Present(card', d) <=> Present(seen', d)) /\ (Present(card', d) => card'[d].list = seen'[d].list)
  <2>1. CASE d = e.card
    <3>1. ~Missed(e)
      BY <1>1, <1>8, <2>1
    <3> QED
      BY <1>7, <2>1, <3>1
  <2>2. CASE d # e.card
    <3>1. d \notin ahead /\ card'[d] = card[d] /\ seen'[d] = seen[d]
      BY <1>1, <1>6, <1>7, <1>8, <2>2
    <3>2. (Present(card, d) <=> Present(seen, d)) /\ (Present(card, d) => card[d].list = seen[d].list)
      BY <1>4, <3>1 DEF Agrees
    <3> QED
      BY <3>1, <3>2 DEF Present
  <2> QED
    BY <2>1, <2>2
<1>9. Agrees(card', seen', ahead')
  BY <1>8 DEF Agrees
<1>10. drag' \in {None} \cup Drag
  BY <1>1 DEF BoardInv, BoardTyped
<1> QED
  BY <1>1, <1>2, <1>6, <1>7, <1>9, <1>10, OvertakesKeeps
-----------------------------------------------------------------------------
TakenOf(s, c, from, to) ==
    /\ s \in Snapshot /\ s.row = card[c] /\ s.buckets \in [{from, to} -> SUBSET Cards]
    /\ \A l \in {from, to} : s.buckets[l] = bucket[l]

\* onMutate takes the snapshot of the card and of the two lists it names.
LEMMA SnapshotTyped ==
  ASSUME BoardTyped, NEW c \in Cards, NEW from \in Lists, NEW to \in Lists
  PROVE  TakenOf(SnapshotOf(c, from, to), c, from, to)
<1> DEFINE bs == [l \in {from, to} |-> bucket[l]]  rs == [l \in {from, to} |-> known[l]]
<1>1. SnapshotOf(c, from, to) = [row |-> card[c], buckets |-> bs, revisions |-> rs]
  BY DEF SnapshotOf
<1>2. card[c] \in Row \cup {Absent}
  BY DEF BoardTyped, Rows
<1>3. bs \in [{from, to} -> SUBSET Cards] /\ \A l \in {from, to} : bs[l] = bucket[l]
  BY DEF BoardTyped, Buckets
<1>4. rs \in [{from, to} -> Nat]
  BY DEF BoardTyped
<1>5. {from, to} \in SUBSET Lists
  OBVIOUS
<1> HIDE DEF bs, rs
<1>6. /\ bs \in UNION {[S -> SUBSET Cards] : S \in SUBSET Lists}
      /\ rs \in UNION {[S -> Nat] : S \in SUBSET Lists}
  BY <1>3, <1>4, <1>5
<1> QED
  BY <1>1, <1>2, <1>3, <1>6 DEF Snapshot, TakenOf

LEMMA DropKeeps ==
  ASSUME BoardInv, NEW m \in Mutations, Drop(m)
  PROVE  BoardInv'
<1> DEFINE c == drag.card  from == drag.source
<1>1. /\ c \in Cards /\ from \in Lists /\ card \in Rows /\ bucket \in Buckets
      /\ (clean => Consistent(card, bucket)) /\ move[m] = None /\ drag' = None
      /\ move \in [Mutations -> {None} \cup Move]
      /\ record \in [Mutations -> Status] /\ BoardTyped
  BY DEF Drop, BoardInv, BoardTyped, Cleanness, Drag
<1>2. PICK to \in Lists :
        /\ move' = [move EXCEPT ![m] =
              [card |-> c, from |-> from, to |-> to, call |-> "open", served |-> FALSE,
               snap |-> SnapshotOf(c, from, to)]]
        /\ IF Present(card, c)
           THEN /\ record' = [record EXCEPT ![m] = "sent"]
                /\ ApplyMoved(c, from, to, card[c].rev + 1)
                /\ ahead' = ahead \cup {c}
                /\ last' = m
           ELSE UNCHANGED <<record, card, bucket, last, ahead, clean>>
  BY DEF Drop, view
<1>3. UNCHANGED <<srv, lrev, wire, seen, known, restored, toast>>
  BY DEF Drop, server
<1> DEFINE s == SnapshotOf(c, from, to)
           v == [card |-> c, from |-> from, to |-> to, call |-> "open", served |-> FALSE, snap |-> s]
<1>4. /\ s \in Snapshot /\ s.row = card[c] /\ s.buckets \in [{from, to} -> SUBSET Cards]
      /\ \A l \in {from, to} : s.buckets[l] = bucket[l]
  <2>1. TakenOf(SnapshotOf(c, from, to), c, from, to)
    BY <1>1, SnapshotTyped
  <2> QED
    BY <2>1 DEF TakenOf
<1>5. move' = [move EXCEPT ![m] = v]
  BY <1>2
<1> HIDE DEF s
<1>6. /\ v \in Move /\ v.card = c /\ v.from = from /\ v.to = to /\ v.call = "open" /\ v.snap = s
      /\ MoveFits(v)
  BY <1>1, <1>4 DEF Move, MoveFits
<1> HIDE DEF v, c, from
<1>7. /\ move' \in [Mutations -> {None} \cup Move] /\ move'[m] = v /\ v # None
      /\ \A k \in Mutations : k # m => move'[k] = move[k]
  BY <1>1, <1>5, <1>6, RowTyped
<1>8. record[m] = "none" /\ restored[m] = 0
  BY <1>1 DEF BoardInv, Restores, RestoreFits
<1>9. /\ record' \in [Mutations -> Status] /\ record'[m] \in {"none", "sent"}
      /\ \A k \in Mutations : k # m => record'[k] = record[k]
  <2>1. CASE Present(card, c)
    BY <1>1, <1>2, <2>1 DEF Status
  <2>2. CASE ~Present(card, c)
    BY <1>1, <1>2, <1>8, <2>2
  <2> QED
    BY <2>1, <2>2
<1>10. /\ card' \in Rows /\ bucket' \in Buckets
       /\ (clean' => clean) /\ (clean' => Consistent(card', bucket'))
       /\ \A d \in Cards : d # c => card'[d] = card[d]
       /\ Present(card, c) => card'[c] = [list |-> to, rev |-> card[c].rev + 1]
       /\ ~Present(card, c) => UNCHANGED <<card, bucket, clean>>
  <2>1. CASE Present(card, c)
    <3>1. card[c].rev + 1 \in Nat
      BY <1>1, <2>1, RowTyped DEF Rows, Present
    <3>2. ApplyMoved(c, from, to, card[c].rev + 1)
      BY <1>2, <2>1
    <3> QED
      BY <1>1, <3>1, <3>2, MovedKeeps
  <2>2. CASE ~Present(card, c)
    BY <1>1, <1>2, <2>2
  <2> QED
    BY <2>1, <2>2
<1>11. BoardTyped'
  <2>1. \A k \in Mutations : move'[k] # None => MoveFits(move'[k])
    BY <1>6, <1>7 DEF BoardInv, BoardTyped
  <2> QED
    BY <1>1, <1>3, <1>7, <1>9, <1>10, <2>1 DEF BoardTyped
<1>12. Restores'
  <2>1. ASSUME NEW k \in Mutations PROVE RestoreFits(move'[k], record'[k], restored[k])
    <3>1. CASE k = m
      BY <1>6, <1>7, <1>8, <1>9, <3>1 DEF RestoreFits
    <3>2. CASE k # m
      BY <1>7, <1>9, <3>2 DEF BoardInv, Restores
    <3> QED
      BY <3>1, <3>2
  <2> QED
    BY <1>3, <2>1 DEF Restores
<1>13. Present(card, c) /\ clean' => Harmless(v, card', bucket')
  <2> SUFFICES ASSUME Present(card, c), clean', s.row.list = to
               PROVE  /\ Present(card', c) /\ card'[c].rev > s.row.rev
                      /\ \A l \in {from, to} : s.buckets[l] = bucket'[l]
    BY <1>6 DEF Harmless
  <2>1. /\ card[c] \in Row /\ card[c].rev \in Nat /\ card[c].list = to
        /\ card'[c] = [list |-> to, rev |-> card[c].rev + 1]
    BY <1>1, <1>4, <1>10, RowTyped DEF Rows, Present
  <2>2. Present(card', c) /\ card'[c].rev > s.row.rev
    <3>1. card'[c] \in Row /\ card'[c].rev = card[c].rev + 1
      BY <2>1, RowTyped
    <3> QED
      BY <1>4, <2>1, <3>1, RowTyped DEF Present
  <2>3. bucket' = BucketsAfterMove(c, from, to)
    BY <1>2 DEF ApplyMoved, MoveApplies
  <2>4. \A l \in Lists : c \in bucket[l] <=> l = to
    BY <1>1, <1>10, <2>1 DEF Consistent
  <2>5. \A l \in {from, to} : bucket'[l] = bucket[l]
    <3>1. \A l \in {from, to} : bucket'[l] = IF l = to THEN bucket[l] \cup {c} ELSE bucket[l] \ {c}
      BY <1>1, <2>3 DEF BucketsAfterMove
    <3>2. \A l \in {from, to} : (c \in bucket[l] <=> l = to) /\ l \in Lists
      BY <1>1, <2>4
    <3>3. ASSUME NEW l \in {from, to} PROVE bucket'[l] = bucket[l]
      <4>1. CASE l = to
        <5>1. c \in bucket[l] /\ bucket'[l] = bucket[l] \cup {c}
          BY <3>1, <3>2, <4>1
        <5> QED
          BY <5>1
      <4>2. CASE l # to
        <5>1. c \notin bucket[l] /\ bucket'[l] = bucket[l] \ {c}
          BY <3>1, <3>2, <4>2
        <5> QED
          BY <5>1
      <4> QED
        BY <4>1, <4>2
    <3> QED
      BY <3>3
  <2> QED
    BY <1>4, <2>2, <2>5
<1>14. Cleanness'
  <2>0. Cleanness
    BY DEF BoardInv
  <2>1. CASE Present(card, c)
    <3>1. last' = m
      BY <1>2, <2>1
    <3> QED
      BY <1>7, <1>10, <1>13, <2>1, <3>1, RowTyped DEF Cleanness
  <2>2. CASE ~Present(card, c)
    <3>1. UNCHANGED <<card, bucket, last, clean, toast>>
      BY <1>2, <1>3, <2>2
    <3>2. last # m
      BY <1>1, <2>0 DEF Cleanness
    <3>3. ASSUME NEW k \in Mutations, last' = k
          PROVE  move'[k] # None /\ (clean' => Harmless(move'[k], card', bucket'))
      BY <1>7, <2>0, <3>1, <3>2, <3>3 DEF Cleanness
    <3> QED
      BY <2>0, <3>1, <3>3 DEF Cleanness
  <2> QED
    BY <2>1, <2>2
<1>15. Agrees(card', seen', ahead')
  <2>1. Agrees(card, seen, ahead)
    BY DEF BoardInv
  <2>2. CASE Present(card, c)
    <3>1. ahead' = ahead \cup {c}
      BY <1>2, <2>2
    <3> QED
      BY <1>3, <1>10, <2>1, <3>1 DEF Agrees, Present
  <2>3. CASE ~Present(card, c)
    BY <1>2, <1>3, <2>1, <2>3
  <2> QED
    BY <2>2, <2>3
<1> QED
  BY <1>11, <1>12, <1>14, <1>15 DEF BoardInv

LEMMA DragKeeps ==
  ASSUME BoardInv, DragStart \/ DragOver \/ DropOutside
  PROVE  BoardInv'
<1>0. BoardTyped /\ Restores
  BY DEF BoardInv
<1>1. CASE DragStart
  <2>0. PICK l \in Lists : \E c \in bucket[l] : drag' = [card |-> c, source |-> l, at |-> l]
    BY <1>1 DEF DragStart
  <2>1. PICK c \in bucket[l] : drag' = [card |-> c, source |-> l, at |-> l]
    BY <2>0
  <2>2. c \in Cards
    BY <1>0 DEF BoardTyped, Buckets
  <2>3. UNCHANGED <<srv, lrev, wire, seen, view, known, move, record, restored, toast>>
    BY <1>1 DEF DragStart, server, mutation
  <2>4. drag' \in Drag
    BY <2>1, <2>2 DEF Drag
  <2>5. BoardTyped' /\ Restores'
    BY <1>0, <2>3, <2>4 DEF BoardTyped, Restores, view
  <2> QED
    BY <2>3, <2>5, QuietKeeps DEF SameMove
<1>2. CASE DropOutside
  <2>1. drag' = None /\ UNCHANGED <<srv, lrev, wire, seen, view, known, move, record, restored, toast>>
    BY <1>2 DEF DropOutside, server, mutation
  <2>2. BoardTyped' /\ Restores'
    BY <1>0, <2>1 DEF BoardTyped, Restores, view
  <2> QED
    BY <2>1, <2>2, QuietKeeps DEF SameMove
<1>3. CASE DragOver
  <2>1. PICK l \in Lists :
          /\ drag' = [drag EXCEPT !.at = l]
          /\ IF Present(card, drag.card)
             THEN /\ ApplyMoved(drag.card, drag.at, l, card[drag.card].rev + 1)
                  /\ ahead' = ahead \cup {drag.card}
                  /\ last' = None
             ELSE UNCHANGED view
    BY <1>3 DEF DragOver
  <2>2. UNCHANGED <<srv, lrev, wire, seen, known, move, record, restored, toast>>
    BY <1>3 DEF DragOver, server, mutation
  <2>3. drag \in Drag /\ drag.card \in Cards /\ drag.at \in Lists /\ drag' \in Drag
    BY <1>0, <1>3, <2>1 DEF DragOver, BoardTyped, Drag
  <2>4. CASE Present(card, drag.card)
    <3>1. card[drag.card].rev + 1 \in Nat /\ card \in Rows /\ bucket \in Buckets /\ (clean => Consistent(card, bucket))
      BY <2>3, <2>4, RowTyped DEF BoardInv, BoardTyped, Cleanness, Rows, Present
    <3>2. ApplyMoved(drag.card, drag.at, l, card[drag.card].rev + 1)
      BY <2>1, <2>4
    <3>3. /\ card' \in Rows /\ bucket' \in Buckets /\ (clean' => Consistent(card', bucket'))
          /\ \A d \in Cards : d # drag.card => card'[d] = card[d]
      BY <2>3, <3>1, <3>2, MovedKeeps
    <3>4. Agrees(card', seen', ahead')
      BY <2>1, <2>2, <2>4, <3>3 DEF BoardInv, Agrees, Present
    <3> QED
      BY <1>0, <2>1, <2>2, <2>3, <2>4, <3>3, <3>4, OvertakesKeeps DEF BoardTyped
  <2>5. CASE ~Present(card, drag.card)
    <3>1. UNCHANGED view
      BY <2>1, <2>5
    <3>2. BoardTyped' /\ Restores'
      BY <1>0, <2>2, <2>3, <3>1 DEF BoardTyped, Restores, view
    <3> QED
      BY <2>2, <3>1, <3>2, QuietKeeps DEF SameMove
  <2> QED
    BY <2>4, <2>5
<1> QED
  BY <1>1, <1>2, <1>3
-----------------------------------------------------------------------------
\* The end of a request, whatever it says: the view is left alone.
LEMMA EndsTyped ==
  ASSUME BoardInv, NEW m \in Mutations, move[m] # None, NEW rec \in Status, NEW pend, Ends(m, rec, pend)
  PROVE  /\ move' \in [Mutations -> {None} \cup Move] /\ record' \in [Mutations -> Status]
         /\ \A k \in Mutations : move'[k] # None => MoveFits(move'[k])
         /\ \A k \in Mutations : move[k] # None => SameMove(move[k], move'[k])
         /\ \A k \in Mutations : k # m => move'[k] = move[k] /\ record'[k] = record[k]
         /\ move'[m].call = "over" /\ record'[m] = rec
<1> DEFINE v == move[m]  w == [v EXCEPT !.call = "over"]
<1>1. /\ move \in [Mutations -> {None} \cup Move] /\ v \in Move /\ record \in [Mutations -> Status]
      /\ \A k \in Mutations : move[k] # None => MoveFits(move[k])
  BY DEF BoardInv, BoardTyped
<1>2. move' = [move EXCEPT ![m] = w] /\ record' = [record EXCEPT ![m] = rec]
  BY <1>1 DEF Ends
<1>3. MoveFits(v)
  BY <1>1
<1> HIDE DEF v
<1>4. /\ w \in Move /\ w.card = v.card /\ w.from = v.from /\ w.to = v.to /\ w.snap = v.snap /\ w.call = "over"
  BY <1>1 DEF Move
<1> HIDE DEF w
<1>5. MoveFits(w) /\ w # None
  BY <1>3, <1>4, RowTyped DEF MoveFits
<1>6. /\ move' \in [Mutations -> {None} \cup Move] /\ move'[m] = w
      /\ \A k \in Mutations : k # m => move'[k] = move[k]
  BY <1>1, <1>2, <1>4
<1>7. /\ record' \in [Mutations -> Status] /\ record'[m] = rec
      /\ \A k \in Mutations : k # m => record'[k] = record[k]
  BY <1>1, <1>2
<1>8. SameMove(v, w)
  BY <1>4, <1>5 DEF SameMove
<1>9. \A k \in Mutations : k # m /\ move[k] # None => SameMove(move[k], move'[k])
  BY <1>6 DEF SameMove
<1>10. \A k \in Mutations : move[k] # None => SameMove(move[k], move'[k])
  BY <1>6, <1>8, <1>9 DEF v
<1>11. \A k \in Mutations : move'[k] # None => MoveFits(move'[k])
  BY <1>1, <1>5, <1>6
<1> QED
  BY <1>4, <1>6, <1>7, <1>10, <1>11

LEMMA QuietMutationsKeep ==
  ASSUME BoardInv, NEW m \in Mutations, Serve(m) \/ Succeed(m) \/ Retry(m) \/ CollectPending(m)
  PROVE  BoardInv'
<1>0. BoardTyped /\ Restores /\ move \in [Mutations -> {None} \cup Move] /\ record \in [Mutations -> Status]
      /\ restored \in [Mutations -> Nat]
  BY DEF BoardInv, BoardTyped
<1>1. CASE Serve(m)
  <2> DEFINE v == move[m]  w == [v EXCEPT !.served = TRUE]
  <2>1. /\ v # None /\ move' = [move EXCEPT ![m] = w]
        /\ UNCHANGED <<seen, view, known, drag, record, timer, pending, restored, toast>>
    BY <1>1 DEF Serve
  <2>2. IF Accepts(v) THEN ServerMoves(v.card, v.to) ELSE UNCHANGED server
    BY <1>1 DEF Serve
  <2>3. v \in Move /\ MoveFits(v) /\ RestoreFits(v, record[m], restored[m])
    BY <1>0, <2>1 DEF BoardTyped, Restores
  <2> HIDE DEF v
  <2>4. /\ w \in Move /\ w.card = v.card /\ w.from = v.from /\ w.to = v.to /\ w.snap = v.snap /\ w.call = v.call
        /\ v.card \in Cards /\ v.to \in Lists
    BY <2>3 DEF Move
  <2> HIDE DEF w
  <2>5. MoveFits(w) /\ w # None /\ SameMove(v, w) /\ RestoreFits(w, record[m], restored[m])
    BY <2>1, <2>3, <2>4, RowTyped DEF MoveFits, SameMove, RestoreFits
  <2>6. /\ move' \in [Mutations -> {None} \cup Move] /\ move'[m] = w
        /\ \A k \in Mutations : k # m => move'[k] = move[k]
    BY <1>0, <2>1, <2>4
  <2>7. srv' \in Rows /\ lrev' \in [Lists -> Nat] /\ wire' \in Seq(Event)
    <3>1. CASE Accepts(v)
      BY <1>0, <2>2, <2>4, <3>1, ServerMovesTyped DEF Accepts
    <3>2. CASE ~Accepts(v)
      BY <1>0, <2>2, <3>2 DEF server, BoardTyped
    <3> QED
      BY <3>1, <3>2
  <2>8. \A k \in Mutations : move'[k] # None => MoveFits(move'[k])
    BY <1>0, <2>5, <2>6 DEF BoardTyped
  <2>9. BoardTyped'
    BY <1>0, <2>1, <2>6, <2>7, <2>8 DEF BoardTyped, view
  <2>10. \A k \in Mutations : RestoreFits(move'[k], record[k], restored[k])
    BY <1>0, <2>5, <2>6 DEF Restores
  <2>11. Restores'
    BY <2>1, <2>10 DEF Restores
  <2>12. \A k \in Mutations : k # m /\ move[k] # None => SameMove(move[k], move'[k])
    BY <2>6 DEF SameMove
  <2>13. \A k \in Mutations : move[k] # None => SameMove(move[k], move'[k])
    BY <2>5, <2>6, <2>12 DEF v
  <2> QED
    BY <2>1, <2>9, <2>11, <2>13, QuietKeeps
<1>2. CASE Succeed(m)
  <2> DEFINE rec == IF record[m] = "sent" THEN "acknowledged" ELSE record[m]
  <2>1. /\ move[m] # None /\ move[m].call = "open" /\ Ends(m, rec, "acked")
        /\ UNCHANGED <<srv, lrev, wire, seen, view, known, drag, restored, toast>>
    BY <1>2 DEF Succeed, server
  <2>2. RestoreFits(move[m], record[m], restored[m])
    BY <1>0 DEF Restores
  <2>3. rec \in Status /\ restored[m] = 0
    BY <1>0, <2>1, <2>2 DEF Status, RestoreFits
  <2> HIDE DEF rec
  <2>4. /\ move' \in [Mutations -> {None} \cup Move] /\ record' \in [Mutations -> Status]
        /\ \A k \in Mutations : move'[k] # None => MoveFits(move'[k])
        /\ \A k \in Mutations : move[k] # None => SameMove(move[k], move'[k])
        /\ \A k \in Mutations : k # m => move'[k] = move[k] /\ record'[k] = record[k]
        /\ move'[m].call = "over" /\ record'[m] = rec
    BY <2>1, <2>3, EndsTyped
  <2>5. BoardTyped'
    BY <1>0, <2>1, <2>4 DEF BoardTyped, view
  <2>6. ASSUME NEW k \in Mutations PROVE RestoreFits(move'[k], record'[k], restored[k])
    <3>1. CASE k = m
      <4>1. move'[k] # None
        BY <2>1, <2>4, <3>1 DEF SameMove
      <4> QED
        BY <2>3, <2>4, <3>1, <4>1 DEF RestoreFits
    <3>2. CASE k # m
      BY <1>0, <2>4, <3>2 DEF Restores
    <3> QED
      BY <3>1, <3>2
  <2>7. Restores'
    BY <2>1, <2>6 DEF Restores
  <2> QED
    BY <2>1, <2>4, <2>5, <2>7, QuietKeeps
<1>3. CASE Retry(m)
  <2>1. /\ record' = [record EXCEPT ![m] = IF record[m] = "failed" THEN "retried" ELSE record[m]]
        /\ UNCHANGED <<srv, lrev, wire, seen, view, known, drag, move, restored, toast>>
    BY <1>3 DEF Retry, server
  <2>2. record' \in [Mutations -> Status]
    BY <1>0, <2>1 DEF Status
  <2>3. BoardTyped'
    BY <1>0, <2>1, <2>2 DEF BoardTyped, view
  <2>4. ASSUME NEW k \in Mutations PROVE RestoreFits(move[k], record'[k], restored[k])
    <3>1. RestoreFits(move[k], record[k], restored[k])
      BY <1>0 DEF Restores
    <3>2. record'[k] = record[k] \/ (record[k] = "failed" /\ record'[k] = "retried")
      BY <1>0, <2>1
    <3>3. CASE record'[k] = record[k]
      BY <3>1, <3>3
    <3>4. CASE record[k] = "failed" /\ record'[k] = "retried"
      BY <3>1, <3>4 DEF RestoreFits
    <3> QED
      BY <3>2, <3>3, <3>4
  <2>5. Restores'
    BY <2>1, <2>4 DEF Restores
  <2> QED
    BY <2>1, <2>3, <2>5, QuietKeeps DEF SameMove
<1>4. CASE CollectPending(m)
  <2>1. UNCHANGED <<srv, lrev, wire, seen, view, known, drag, move, record, restored, toast>>
    BY <1>4 DEF CollectPending, server
  <2>2. BoardTyped' /\ Restores'
    BY <1>0, <2>1 DEF BoardTyped, Restores, view
  <2> QED
    BY <2>1, <2>2, QuietKeeps DEF SameMove
<1> QED
  BY <1>1, <1>2, <1>3, <1>4

\* restoreSnapshot
LEMMA RestoreKeeps ==
  ASSUME BoardInv, NEW m \in Mutations, move[m] # None, Restore(m)
  PROVE  /\ card' \in Rows /\ bucket' \in Buckets /\ (clean' => Consistent(card', bucket'))
         /\ last' = None /\ Agrees(card', seen, ahead')
<1> DEFINE v == move[m]  c == v.card
           kept == Present(card, c) /\ (v.snap.row = Absent \/ card[c].rev > v.snap.row.rev)
<1>0. /\ v \in Move /\ MoveFits(v) /\ card \in Rows /\ bucket \in Buckets
      /\ Agrees(card, seen, ahead) /\ (clean => Consistent(card, bucket))
      /\ last = m => (clean => Harmless(v, card, bucket))
  BY DEF BoardInv, BoardTyped, Cleanness
<1>1. /\ card' = IF kept THEN card ELSE IF v.snap.row = Absent THEN card ELSE [card EXCEPT ![c] = v.snap.row]
      /\ bucket' = [l \in Lists |-> IF l \in {v.from, v.to} /\ known[l] <= v.snap.revisions[l]
                                    THEN v.snap.buckets[l] ELSE bucket[l]]
      /\ ahead' = ahead \cup {c}
      /\ clean' = (clean /\ last = m /\ v.snap.row # Absent /\ v.snap.row.list = v.to)
      /\ last' = None
  BY DEF Restore
<1> HIDE DEF v
<1>2. c \in Cards /\ v.from \in Lists /\ v.to \in Lists /\ v.snap.row \in Row \cup {Absent}
      /\ \A l \in {v.from, v.to} : v.snap.buckets[l] \in SUBSET Cards
  BY <1>0 DEF Move, MoveFits, Snapshot
<1> HIDE DEF c
<1>3. card' \in Rows /\ \A d \in Cards : d # c => card'[d] = card[d]
  <2>1. CASE card' = card
    BY <1>0, <2>1
  <2>2. CASE v.snap.row # Absent /\ card' = [card EXCEPT ![c] = v.snap.row]
    BY <1>0, <1>2, <2>2 DEF Rows
  <2> QED
    BY <1>1, <2>1, <2>2
<1>4. bucket' \in Buckets
  BY <1>0, <1>1, <1>2 DEF Buckets
<1>5. ASSUME clean' PROVE Consistent(card', bucket')
  <2>1. Harmless(v, card, bucket) /\ v.snap.row # Absent /\ v.snap.row.list = v.to /\ Consistent(card, bucket)
    BY <1>0, <1>1, <1>5
  <2>2. kept /\ \A l \in {v.from, v.to} : v.snap.buckets[l] = bucket[l]
    BY <2>1 DEF Harmless, c
  <2>3. card' = card
    BY <1>1, <2>2
  <2>4. \A l \in Lists : bucket'[l] = bucket[l]
    BY <1>1, <2>2
  <2> QED
    BY <2>1, <2>3, <2>4 DEF Consistent
<1>6. Agrees(card', seen, ahead')
  BY <1>0, <1>1, <1>3 DEF Agrees, Present
<1> QED
  BY <1>1, <1>3, <1>4, <1>5, <1>6

\* A step whose end no snapshot of a move is taken at.
LEMMA FreshKeeps ==
  ASSUME BoardTyped', Restores', clean' => Consistent(card', bucket'), last' = None,
         Agrees(card', seen', ahead')
  PROVE  BoardInv'
<1>1. Cleanness'
  BY RowTyped DEF Cleanness
<1> QED
  BY <1>1 DEF BoardInv

\* onError: the request ends, and its snapshot may be restored.
LEMMA FailKeeps ==
  ASSUME BoardInv, NEW m \in Mutations, move[m] # None, move[m].call = "open", NEW rec \in Status,
         Ends(m, rec, "failed"), UNCHANGED <<server, seen, known, drag, toast>>,
         \/ Restore(m) /\ rec \in {"rolled_back", "none"}
         \/ UNCHANGED <<view, restored>>
  PROVE  BoardInv'
<1>0. BoardTyped /\ Restores /\ restored \in [Mutations -> Nat] /\ restored[m] = 0
  <2>1. RestoreFits(move[m], record[m], restored[m])
    BY DEF BoardInv, Restores
  <2> QED
    BY <2>1 DEF BoardInv, BoardTyped, RestoreFits
<1>1. /\ move' \in [Mutations -> {None} \cup Move] /\ record' \in [Mutations -> Status]
      /\ \A k \in Mutations : move'[k] # None => MoveFits(move'[k])
      /\ \A k \in Mutations : move[k] # None => SameMove(move[k], move'[k])
      /\ \A k \in Mutations : k # m => move'[k] = move[k] /\ record'[k] = record[k]
      /\ move'[m].call = "over" /\ record'[m] = rec
  BY EndsTyped
<1>2. move'[m] # None
  BY <1>1 DEF SameMove
<1>3. CASE Restore(m) /\ rec \in {"rolled_back", "none"}
  <2>1. /\ card' \in Rows /\ bucket' \in Buckets /\ (clean' => Consistent(card', bucket'))
        /\ last' = None /\ Agrees(card', seen, ahead')
    BY <1>3, RestoreKeeps
  <2>2. restored' = [restored EXCEPT ![m] = restored[m] + 1]
    BY <1>3 DEF Restore
  <2>3. restored' \in [Mutations -> Nat] /\ restored'[m] = 1 /\ \A k \in Mutations : k # m => restored'[k] = restored[k]
    BY <1>0, <2>2
  <2>4. BoardTyped'
    BY <1>0, <1>1, <2>1, <2>3 DEF BoardTyped, server
  <2>5. ASSUME NEW k \in Mutations PROVE RestoreFits(move'[k], record'[k], restored'[k])
    <3>1. CASE k = m
      BY <1>1, <1>2, <1>3, <2>3, <3>1 DEF RestoreFits
    <3>2. CASE k # m
      BY <1>0, <1>1, <2>3, <3>2 DEF Restores
    <3> QED
      BY <3>1, <3>2
  <2>6. Restores'
    BY <2>5 DEF Restores
  <2> QED
    BY <2>1, <2>4, <2>6, FreshKeeps
<1>4. CASE UNCHANGED <<view, restored>>
  <2>1. BoardTyped'
    BY <1>0, <1>1, <1>4 DEF BoardTyped, server, view
  <2>2. ASSUME NEW k \in Mutations PROVE RestoreFits(move'[k], record'[k], restored[k])
    <3>1. CASE k = m
      BY <1>0, <1>1, <1>2, <3>1 DEF RestoreFits
    <3>2. CASE k # m
      BY <1>0, <1>1, <3>2 DEF Restores
    <3> QED
      BY <3>1, <3>2
  <2>3. Restores'
    BY <1>4, <2>2 DEF Restores
  <2> QED
    BY <1>1, <1>4, <2>1, <2>3, QuietKeeps
<1> QED
  BY <1>3, <1>4

LEMMA FailuresKeep ==
  ASSUME BoardInv, NEW m \in Mutations, FailRetryable(m) \/ FailForGood(m)
  PROVE  BoardInv'
<1>1. move[m] # None /\ move[m].call = "open" /\ UNCHANGED <<server, seen, known, drag, toast>>
  BY DEF FailRetryable, FailForGood
<1>2. record[m] \in {"none", "sent"}
  BY <1>1 DEF BoardInv, Restores, RestoreFits
<1>3. CASE FailRetryable(m)
  <2> DEFINE rec == IF record[m] = "sent" THEN "failed" ELSE record[m]
  <2>1. /\ Ends(m, rec, "failed")
        /\ IF record[m] = "none" THEN Restore(m) ELSE UNCHANGED <<view, restored>>
    BY <1>3 DEF FailRetryable, RollsBackHere
  <2>2. rec \in Status /\ (record[m] = "none" => rec = "none")
    BY <1>2 DEF Status
  <2> HIDE DEF rec
  <2> QED
    BY <1>1, <2>1, <2>2, FailKeeps
<1>4. CASE FailForGood(m)
  <2> DEFINE rec == IF record[m] = "sent" THEN "rolled_back" ELSE record[m]
  <2>1. Ends(m, rec, "failed") /\ Restore(m)
    BY <1>4 DEF FailForGood
  <2>2. rec \in Status /\ rec \in {"rolled_back", "none"}
    BY <1>2 DEF Status
  <2> HIDE DEF rec
  <2> QED
    BY <1>1, <2>1, <2>2, FailKeeps
<1> QED
  BY <1>3, <1>4
-----------------------------------------------------------------------------
LEMMA DeleteShownKeeps ==
  ASSUME BoardInv, DeleteShown
  PROVE  BoardInv'
<1>1. PICK c \in {d \in Cards : Present(card, d)} :
        /\ toast' = [card |-> c, call |-> "none", served |-> FALSE,
                     cards |-> card, buckets |-> bucket, revisions |-> known]
        /\ ApplyDeleted(c, card[c].rev + 1)
        /\ ahead' = ahead \cup {c}
  BY DEF DeleteShown
<1>2. /\ last' = Toast /\ UNCHANGED <<srv, lrev, wire, seen, known, drag, move, record, restored>>
  BY DEF DeleteShown, server, mutation
<1>3. /\ card \in Rows /\ bucket \in Buckets /\ (clean => Consistent(card, bucket))
      /\ Agrees(card, seen, ahead) /\ c \in Cards /\ BoardTyped /\ Restores
  BY DEF BoardInv, BoardTyped, Cleanness
<1>4. card[c].rev + 1 \in Nat
  BY <1>1, <1>3, RowTyped DEF Rows, Present
<1>5. /\ card' \in Rows /\ bucket' \in Buckets /\ (clean' <=> clean)
      /\ (clean' => Consistent(card', bucket'))
      /\ \A d \in Cards : d # c => card'[d] = card[d]
  BY <1>1, <1>3, <1>4, DeletedKeeps
<1>6. toast' \in Undoable /\ toast'.cards = card /\ toast'.buckets = bucket
  BY <1>1, <1>3 DEF Undoable, BoardTyped
<1>7. BoardTyped'
  BY <1>2, <1>3, <1>5, <1>6 DEF BoardTyped
<1>8. Restores'
  BY <1>2, <1>3 DEF Restores
<1>9. Cleanness'
  BY <1>2, <1>3, <1>5, <1>6, RowTyped DEF Cleanness
<1>10. Agrees(card', seen', ahead')
  BY <1>1, <1>2, <1>3, <1>5 DEF Agrees, Present
<1> QED
  BY <1>7, <1>8, <1>9, <1>10 DEF BoardInv

LEMMA UndoKeeps ==
  ASSUME BoardInv, Undo \/ DeleteLost
  PROVE  BoardInv'
<1>1. /\ toast # None /\ RestoreAll
      /\ UNCHANGED <<srv, lrev, wire, seen, drag, move, record, restored>>
  BY DEF Undo, DeleteLost, server, mutation
<1>2. /\ card' = toast.cards /\ bucket' = toast.buckets /\ known' = toast.revisions
      /\ ahead' = {c \in Cards : \/ Present(toast.cards, c) # Present(seen, c)
                                 \/ Present(seen, c) /\ toast.cards[c].list # seen[c].list}
      /\ clean' = (clean /\ last = Toast) /\ last' = None /\ toast' = None
  BY <1>1 DEF RestoreAll
<1>3. /\ toast.cards \in Rows /\ toast.buckets \in Buckets /\ toast.revisions \in [Lists -> Nat]
      /\ BoardTyped /\ Restores
  BY <1>1 DEF BoardInv, BoardTyped, Undoable
<1>4. BoardTyped' /\ Restores'
  BY <1>1, <1>2, <1>3 DEF BoardTyped, Restores
<1>5. clean' => Consistent(card', bucket')
  BY <1>1, <1>2 DEF BoardInv, Cleanness
<1>6. ASSUME NEW c \in Cards, c \notin ahead'
      PROVE  (Present(card', c) <=> Present(seen, c)) /\ (Present(card', c) => card'[c].list = seen[c].list)
  <2>1. (Present(toast.cards, c) <=> Present(seen, c)) /\ (Present(seen, c) => toast.cards[c].list = seen[c].list)
    BY <1>2, <1>6 DEF Present
  <2> QED
    BY <1>2, <2>1
<1>7. Agrees(card', seen', ahead')
  BY <1>1, <1>6 DEF Agrees
<1> QED
  BY <1>2, <1>4, <1>5, <1>7, FreshKeeps

LEMMA ToastKeeps ==
  ASSUME BoardInv, AutoClose \/ DeleteServed \/ DeleteAnswered
  PROVE  BoardInv'
<1>0. BoardTyped /\ Restores
  BY DEF BoardInv
<1>1. toast # None /\ toast \in Undoable /\ UNCHANGED <<seen, view, known, drag, move, record, restored>>
  BY <1>0 DEF AutoClose, DeleteServed, DeleteAnswered, BoardTyped, mutation
<1>2. /\ toast' \in {None} \cup Undoable
      /\ toast' # None => toast'.cards = toast.cards /\ toast'.buckets = toast.buckets
  <2>1. CASE AutoClose
    <3>1. toast' = [toast EXCEPT !.call = "open"]
      BY <2>1 DEF AutoClose
    <3> QED
      BY <1>1, <3>1 DEF Undoable
  <2>2. CASE DeleteServed
    <3>1. toast' = [toast EXCEPT !.served = TRUE]
      BY <2>2 DEF DeleteServed
    <3> QED
      BY <1>1, <3>1 DEF Undoable
  <2>3. CASE DeleteAnswered
    BY <2>3 DEF DeleteAnswered
  <2> QED
    BY <2>1, <2>2, <2>3
<1>3. srv' \in Rows /\ lrev' \in [Lists -> Nat] /\ wire' \in Seq(Event)
  <2>1. CASE UNCHANGED server
    BY <1>0, <2>1 DEF server, BoardTyped
  <2>2. CASE Present(srv, toast.card) /\ ServerDeletes(toast.card)
    <3>1. toast.card \in Cards
      BY <1>1 DEF Undoable
    <3> QED
      BY <1>0, <2>2, <3>1, ServerDeletesTyped
  <2> QED
    BY <2>1, <2>2 DEF AutoClose, DeleteServed, DeleteAnswered
<1>4. BoardTyped' /\ Restores'
  BY <1>0, <1>1, <1>2, <1>3 DEF BoardTyped, Restores, view
<1> QED
  BY <1>1, <1>2, <1>4, QuietKeeps DEF SameMove

LEMMA LoadKeeps ==
  ASSUME BoardInv, Resync \/ Remount
  PROVE  BoardInv'
<1>0. BoardTyped /\ Restores
  BY DEF BoardInv
<1>1. /\ card' = srv /\ seen' = srv /\ bucket' = BucketsOf(srv) /\ known' = lrev /\ wire' = <<>>
      /\ last' = None /\ ahead' = {} /\ clean'
      /\ UNCHANGED <<srv, lrev, move, restored, toast>>
      /\ (drag' = drag \/ drag' = None)
      /\ (record' = record \/ record' = [m \in Mutations |-> "none"])
  BY DEF Resync, Remount, Load
<1>2. srv \in Rows /\ BucketsOf(srv) \in Buckets /\ Consistent(srv, BucketsOf(srv))
  BY <1>0, BucketsTyped DEF BoardTyped
<1>3. record' \in [Mutations -> Status] /\ \A m \in Mutations : record'[m] = record[m] \/ record'[m] = "none"
  BY <1>0, <1>1 DEF BoardTyped, Status
<1>4. BoardTyped'
  BY <1>0, <1>1, <1>2, <1>3 DEF BoardTyped
<1>5. ASSUME NEW m \in Mutations PROVE RestoreFits(move[m], record'[m], restored[m])
  BY <1>0, <1>3 DEF Restores, RestoreFits
<1>6. Restores'
  BY <1>1, <1>5 DEF Restores
<1>7. Agrees(card', seen', ahead')
  BY <1>1 DEF Agrees
<1>8. clean' => Consistent(card', bucket')
  BY <1>1, <1>2
<1> QED
  BY <1>1, <1>4, <1>6, <1>7, <1>8, FreshKeeps
-----------------------------------------------------------------------------
LEMMA BoardInitial ==
  ASSUME Init
  PROVE  BoardInv
<1>1. /\ seen = srv /\ card = srv /\ bucket = BucketsOf(srv) /\ wire = <<>> /\ drag = None /\ toast = None
      /\ lrev = [l \in Lists |-> 0] /\ known = lrev
      /\ move = [m \in Mutations |-> None] /\ record = [m \in Mutations |-> "none"]
      /\ restored = [m \in Mutations |-> 0] /\ last = None
  BY DEF Init
<1>2. srv \in Rows
  <2>1. PICK f \in [Cards -> Lists \cup {Absent}] :
          srv = [c \in Cards |-> IF f[c] = Absent THEN Absent ELSE [list |-> f[c], rev |-> 1]]
    BY DEF Init
  <2>2. \A c \in Cards : srv[c] \in Row \cup {Absent}
    BY <2>1, RowTyped
  <2>3. srv = [c \in Cards |-> srv[c]]
    BY <2>1
  <2> QED
    BY <2>2, <2>3 DEF Rows
<1>3. BucketsOf(srv) \in Buckets /\ Consistent(srv, BucketsOf(srv))
  BY <1>2, BucketsTyped
<1>4. BoardTyped
  BY <1>1, <1>2, <1>3 DEF BoardTyped, Status
<1>5. Restores
  BY <1>1 DEF Restores, RestoreFits
<1>6. Cleanness
  BY <1>1, <1>3, RowTyped DEF Cleanness
<1>7. Agrees(card, seen, ahead)
  BY <1>1 DEF Agrees
<1> QED
  BY <1>4, <1>5, <1>6, <1>7 DEF BoardInv

LEMMA BoardStep ==
  ASSUME BoardInv, [Next]_vars
  PROVE  BoardInv'
<1>1. ASSUME NEW m \in Mutations,
             \/ Drop(m) \/ Serve(m) \/ Succeed(m) \/ FailRetryable(m) \/ FailForGood(m)
             \/ Retry(m) \/ CollectPending(m)
      PROVE  BoardInv'
  BY <1>1, DropKeeps, QuietMutationsKeep, FailuresKeep
<1>2. CASE UNCHANGED vars
  <2>1. UNCHANGED <<srv, lrev, wire, seen, view, known, drag, move, record, restored, toast>>
    BY <1>2 DEF vars, server, mutation
  <2>2. BoardTyped' /\ Restores'
    BY <2>1 DEF BoardInv, BoardTyped, Restores, view
  <2> QED
    BY <2>1, <2>2, QuietKeeps DEF SameMove
<1> QED
  BY <1>1, <1>2, RemoteChangeKeeps, DeliverKeeps, DragKeeps, DeleteShownKeeps, UndoKeeps, ToastKeeps,
     LoadKeeps DEF Next

\* Rows, buckets, snapshots and mutations fit together, whatever the user drags
\* and deletes and whatever the server and the other users do meanwhile.
THEOREM BoardInvariant == Spec => []BoardInv
<1>1. Init => BoardInv
  BY BoardInitial
<1>2. BoardInv /\ [Next]_vars => BoardInv'
  BY BoardStep
<1> QED
  BY <1>1, <1>2, PTL DEF Spec

\* A card that nothing touched since its last event is shown where the events
\* say (applyCardMoved, applyCardCreated, applyCardDeleted).
THEOREM EventsFollowed == Spec => []ViewFollowsEvents
<1>1. BoardInv => ViewFollowsEvents
  BY DEF BoardInv, Agrees, ViewFollowsEvents
<1> QED
  BY <1>1, BoardInvariant, PTL

\* The critical assertions of boardInvariants.ts hold until a change finds its
\* card in a list it does not name, or a snapshot is restored over later changes.
THEOREM BucketsMatchRows == Spec => []CleanBoardConsistent
<1>1. BoardInv => CleanBoardConsistent
  BY DEF BoardInv, Cleanness, Consistent, CleanBoardConsistent
<1> QED
  BY <1>1, BoardInvariant, PTL

\* A snapshot is restored at most once, and never for a mutation acknowledged or
\* to be retried (the two ways back of useOptimisticMutation).
THEOREM SnapshotRestoredOnce == Spec => []RestoredOnce
<1>1. BoardInv => RestoredOnce
  BY DEF BoardInv, Restores, RestoreFits, RestoredOnce
<1> QED
  BY <1>1, BoardInvariant, PTL

-----------------------------------------------------------------------------
(* The title of a card.                                                      *)

\* The calls of a card that have not been applied, in a list of calls.
WaitingIn(cs, c) == {i \in DOMAIN cs : cs[i].card = c /\ ~cs[i].applied}

First(W, i) == i \in W /\ \A j \in W : i <= j
Last(W, i) == i \in W /\ \A j \in W : j <= i
Adjacent(W, i, k) == i \in W /\ k \in W /\ i < k /\ \A j \in W : j <= i \/ k <= j

\* The waiting calls of a card lead from the title t of the server to the title s
\* of the store: each was made when the store showed what the one before it sends.
Chained(cs, c, t, s) ==
    LET W == WaitingIn(cs, c) IN
    /\ W = {} => s = t
    /\ \A i \in W : First(W, i) => cs[i].old = t
    /\ \A i \in W : Last(W, i) => cs[i].title = s
    /\ \A i, k \in W : Adjacent(W, i, k) => cs[k].old = cs[i].title

\* A title, shown and sent: a card that is gone has nothing waiting.
Fits(cs, c, t, s) == Chained(cs, c, t, s) /\ (t = Gone => WaitingIn(cs, c) = {})

\* Two lists of the same calls, heard or not, blocking or not.
SameCalls(cs, ds) ==
    /\ ds \in Seq(T!Call) /\ Len(ds) = Len(cs)
    /\ \A i \in 1..Len(cs) : /\ ds[i].card = cs[i].card /\ ds[i].of = cs[i].of
                             /\ ds[i].title = cs[i].title /\ ds[i].old = cs[i].old
                             /\ ds[i].applied = cs[i].applied

SentToOwn(cs) == \A i \in DOMAIN cs : cs[i].of = cs[i].card

-----------------------------------------------------------------------------
LEMMA WaitingInRange ==
  ASSUME NEW cs \in Seq(T!Call), NEW c
  PROVE  /\ WaitingIn(cs, c) \subseteq 1..Len(cs) /\ DOMAIN cs = 1..Len(cs) /\ Len(cs) \in Nat
         /\ \A i \in 1..Len(cs) : i \in WaitingIn(cs, c) <=> cs[i].card = c /\ ~cs[i].applied
  BY LenProperties DEF WaitingIn

\* A bounded, non-empty set of numbers has a greatest one.
LEMMA Greatest ==
  ASSUME NEW n \in Nat, NEW W \in SUBSET (1..n), W # {}
  PROVE  \E i \in W : Last(W, i)
<1> DEFINE D == {n - i : i \in W}
<1> DEFINE R == OpToRel(<, Nat)
<1>1. IsWellFoundedOn(R, Nat)
  BY NatLessThanWellFounded
<1>2. D \in SUBSET Nat /\ D # {}
  <2>1. ASSUME NEW i \in W PROVE n - i \in Nat
    <3>1. i \in 1..n
      OBVIOUS
    <3> QED
      BY <3>1
  <2>2. PICK i \in W : TRUE
    OBVIOUS
  <2> QED
    BY <2>1, <2>2
<1>3. PICK d \in D : \A e \in D : <<e, d>> \notin R
  <2> HIDE DEF R, D
  <2> QED BY <1>1, <1>2, WFMin
<1>4. \A e \in D : ~(e < d)
  BY <1>2, <1>3 DEF OpToRel
<1>5. PICK i \in W : d = n - i
  OBVIOUS
<1>6. \A j \in W : n - j \in D
  OBVIOUS
<1>7. \A j \in W : j <= i
  <2> SUFFICES ASSUME NEW j \in W PROVE j <= i
    OBVIOUS
  <2>1. ~(n - j < n - i) /\ i \in 1..n /\ j \in 1..n
    BY <1>4, <1>5, <1>6
  <2> QED
    BY <2>1
<1> QED
  BY <1>7 DEF Last

LEMMA SameWaiting ==
  ASSUME NEW cs \in Seq(T!Call), NEW ds, SameCalls(cs, ds), NEW c
  PROVE  WaitingIn(ds, c) = WaitingIn(cs, c) /\ (SentToOwn(cs) => SentToOwn(ds))
<1>1. Len(ds) = Len(cs) /\ ds \in Seq(T!Call) /\ DOMAIN cs = 1..Len(cs) /\ DOMAIN ds = 1..Len(cs)
  BY LenProperties DEF SameCalls
<1> QED
  BY <1>1 DEF SameCalls, WaitingIn, SentToOwn

LEMMA SameFits ==
  ASSUME NEW cs \in Seq(T!Call), NEW ds, SameCalls(cs, ds), NEW c, NEW t, NEW s, Fits(cs, c, t, s)
  PROVE  Fits(ds, c, t, s)
<1>1. WaitingIn(ds, c) = WaitingIn(cs, c) /\ WaitingIn(cs, c) \subseteq 1..Len(cs)
  BY SameWaiting, WaitingInRange
<1>2. \A i \in WaitingIn(cs, c) : ds[i].title = cs[i].title /\ ds[i].old = cs[i].old
  BY <1>1 DEF SameCalls
<1> QED
  BY <1>1, <1>2 DEF Fits, Chained

\* A call made while its card shows s.
LEMMA AppendFits ==
  ASSUME NEW cs \in Seq(T!Call), NEW x \in T!Call, ~x.applied, NEW c, NEW t, NEW s, Fits(cs, c, t, s)
  PROVE  /\ x.card # c => Fits(Append(cs, x), c, t, s)
         /\ x.card = c /\ x.old = s /\ t # Gone => Fits(Append(cs, x), c, t, x.title)
<1> DEFINE n == Len(cs)  ds == Append(cs, x)  W == WaitingIn(cs, c)  V == WaitingIn(ds, c)
<1>1. /\ ds \in Seq(T!Call) /\ Len(ds) = n + 1 /\ n \in Nat
      /\ \A i \in 1..n : ds[i] = cs[i]
      /\ ds[n + 1] = x
  BY AppendProperties, LenProperties
<1>2. /\ W \subseteq 1..n /\ \A i \in 1..n : i \in W <=> cs[i].card = c /\ ~cs[i].applied
  BY WaitingInRange
<1> HIDE DEF ds
<1>9. /\ V \subseteq 1..(n + 1)
      /\ \A i \in 1..(n + 1) : i \in V <=> ds[i].card = c /\ ~ds[i].applied
  BY <1>1, WaitingInRange
<1> HIDE DEF W, V
<1>10. \A i \in V : i \in W \/ i = n + 1
  BY <1>1, <1>2, <1>9
<1>11. \A i \in W : i \in V /\ i \in 1..n /\ i <= n /\ ds[i] = cs[i]
  BY <1>1, <1>2, <1>9
<1>12. n + 1 \in V <=> x.card = c
  BY <1>1, <1>9
<1>3. ASSUME x.card # c PROVE Fits(ds, c, t, s)
  <2>1. V = W /\ \A i \in W : ds[i] = cs[i]
    BY <1>3, <1>10, <1>11, <1>12
  <2> QED
    BY <2>1 DEF Fits, Chained, V, W
<1>4. ASSUME x.card = c, x.old = s, t # Gone PROVE Fits(ds, c, t, x.title)
  <2>1. V = W \cup {n + 1} /\ \A i \in W : i <= n /\ i \in 1..n /\ ds[i] = cs[i]
    BY <1>4, <1>10, <1>11, <1>12
  <2>2. \A i \in V : First(V, i) => ds[i].old = t
    <3> SUFFICES ASSUME NEW i \in V, First(V, i) PROVE ds[i].old = t
      OBVIOUS
    <3>1. CASE i \in W
      BY <2>1, <3>1 DEF First, Fits, Chained, W
    <3>2. CASE i = n + 1
      <4>1. W = {}
        BY <1>1, <2>1, <3>2 DEF First
      <4> QED
        BY <1>1, <1>4, <3>2, <4>1 DEF Fits, Chained, W
    <3> QED
      BY <2>1, <3>1, <3>2
  <2>3. \A i \in V : Last(V, i) => ds[i].title = x.title
    BY <1>1, <2>1 DEF Last
  <2>4. \A i, k \in V : Adjacent(V, i, k) => ds[k].old = ds[i].title
    <3> SUFFICES ASSUME NEW i \in V, NEW k \in V, Adjacent(V, i, k) PROVE ds[k].old = ds[i].title
      OBVIOUS
    <3>1. i \in W
      BY <1>1, <2>1 DEF Adjacent
    <3>2. CASE k \in W
      <4>1. Adjacent(W, i, k)
        BY <2>1, <3>1, <3>2 DEF Adjacent
      <4> QED
        BY <2>1, <3>1, <3>2, <4>1 DEF Fits, Chained, W
    <3>3. CASE k = n + 1
      <4>1. Last(W, i)
        BY <1>1, <2>1, <3>1, <3>3 DEF Adjacent, Last
      <4> QED
        BY <1>1, <1>4, <2>1, <3>1, <3>3, <4>1 DEF Fits, Chained, W
    <3> QED
      BY <2>1, <3>2, <3>3
  <2> QED
    BY <1>4, <2>1, <2>2, <2>3, <2>4 DEF Fits, Chained, V
<1> QED
  BY <1>3, <1>4 DEF ds

Applied(cs, i) == [cs EXCEPT ![i].applied = TRUE]

\* A call that has been applied is still of the same card and title.
LEMMA AppliedTyped ==
  ASSUME NEW cs \in Seq(T!Call), NEW i \in 1..Len(cs), NEW ds, ds = Applied(cs, i)
  PROVE  /\ ds \in Seq(T!Call) /\ Len(ds) = Len(cs) /\ (SentToOwn(cs) => SentToOwn(ds))
         /\ \A j \in 1..Len(cs) : /\ ds[j].card = cs[j].card /\ ds[j].title = cs[j].title
                                  /\ ds[j].old = cs[j].old
                                  /\ ds[j].applied <=> (j = i \/ cs[j].applied)
<1> DEFINE n == Len(cs)  x == [cs[i] EXCEPT !.applied = TRUE]
<1>1. cs[i] \in T!Call /\ DOMAIN cs = 1..n /\ n \in Nat
  BY ElementOfSeq, LenProperties
<1>2. /\ x \in T!Call /\ x.applied /\ x.card = cs[i].card /\ x.of = cs[i].of
      /\ x.title = cs[i].title /\ x.old = cs[i].old
  BY <1>1 DEF T!Call
<1>3. ds = [cs EXCEPT ![i] = x]
  BY DEF Applied
<1> HIDE DEF x
<1>4. /\ ds \in Seq(T!Call) /\ Len(ds) = n
      /\ \A j \in 1..n : ds[j] = IF j = i THEN x ELSE cs[j]
  <2>1. /\ [cs EXCEPT ![i] = x] \in Seq(T!Call) /\ Len([cs EXCEPT ![i] = x]) = Len(cs)
        /\ \A j \in 1..Len(cs) : [cs EXCEPT ![i] = x][j] = IF j = i THEN x ELSE cs[j]
    BY <1>2, ExceptSeq
  <2> QED
    BY <1>3, <2>1
<1>5. DOMAIN ds = 1..n
  BY <1>4, LenProperties
<1>6. SentToOwn(cs) => SentToOwn(ds)
  BY <1>1, <1>2, <1>4, <1>5 DEF SentToOwn
<1> QED
  BY <1>2, <1>4, <1>6

\* The first waiting call of a card is applied.
LEMMA ApplyFits ==
  ASSUME NEW cs \in Seq(T!Call), NEW i \in 1..Len(cs), ~cs[i].applied, NEW c, NEW t, NEW s, Fits(cs, c, t, s),
         NEW ds, ds = Applied(cs, i)
  PROVE  /\ cs[i].card # c => Fits(ds, c, t, s)
         /\ cs[i].card = c /\ First(WaitingIn(cs, c), i) => Fits(ds, c, cs[i].title, s)
<1> DEFINE n == Len(cs)  W == WaitingIn(cs, c)  V == WaitingIn(ds, c)
<1>1. cs[i] \in T!Call /\ n \in Nat
  BY ElementOfSeq, LenProperties
<1>4. /\ ds \in Seq(T!Call) /\ Len(ds) = n
      /\ \A j \in 1..n : /\ ds[j].card = cs[j].card /\ ds[j].title = cs[j].title
                         /\ ds[j].old = cs[j].old
                         /\ ds[j].applied <=> (j = i \/ cs[j].applied)
  BY AppliedTyped
<1>5. /\ W \subseteq 1..n /\ V \subseteq 1..n /\ V = W \ {i}
      /\ i \in W <=> cs[i].card = c
  <2>1. /\ W \subseteq 1..n /\ V \subseteq 1..n
        /\ \A j \in 1..n : j \in W <=> cs[j].card = c /\ ~cs[j].applied
        /\ \A j \in 1..n : j \in V <=> ds[j].card = c /\ ~ds[j].applied
    BY <1>4, WaitingInRange
  <2> HIDE DEF W, V
  <2>2. \A j \in 1..n : j \in V <=> j \in W /\ j # i
    BY <1>4, <2>1
  <2>3. i \in W <=> cs[i].card = c
    BY <2>1
  <2> QED
    BY <2>1, <2>2, <2>3
<1>6. \A j \in W : ds[j].old = cs[j].old /\ ds[j].title = cs[j].title
  BY <1>4, <1>5
<1> HIDE DEF W, V
<1>8. ASSUME cs[i].card # c PROVE Fits(ds, c, t, s)
  <2>1. V = W
    BY <1>5, <1>8
  <2> QED
    BY <1>6, <2>1 DEF Fits, Chained, V, W
<1>9. ASSUME cs[i].card = c, First(W, i) PROVE Fits(ds, c, cs[i].title, s)
  <2>1. i \in W /\ t # Gone /\ \A j \in W : i <= j /\ j \in Int
    BY <1>5, <1>9 DEF First, Fits, W
  <2>2. V = {} => s = cs[i].title
    <3>1. V = {} => Last(W, i)
      BY <1>5, <2>1 DEF Last
    <3> QED
      BY <2>1, <3>1 DEF Fits, Chained, W
  <2>3. \A k \in V : First(V, k) => ds[k].old = cs[i].title
    <3> SUFFICES ASSUME NEW k \in V, First(V, k) PROVE ds[k].old = cs[i].title
      OBVIOUS
    <3>1. Adjacent(W, i, k)
      BY <1>5, <2>1 DEF First, Adjacent
    <3> QED
      BY <1>5, <1>6, <2>1, <3>1 DEF Fits, Chained, W
  <2>4. \A k \in V : Last(V, k) => ds[k].title = s
    <3> SUFFICES ASSUME NEW k \in V, Last(V, k) PROVE ds[k].title = s
      OBVIOUS
    <3>1. Last(W, k)
      BY <1>5, <2>1 DEF Last
    <3> QED
      BY <1>5, <1>6, <3>1 DEF Fits, Chained, W
  <2>5. \A j, k \in V : Adjacent(V, j, k) => ds[k].old = ds[j].title
    <3> SUFFICES ASSUME NEW j \in V, NEW k \in V, Adjacent(V, j, k) PROVE ds[k].old = ds[j].title
      OBVIOUS
    <3>1. Adjacent(W, j, k)
      BY <1>5, <2>1 DEF Adjacent
    <3> QED
      BY <1>5, <1>6, <3>1 DEF Fits, Chained, W
  <2>6. cs[i].title # Gone
    BY <1>1, EditorsAssumption DEF T!Call, T!EditorsAssumption
  <2> QED
    BY <2>2, <2>3, <2>4, <2>5, <2>6 DEF Fits, Chained, V
<1> QED
  BY <1>8, <1>9 DEF W

\* A call that has been answered leaves the list.
LEMMA CallRemoved ==
  ASSUME NEW cs \in Seq(T!Call), NEW i \in 1..Len(cs)
  PROVE  LET ds == SubSeq(cs, 1, i - 1) \o SubSeq(cs, i + 1, Len(cs)) IN
         /\ ds \in Seq(T!Call) /\ Len(ds) = Len(cs) - 1 /\ DOMAIN ds = 1..(Len(cs) - 1)
         /\ \A j \in 1..(Len(cs) - 1) : ds[j] = IF j < i THEN cs[j] ELSE cs[j + 1]
         /\ SentToOwn(cs) => SentToOwn(ds)
<1> DEFINE n == Len(cs)  a == SubSeq(cs, 1, i - 1)  b == SubSeq(cs, i + 1, n)
<1>1. n \in Nat /\ DOMAIN cs = 1..n /\ \A j \in 1..n : cs[j] \in T!Call
  BY LenProperties, ElementOfSeq
<1>2. /\ a \in Seq(T!Call) /\ Len(a) = i - 1 /\ \A j \in 1..(i - 1) : a[j] = cs[j]
  <2>1. 1 \in Int /\ i - 1 \in Int /\ \A j \in 1..(i - 1) : cs[j] \in T!Call
    BY <1>1
  <2>2. /\ a \in Seq(T!Call) /\ Len(a) = IF 1 <= i - 1 THEN i - 1 - 1 + 1 ELSE 0
        /\ \A j \in 1..(i - 1 - 1 + 1) : a[j] = cs[1 + j - 1]
    BY <2>1, SubSeqProperties
  <2> QED
    BY <1>1, <2>2
<1>3. /\ b \in Seq(T!Call) /\ Len(b) = n - i /\ \A j \in 1..(n - i) : b[j] = cs[i + j]
  <2>1. i + 1 \in Int /\ n \in Int /\ \A j \in (i + 1)..n : cs[j] \in T!Call
    BY <1>1
  <2>2. /\ b \in Seq(T!Call) /\ Len(b) = IF i + 1 <= n THEN n - (i + 1) + 1 ELSE 0
        /\ \A j \in 1..(n - (i + 1) + 1) : b[j] = cs[i + 1 + j - 1]
    BY <2>1, SubSeqProperties
  <2>3. Len(b) = n - i
    <3>1. n \in Nat /\ i \in 1..n
      BY <1>1
    <3>2. Len(b) = IF i + 1 <= n THEN n - (i + 1) + 1 ELSE 0
      BY <2>2
    <3> HIDE DEF n, b
    <3> QED
      BY <3>1, <3>2
  <2>4. ASSUME NEW j \in 1..(n - i) PROVE b[j] = cs[i + j]
    <3>1. j \in 1..(n - (i + 1) + 1) /\ i + 1 + j - 1 = i + j
      BY <1>1
    <3> QED
      BY <2>2, <3>1
  <2> QED
    BY <2>2, <2>3, <2>4
<1> HIDE DEF a, b
<1> DEFINE ds == a \o b
<1>4. /\ ds \in Seq(T!Call) /\ Len(ds) = i - 1 + (n - i)
      /\ \A j \in 1..(i - 1 + (n - i)) : ds[j] = IF j <= i - 1 THEN a[j] ELSE b[j - (i - 1)]
  <2>1. /\ a \o b \in Seq(T!Call) /\ Len(a \o b) = Len(a) + Len(b)
        /\ \A j \in 1..(Len(a) + Len(b)) : (a \o b)[j] = IF j <= Len(a) THEN a[j] ELSE b[j - Len(a)]
    BY <1>2, <1>3, ConcatProperties
  <2> QED
    BY <1>2, <1>3, <2>1
<1> HIDE DEF ds
<1>5. Len(ds) = n - 1 /\ DOMAIN ds = 1..(n - 1)
  BY <1>1, <1>4, LenProperties
<1>6. ASSUME NEW j \in 1..(n - 1) PROVE ds[j] = IF j < i THEN cs[j] ELSE cs[j + 1]
  <2>1. j \in 1..(i - 1 + (n - i)) /\ (j <= i - 1 <=> j < i)
    BY <1>1
  <2>2. CASE j < i
    BY <1>1, <1>2, <1>4, <2>1, <2>2
  <2>3. CASE ~(j < i)
    <3>1. j - (i - 1) \in 1..(n - i) /\ i + (j - (i - 1)) = j + 1
      BY <1>1, <2>3
    <3> QED
      BY <1>3, <1>4, <2>1, <2>3, <3>1
  <2> QED
    BY <2>2, <2>3
<1>7. SentToOwn(cs) => SentToOwn(ds)
  BY <1>1, <1>5, <1>6 DEF SentToOwn
<1> QED
  BY <1>4, <1>5, <1>6, <1>7 DEF ds, a, b

LEMMA RemoveFits ==
  ASSUME NEW cs \in Seq(T!Call), NEW i \in 1..Len(cs), NEW c, NEW t, NEW s, Fits(cs, c, t, s),
         NEW ds, ds = SubSeq(cs, 1, i - 1) \o SubSeq(cs, i + 1, Len(cs))
  PROVE  i \notin WaitingIn(cs, c) => Fits(ds, c, t, s)
<1> DEFINE n == Len(cs)  W == WaitingIn(cs, c)  V == WaitingIn(ds, c)
           up(j) == IF j < i THEN j ELSE j + 1
           down(k) == IF k < i THEN k ELSE k - 1
<1>1. /\ n \in Nat /\ ds \in Seq(T!Call) /\ Len(ds) = n - 1
      /\ \A j \in 1..(n - 1) : ds[j] = cs[up(j)] /\ up(j) \in 1..n /\ up(j) # i
  <2>1. /\ n \in Nat /\ ds \in Seq(T!Call) /\ Len(ds) = n - 1
        /\ \A j \in 1..(n - 1) : ds[j] = IF j < i THEN cs[j] ELSE cs[j + 1]
    BY LenProperties, CallRemoved
  <2>2. \A j \in 1..(n - 1) : up(j) \in 1..n /\ up(j) # i
    BY <2>1
  <2> QED
    BY <2>1, <2>2
<1>2. /\ W \subseteq 1..n /\ \A k \in 1..n : k \in W <=> cs[k].card = c /\ ~cs[k].applied
  BY WaitingInRange
<1>3. /\ V \subseteq 1..(n - 1) /\ \A j \in 1..(n - 1) : j \in V <=> ds[j].card = c /\ ~ds[j].applied
  BY <1>1, WaitingInRange
<1> HIDE DEF W, V
<1>4. \A j \in V : j \in 1..(n - 1) /\ up(j) \in W /\ up(j) # i /\ ds[j] = cs[up(j)]
  BY <1>1, <1>2, <1>3
<1>5. \A k \in W : k # i => down(k) \in V /\ up(down(k)) = k
  <2> SUFFICES ASSUME NEW k \in W, k # i PROVE down(k) \in V /\ up(down(k)) = k
    OBVIOUS
  <2>1. k \in 1..n /\ down(k) \in 1..(n - 1) /\ up(down(k)) = k
    BY <1>1, <1>2
  <2>2. ds[down(k)] = cs[k]
    BY <1>1, <2>1
  <2> QED
    BY <1>2, <1>3, <2>1, <2>2
<1>6. \A j, k \in 1..(n - 1) : up(j) <= up(k) <=> j <= k
  BY <1>1
<1>7. ASSUME i \notin W PROVE Fits(ds, c, t, s)
  <2>1. \A k \in W : k # i
    BY <1>7
  <2>2. V = {} <=> W = {}
    BY <1>4, <1>5, <2>1
  <2>3. ASSUME NEW j \in V, NEW k \in W, \A m \in V : j <= m PROVE up(j) <= k
    <3>1. down(k) \in V /\ up(down(k)) = k
      BY <1>5, <2>1
    <3>2. j \in 1..(n - 1) /\ down(k) \in 1..(n - 1) /\ j <= down(k)
      BY <1>4, <2>3, <3>1
    <3> QED
      BY <1>6, <3>1, <3>2
  <2>4. ASSUME NEW j \in V, First(V, j) PROVE ds[j].old = t
    <3>1. First(W, up(j))
      BY <1>4, <2>3, <2>4 DEF First
    <3> QED
      BY <1>4, <3>1 DEF Fits, Chained, W
  <2>5. ASSUME NEW j \in V, Last(V, j) PROVE ds[j].title = s
    <3>1. \A k \in W : k <= up(j)
      <4> SUFFICES ASSUME NEW k \in W PROVE k <= up(j)
        OBVIOUS
      <4>1. down(k) \in V /\ up(down(k)) = k
        BY <1>5, <2>1
      <4>2. j \in 1..(n - 1) /\ down(k) \in 1..(n - 1) /\ down(k) <= j
        BY <1>4, <2>5, <4>1 DEF Last
      <4> QED
        BY <1>6, <4>1, <4>2
    <3>2. Last(W, up(j))
      BY <1>4, <3>1 DEF Last
    <3> QED
      BY <1>4, <3>2 DEF Fits, Chained, W
  <2>6. ASSUME NEW j \in V, NEW k \in V, Adjacent(V, j, k) PROVE ds[k].old = ds[j].title
    <3>1. up(j) < up(k)
      <4>1. j \in 1..(n - 1) /\ k \in 1..(n - 1) /\ j < k
        BY <1>4, <2>6 DEF Adjacent
      <4> QED
        BY <1>1, <4>1
    <3>2. ASSUME NEW m \in W PROVE m <= up(j) \/ up(k) <= m
      <4>1. down(m) \in V /\ up(down(m)) = m
        BY <1>5, <2>1
      <4>2. down(m) <= j \/ k <= down(m)
        BY <2>6, <4>1 DEF Adjacent
      <4>3. up(down(m)) <= up(j) \/ up(k) <= up(down(m))
        BY <1>4, <1>6, <4>1, <4>2
      <4> QED
        BY <4>1, <4>3
    <3>3. /\ up(j) \in W /\ up(k) \in W /\ ds[j] = cs[up(j)] /\ ds[k] = cs[up(k)]
          /\ Adjacent(W, up(j), up(k))
      BY <1>4, <3>1, <3>2 DEF Adjacent
    <3>4. cs[up(k)].old = cs[up(j)].title
      <4> HIDE DEF up
      <4> QED
        BY <3>3 DEF Fits, Chained, W
    <3> QED
      BY <3>3, <3>4
  <2>7. V = {} => s = t
    BY <2>2 DEF Fits, Chained, W
  <2>8. t = Gone => V = {}
    BY <2>2 DEF Fits, W
  <2> QED
    BY <2>4, <2>5, <2>6, <2>7, <2>8 DEF Fits, Chained, V
<1> QED
  BY <1>7 DEF W

\* The only waiting call of a card leads from the title sent to the one shown.
LEMMA OnlyCall ==
  ASSUME NEW cs \in Seq(T!Call), NEW i \in 1..Len(cs), NEW c, NEW t, NEW s, Fits(cs, c, t, s),
         i \in WaitingIn(cs, c), \A j \in WaitingIn(cs, c) : j = i
  PROVE  cs[i].old = t /\ cs[i].title = s
<1>1. i \in Int /\ First(WaitingIn(cs, c), i) /\ Last(WaitingIn(cs, c), i)
  BY DEF First, Last
<1> QED
  BY <1>1 DEF Fits, Chained

\* The only waiting call of a card leaves the list.
LEMMA OnlyRemoved ==
  ASSUME NEW cs \in Seq(T!Call), NEW i \in 1..Len(cs), NEW c, NEW t, NEW s, Fits(cs, c, t, s),
         i \in WaitingIn(cs, c), \A j \in WaitingIn(cs, c) : j = i,
         NEW ds, ds = SubSeq(cs, 1, i - 1) \o SubSeq(cs, i + 1, Len(cs))
  PROVE  Fits(ds, c, t, t)
<1> DEFINE n == Len(cs)  W == WaitingIn(cs, c)  V == WaitingIn(ds, c)
<1>1. /\ n \in Nat /\ i \in 1..n /\ ds \in Seq(T!Call) /\ Len(ds) = n - 1
      /\ \A j \in 1..(n - 1) : ds[j] = IF j < i THEN cs[j] ELSE cs[j + 1]
  BY LenProperties, CallRemoved
<1>2. /\ W \subseteq 1..n /\ \A k \in 1..n : k \in W <=> cs[k].card = c /\ ~cs[k].applied
  BY WaitingInRange
<1>3. /\ V \subseteq 1..(n - 1) /\ \A j \in 1..(n - 1) : j \in V <=> ds[j].card = c /\ ~ds[j].applied
  BY <1>1, WaitingInRange
<1>4. \A k \in W : k = i
  OBVIOUS
<1>5. i \in W
  OBVIOUS
<1> HIDE DEF W, V, n
<1>6. V = {}
  <2> SUFFICES ASSUME NEW j \in V PROVE FALSE
    OBVIOUS
  <2>1. j \in 1..(n - 1) /\ ds[j].card = c /\ ~ds[j].applied
    BY <1>3
  <2>2. CASE j < i
    <3>1. j \in 1..n /\ j # i
      BY <1>1, <2>1, <2>2
    <3>2. ds[j] = cs[j]
      BY <1>1, <2>1, <2>2
    <3> QED
      BY <1>2, <1>4, <2>1, <3>1, <3>2
  <2>3. CASE ~(j < i)
    <3>1. j + 1 \in 1..n /\ j + 1 # i
      BY <1>1, <2>1, <2>3
    <3>2. ds[j] = cs[j + 1]
      BY <1>1, <2>1, <2>3
    <3> QED
      BY <1>2, <1>4, <2>1, <3>1, <3>2
  <2> QED
    BY <2>2, <2>3
<1> QED
  BY <1>6 DEF Fits, Chained, V

\* The title that will be the server's is the one shown.
LEMMA FitsFinal ==
  ASSUME calls \in Seq(T!Call), NEW c, Fits(calls, c, title[c], shown[c])
  PROVE  shown[c] = T!Final(c)
<1> DEFINE W == WaitingIn(calls, c)
<1>1. T!Waiting(c) = W
  BY DEF T!Waiting, WaitingIn
<1>2. CASE W = {}
  BY <1>1, <1>2 DEF T!Final, Fits, Chained
<1>3. CASE W # {}
  <2>1. \E i \in W : Last(W, i)
    <3>1. Len(calls) \in Nat /\ W \in SUBSET (1..Len(calls))
      BY WaitingInRange
    <3> QED
      BY <1>3, <3>1, Greatest
  <2> DEFINE l == CHOOSE i \in W : \A j \in W : j <= i
  <2>2. l \in W /\ Last(W, l)
    BY <2>1 DEF Last
  <2>3. T!Final(c) = calls[l].title
    BY <1>1, <1>3 DEF T!Final
  <2> HIDE DEF l
  <2> QED
    BY <2>2, <2>3 DEF Fits, Chained
<1> QED
  BY <1>2, <1>3
-----------------------------------------------------------------------------
\* The titles of a board, and the modal's editor over the titles sh.
TitlesOf == [Cards -> Titles \cup {Gone}]

Editor == [card : Cards \cup {None}, value : Titles \cup {None}, dirty : BOOLEAN,
           timer : Titles \cup {None}, of : Cards \cup {None}, unsent : BOOLEAN, cut : BOOLEAN]

FitModal(m, sh) ==
    /\ m \in Editor
    /\ m.card # None => m.value \in Titles /\ sh[m.card] # Gone
    /\ m.dirty => m.card # None /\ m.of \in Cards
    /\ m.timer # None => m.card # None /\ m.of \in Cards

\* What a text that may still be sent was typed for.
ToOwn(m) == m.dirty \/ m.timer # None => m.of = m.card

EditorsTyped ==
    /\ title \in TitlesOf /\ shown \in TitlesOf
    /\ page \in {None} \cup [to : Cards \cup {None}, titles : {None} \cup TitlesOf]
    /\ FitModal(modal, shown)
    /\ text \in [Cards -> Titles \cup {None}] /\ saving \in [Cards -> BOOLEAN]
    /\ \A c \in Cards : text[c] # None => shown[c] # Gone
    /\ calls \in Seq(T!Call)

TextKept ==
    /\ ~lost
    /\ modal.unsent => modal.dirty \/ modal.cut
    /\ carried \/ (SentToOwn(calls) /\ ToOwn(modal))

\* A card whose store and server went together has its calls in between.
Followed == \A c \in Cards : c \notin drifted => Fits(calls, c, title[c], shown[c])

EditorsInv == EditorsTyped /\ TextKept /\ Followed

-----------------------------------------------------------------------------
LEMMA TitlesApart == Gone \notin Titles /\ None \notin Titles /\ None \notin Cards /\ None # Gone
  BY EditorsAssumption DEF T!EditorsAssumption

\* Following the store changes the text of the editor only.
LEMMA FollowKeeps ==
  ASSUME NEW m \in Editor, NEW sh \in TitlesOf, m.card # None => sh[m.card] # Gone
  PROVE  LET f == T!Follow(m, sh) IN
         /\ f \in Editor /\ f.card = m.card /\ f.of = m.of /\ f.timer = m.timer
         /\ f.dirty = m.dirty /\ f.unsent = m.unsent /\ f.cut = m.cut
         /\ m.value \in Titles => f.value \in Titles
<1> DEFINE f == T!Follow(m, sh)
<1>1. CASE m.card # None /\ ~m.dirty /\ sh[m.card] # shown[m.card]
  <2>1. f = [m EXCEPT !.value = sh[m.card]] /\ sh[m.card] \in Titles
    BY <1>1 DEF T!Follow, TitlesOf, Editor
  <2> QED
    BY <2>1 DEF Editor
<1>2. CASE ~(m.card # None /\ ~m.dirty /\ sh[m.card] # shown[m.card])
  <2>1. f = m
    BY <1>2 DEF T!Follow
  <2> QED
    BY <2>1
<1> QED
  BY <1>1, <1>2

LEMMA SupersededSame ==
  ASSUME NEW cs \in Seq(T!Call)
  PROVE  SameCalls(cs, T!Superseded(cs))
<1> DEFINE ds == T!Superseded(cs)
<1>1. DOMAIN cs = 1..Len(cs) /\ Len(cs) \in Nat /\ \A i \in 1..Len(cs) : cs[i] \in T!Call
  BY LenProperties, ElementOfSeq
<1>2. ASSUME NEW i \in 1..Len(cs)
      PROVE  /\ ds[i] \in T!Call /\ ds[i].card = cs[i].card /\ ds[i].of = cs[i].of
             /\ ds[i].title = cs[i].title /\ ds[i].old = cs[i].old /\ ds[i].applied = cs[i].applied
  <2>1. cs[i] \in T!Call
    BY <1>1
  <2>2. ds[i] = IF cs[i].from = "modal" THEN [cs[i] EXCEPT !.heard = FALSE] ELSE cs[i]
    BY <1>1 DEF T!Superseded
  <2> QED
    BY <2>1, <2>2 DEF T!Call
<1>3. ds \in [1..Len(cs) -> T!Call]
  <2>1. ds = [i \in 1..Len(cs) |-> ds[i]]
    BY <1>1 DEF T!Superseded
  <2> HIDE DEF ds
  <2> QED
    BY <1>2, <2>1
<1> HIDE DEF ds
<1>4. ds \in Seq(T!Call) /\ Len(ds) = Len(cs)
  BY <1>1, <1>3, LenProperties
<1> QED
  BY <1>2, <1>4 DEF SameCalls, ds

\* A list grown by one call, its other calls the same.
LEMMA AppendOwn ==
  ASSUME NEW cs \in Seq(T!Call), SentToOwn(cs), NEW x \in T!Call, x.of = x.card
  PROVE  SentToOwn(Append(cs, x))
<1>1. /\ Append(cs, x) \in Seq(T!Call) /\ Len(Append(cs, x)) = Len(cs) + 1 /\ Len(cs) \in Nat
      /\ \A i \in 1..Len(cs) : Append(cs, x)[i] = cs[i]
      /\ Append(cs, x)[Len(cs) + 1] = x
      /\ DOMAIN cs = 1..Len(cs)
  BY AppendProperties, LenProperties
<1>2. DOMAIN Append(cs, x) = 1..(Len(cs) + 1)
  BY <1>1, LenProperties
<1>3. \A i \in 1..(Len(cs) + 1) : i \in 1..Len(cs) \/ i = Len(cs) + 1
  BY <1>1
<1> QED
  BY <1>1, <1>2, <1>3 DEF SentToOwn

\* The server knows a card that the store shows and that has not drifted.
LEMMA LiveKnown ==
  ASSUME EditorsTyped, NEW c \in Cards, Fits(calls, c, title[c], shown[c]), shown[c] # Gone
  PROVE  title[c] # Gone
  BY DEF Fits, Chained
-----------------------------------------------------------------------------
\* A text is shown and sent.
LEMMA SaveKeeps ==
  ASSUME EditorsInv, NEW from \in {"modal", "card"}, NEW c \in Cards, NEW of \in Cards, NEW t \in Titles,
         NEW cs, SameCalls(calls, cs), shown[c] # Gone, carried \/ of = c,
         T!Show(c, t), calls' = Append(cs, T!NewCall(from, c, of, t, TRUE)),
         UNCHANGED <<title, drifted, carried>>
  PROVE  /\ shown' \in TitlesOf /\ (\A d \in Cards : shown'[d] = Gone <=> shown[d] = Gone)
         /\ calls' \in Seq(T!Call) /\ (carried \/ SentToOwn(calls')) /\ Followed'
<1> DEFINE x == T!NewCall(from, c, of, t, TRUE)
<1>0. calls \in Seq(T!Call) /\ cs \in Seq(T!Call) /\ (carried \/ SentToOwn(calls))
  BY DEF EditorsInv, EditorsTyped, TextKept, SameCalls
<1>1. x \in T!Call /\ x.card = c /\ x.of = of /\ x.title = t /\ x.old = shown[c] /\ ~x.applied
  BY DEF T!NewCall, T!Call, EditorsInv, EditorsTyped, TitlesOf
<1> HIDE DEF x
<1>2. /\ shown' \in TitlesOf /\ shown'[c] = t
      /\ \A d \in Cards : (d # c => shown'[d] = shown[d]) /\ (shown'[d] = Gone <=> shown[d] = Gone)
  BY TitlesApart DEF T!Show, EditorsInv, EditorsTyped, TitlesOf
<1>3. calls' = Append(cs, x) /\ calls' \in Seq(T!Call)
  BY <1>0, <1>1, AppendProperties DEF x
<1>4. carried \/ SentToOwn(calls')
  <2>1. SentToOwn(calls) => SentToOwn(cs)
    BY <1>0, SameWaiting
  <2> QED
    BY <1>0, <1>1, <1>3, <2>1, AppendOwn
<1>5. ASSUME NEW d \in Cards, d \notin drifted PROVE Fits(calls', d, title[d], shown'[d])
  <2>1. Fits(calls, d, title[d], shown[d])
    BY <1>5 DEF EditorsInv, Followed
  <2>2. Fits(cs, d, title[d], shown[d])
    BY <1>0, <2>1, SameFits
  <2>3. CASE d = c
    <3>1. title[c] # Gone
      BY <2>1, <2>3, LiveKnown DEF EditorsInv
    <3> QED
      BY <1>0, <1>1, <1>2, <1>3, <2>2, <2>3, <3>1, AppendFits
  <2>4. CASE d # c
    BY <1>0, <1>1, <1>2, <1>3, <2>2, <2>4, AppendFits
  <2> QED
    BY <2>3, <2>4
<1>6. Followed'
  BY <1>5 DEF Followed
<1> QED
  BY <1>2, <1>3, <1>4, <1>6
\* What the parts of the invariant say of the editor, with its timer stopped.
LEMMA TimerStopped ==
  ASSUME EditorsInv, modal.card # None
  PROVE  LET m == [modal EXCEPT !.timer = None] IN
         /\ m \in Editor /\ m.card = modal.card /\ m.card \in Cards /\ shown[m.card] # Gone
         /\ m.value = modal.value /\ m.value \in Titles /\ m.timer = None
         /\ m.of = modal.of /\ m.cut = modal.cut
         /\ (m.dirty <=> modal.dirty) /\ (m.unsent <=> modal.unsent)
  BY TitlesApart DEF EditorsInv, EditorsTyped, FitModal, Editor

LEMMA NetworkKeeps ==
  ASSUME EditorsInv, NEW t \in Titles, modal.card # None, modal.dirty \/ modal.timer # None,
         T!SaveToNetwork([modal EXCEPT !.timer = None], t),
         UNCHANGED <<title, page, text, saving, drifted, carried, lost>>
  PROVE  EditorsInv'
<1> DEFINE m == [modal EXCEPT !.timer = None]
<1>1. /\ m \in Editor /\ m.card = modal.card /\ m.card \in Cards /\ shown[m.card] # Gone
      /\ m.value = modal.value /\ m.value \in Titles /\ m.timer = None
      /\ m.of = modal.of /\ m.cut = modal.cut
      /\ (m.dirty <=> modal.dirty) /\ (m.unsent <=> modal.unsent)
  BY TimerStopped
<1>2. m.of \in Cards /\ (carried \/ m.of = m.card)
  BY <1>1 DEF EditorsInv, EditorsTyped, FitModal, TextKept, ToOwn
<1>3. T!SaveToNetwork(m, t)
  OBVIOUS
<1> HIDE DEF m
<1>4. CASE t = shown[m.card]
  <2>1. modal' = [m EXCEPT !.dirty = FALSE, !.unsent = FALSE] /\ UNCHANGED <<shown, calls>>
    BY <1>3, <1>4 DEF T!SaveToNetwork
  <2>2. /\ modal' \in Editor /\ modal'.card = m.card /\ modal'.value = m.value
        /\ modal'.timer = None /\ ~modal'.dirty /\ ~modal'.unsent
    BY <1>1, <2>1 DEF Editor
  <2>3. EditorsTyped'
    BY <1>1, <2>1, <2>2 DEF EditorsInv, EditorsTyped, FitModal
  <2>4. TextKept'
    BY <2>1, <2>2 DEF EditorsInv, TextKept, ToOwn
  <2>5. Followed'
    BY <2>1 DEF EditorsInv, Followed
  <2> QED
    BY <2>3, <2>4, <2>5 DEF EditorsInv
<1>5. CASE t # shown[m.card]
  <2> DEFINE n == [m EXCEPT !.unsent = FALSE]
  <2>1. /\ T!Show(m.card, t) /\ modal' = T!Follow(n, shown')
        /\ calls' = Append(T!Superseded(calls), T!NewCall("modal", m.card, m.of, t, TRUE))
    BY <1>3, <1>5 DEF T!SaveToNetwork
  <2>2. SameCalls(calls, T!Superseded(calls))
    BY SupersededSame DEF EditorsInv, EditorsTyped
  <2>3. /\ shown' \in TitlesOf /\ (\A d \in Cards : shown'[d] = Gone <=> shown[d] = Gone)
        /\ calls' \in Seq(T!Call) /\ (carried \/ SentToOwn(calls')) /\ Followed'
    <3>1. "modal" \in {"modal", "card"} /\ (carried \/ m.of = m.card)
      BY <1>2
    <3> QED
      BY <1>1, <1>2, <2>1, <2>2, <3>1, SaveKeeps
  <2>4. /\ n \in Editor /\ n.card = m.card /\ n.of = m.of /\ n.timer = None /\ n.value \in Titles
        /\ (n.dirty <=> m.dirty) /\ ~n.unsent
    BY <1>1 DEF Editor
  <2> HIDE DEF n
  <2>5. /\ modal' \in Editor /\ modal'.card = n.card /\ modal'.of = n.of /\ modal'.timer = None
        /\ modal'.dirty = n.dirty /\ modal'.unsent = n.unsent /\ modal'.value \in Titles
    <3>1. n.card # None => shown'[n.card] # Gone
      BY <1>1, <2>3, <2>4
    <3> QED
      BY <2>1, <2>3, <2>4, <3>1, FollowKeeps
  <2>6. EditorsTyped'
    <3>1. \A c \in Cards : text'[c] # None => shown'[c] # Gone
      BY <2>3 DEF EditorsInv, EditorsTyped
    <3>2. FitModal(modal, shown)'
      BY <1>1, <1>2, <2>3, <2>4, <2>5 DEF FitModal
    <3> QED
      BY <2>3, <3>1, <3>2 DEF EditorsInv, EditorsTyped
  <2>7. TextKept'
    <3>1. ~modal'.unsent /\ (carried \/ modal'.of = modal'.card)
      BY <1>2, <2>4, <2>5
    <3> QED
      BY <2>3, <3>1 DEF EditorsInv, TextKept, ToOwn
  <2> QED
    BY <2>3, <2>6, <2>7 DEF EditorsInv
<1> QED
  BY <1>4, <1>5

\* The editor leaves its card: what is dirty is sent, and nothing shows it.
LEMMA LeaveKeeps ==
  ASSUME EditorsInv, modal.card # None, NEW c \in Cards \cup {None}, NEW sh \in TitlesOf,
         c # None => sh[c] # Gone, T!LeaveFor(c, sh)
  PROVE  /\ FitModal(modal', sh) /\ calls' \in Seq(T!Call)
         /\ ~lost' /\ (modal'.unsent => modal'.dirty \/ modal'.cut)
         /\ carried' \/ (SentToOwn(calls') /\ ToOwn(modal'))
         /\ \A d \in Cards : /\ d \notin drifted /\ d \notin T!HiddenBy(modal)
                             => Fits(calls', d, title[d], shown[d])
<1> DEFINE cs == T!Superseded(calls)  x == T!NewCall("modal", modal.card, modal.of, modal.value, FALSE)
<1>1. /\ modal \in Editor /\ modal.card \in Cards /\ shown[modal.card] # Gone /\ modal.value \in Titles
      /\ calls \in Seq(T!Call) /\ title \in TitlesOf /\ shown \in TitlesOf
      /\ (modal.dirty => modal.of \in Cards)
  BY DEF EditorsInv, EditorsTyped, FitModal, Editor
<1>2. SameCalls(calls, cs) /\ cs \in Seq(T!Call)
  BY <1>1, SupersededSame DEF SameCalls
<1>3. calls' = IF modal.dirty THEN Append(cs, x) ELSE cs
  BY DEF T!LeaveFor, T!AfterCleanup, T!Sent
<1>4. modal.dirty => /\ x \in T!Call /\ x.card = modal.card /\ x.of = modal.of
                     /\ x.title = modal.value /\ x.old = shown[modal.card] /\ ~x.applied
  BY <1>1 DEF T!NewCall, T!Call, TitlesOf
<1> HIDE DEF cs, x
<1>5. calls' \in Seq(T!Call)
  BY <1>2, <1>3, <1>4, AppendProperties
<1>6. FitModal(modal', sh) /\ (modal'.unsent => FALSE) /\ (c # None => modal'.card = c)
      /\ modal'.timer = None /\ (modal'.dirty => c # None /\ modal.dirty)
  <2>1. CASE c = None
    <3>1. modal' = T!Closed
      BY <2>1 DEF T!LeaveFor
    <3> QED
      BY <2>1, <3>1 DEF T!Closed, FitModal, Editor
  <2>2. CASE c # None
    <3>1. modal' = [modal EXCEPT !.card = c, !.timer = None, !.unsent = FALSE,
                                 !.value = IF modal.dirty THEN modal.value ELSE sh[c]]
      BY <2>2 DEF T!LeaveFor
    <3>2. c \in Cards /\ sh[c] \in Titles
      BY <2>2 DEF TitlesOf
    <3>3. modal.dirty => modal.of \in Cards
      BY <1>1
    <3>4. /\ modal' \in Editor /\ modal'.card = c /\ modal'.timer = None /\ ~modal'.unsent
          /\ (modal'.dirty <=> modal.dirty) /\ modal'.of = modal.of /\ modal'.value \in Titles
      BY <1>1, <3>1, <3>2 DEF Editor
    <3> QED
      BY <2>2, <3>2, <3>3, <3>4 DEF FitModal
  <2> QED
    BY <2>1, <2>2
<1>7. ~lost'
  <2>1. ~lost /\ (modal.unsent => modal.dirty \/ modal.cut)
    BY DEF EditorsInv, TextKept
  <2> QED
    BY <2>1 DEF T!LeaveFor, T!Sent
<1>8. carried' \/ (SentToOwn(calls') /\ ToOwn(modal'))
  <2> SUFFICES ASSUME ~carried' PROVE SentToOwn(calls') /\ ToOwn(modal')
    OBVIOUS
  <2>1. ~carried /\ ~(c # None /\ modal.dirty)
    BY DEF T!LeaveFor
  <2>2. SentToOwn(calls) /\ (modal.dirty => modal.of = modal.card)
    BY <2>1 DEF EditorsInv, TextKept, ToOwn
  <2>3. SentToOwn(cs)
    BY <1>1, <1>2, <2>2, SameWaiting
  <2>4. SentToOwn(calls')
    BY <1>2, <1>3, <1>4, <2>2, <2>3, AppendOwn
  <2> QED
    BY <1>6, <2>1, <2>4 DEF ToOwn
<1>9. ASSUME NEW d \in Cards, d \notin drifted, d \notin T!HiddenBy(modal)
      PROVE  Fits(calls', d, title[d], shown[d])
  <2>1. Fits(calls, d, title[d], shown[d])
    BY <1>9 DEF EditorsInv, Followed
  <2>2. Fits(cs, d, title[d], shown[d])
    BY <1>1, <1>2, <2>1, SameFits
  <2>3. CASE ~modal.dirty
    BY <1>3, <2>2, <2>3
  <2>4. CASE modal.dirty /\ d # modal.card
    BY <1>2, <1>3, <1>4, <2>2, <2>4, AppendFits
  <2>5. CASE modal.dirty /\ d = modal.card
    <3>1. modal.value = shown[d]
      BY <1>9, <2>5 DEF T!HiddenBy, T!Sent
    <3>2. title[d] # Gone
      BY <1>1, <2>1, <2>5, LiveKnown DEF EditorsInv
    <3> QED
      BY <1>2, <1>3, <1>4, <2>2, <2>5, <3>1, <3>2, AppendFits
  <2> QED
    BY <2>3, <2>4, <2>5
<1> QED
  BY <1>5, <1>6, <1>7, <1>8, <1>9
-----------------------------------------------------------------------------
\* A step that leaves the calls and the titles alone.
LEMMA FollowedStays ==
  ASSUME Followed, UNCHANGED <<title, shown, calls, drifted>>
  PROVE  Followed'
BY DEF Followed

LEMMA EditorsInitial ==
  ASSUME T!Init
  PROVE  EditorsInv
<1>1. title \in TitlesOf /\ shown \in TitlesOf /\ shown = title /\ calls = <<>>
  BY DEF T!Init, TitlesOf
<1>2. EditorsTyped
  <2>1. calls \in Seq(T!Call)
    BY <1>1
  <2>2. FitModal(modal, shown)
    <3>1. CASE modal = T!Closed
      BY <3>1 DEF T!Closed, FitModal, Editor
    <3>2. ASSUME NEW c \in Cards, shown[c] # Gone, modal = T!Opened(c, shown) PROVE FitModal(modal, shown)
      <4>1. shown[c] \in Titles
        BY <1>1, <3>2 DEF TitlesOf
      <4>2. /\ modal \in Editor /\ modal.card = c /\ modal.value = shown[c]
            /\ ~modal.dirty /\ modal.timer = None
        BY <3>2, <4>1 DEF T!Opened, T!Closed, Editor
      <4> QED
        BY <3>2, <4>1, <4>2 DEF FitModal
    <3> QED
      BY <3>1, <3>2 DEF T!Init, T!Live
  <2> QED
    BY <1>1, <2>1, <2>2 DEF T!Init, EditorsTyped
<1>3. TextKept
  <2>1. ~modal.unsent /\ ~modal.dirty /\ modal.timer = None
    <3>1. CASE modal = T!Closed
      BY <3>1 DEF T!Closed
    <3>2. ASSUME NEW c \in Cards, modal = T!Opened(c, shown)
          PROVE  ~modal.unsent /\ ~modal.dirty /\ modal.timer = None
      BY <3>2 DEF T!Opened, T!Closed
    <3> QED
      BY <3>1, <3>2 DEF T!Init
  <2>2. SentToOwn(calls)
    BY <1>1 DEF SentToOwn
  <2> QED
    BY <2>1, <2>2 DEF T!Init, TextKept, ToOwn
<1>4. Followed
  <2>1. \A c \in Cards : WaitingIn(calls, c) = {}
    BY <1>1 DEF WaitingIn
  <2> QED
    BY <1>1, <2>1 DEF Followed, Fits, Chained
<1> QED
  BY <1>2, <1>3, <1>4 DEF EditorsInv

LEMMA TypeKeeps ==
  ASSUME EditorsInv, T!Type
  PROVE  EditorsInv'
<1>1. PICK t \in Titles : modal' = [modal EXCEPT !.value = t, !.dirty = TRUE, !.timer = t,
                                                 !.of = modal.card, !.unsent = TRUE, !.cut = FALSE]
  BY DEF T!Type
<1>2. modal.card # None /\ UNCHANGED <<title, shown, page, text, saving, calls, drifted, carried, lost>>
  BY DEF T!Type
<1>3. modal \in Editor /\ modal.card \in Cards /\ shown[modal.card] # Gone
  BY <1>2 DEF EditorsInv, EditorsTyped, FitModal, Editor
<1>4. /\ modal' \in Editor /\ modal'.card = modal.card /\ modal'.value = t /\ modal'.of = modal.card
      /\ modal'.dirty /\ modal'.timer = t
  BY <1>1, <1>3 DEF Editor
<1>5. EditorsTyped'
  BY <1>2, <1>3, <1>4 DEF EditorsInv, EditorsTyped, FitModal
<1>6. TextKept'
  BY <1>2, <1>4 DEF EditorsInv, TextKept, ToOwn
<1> QED
  BY <1>2, <1>5, <1>6, FollowedStays DEF EditorsInv

LEMMA TimerFiresKeeps ==
  ASSUME EditorsInv, T!TimerFires
  PROVE  EditorsInv'
<1>1. modal.card # None /\ modal.timer \in Titles
  BY DEF T!TimerFires, EditorsInv, EditorsTyped, FitModal, Editor
<1> QED
  BY <1>1, NetworkKeeps DEF T!TimerFires

LEMMA BlurKeeps ==
  ASSUME EditorsInv, T!Blur
  PROVE  EditorsInv'
<1>1. modal.card # None /\ modal.value \in Titles
  BY DEF T!Blur, EditorsInv, EditorsTyped, FitModal
<1>2. CASE modal.dirty
  <2>1. T!SaveToNetwork([modal EXCEPT !.timer = None], modal.value)
    BY <1>2 DEF T!Blur
  <2> QED
    BY <1>1, <1>2, <2>1, NetworkKeeps DEF T!Blur
<1>3. CASE ~modal.dirty
  <2> DEFINE m == [modal EXCEPT !.timer = None]
  <2>1. modal' = m /\ UNCHANGED <<title, shown, page, text, saving, calls, drifted, carried, lost>>
    BY <1>3 DEF T!Blur
  <2>2. /\ m \in Editor /\ m.card = modal.card /\ m.card \in Cards /\ shown[m.card] # Gone
        /\ m.value = modal.value /\ m.value \in Titles /\ m.timer = None
        /\ m.of = modal.of /\ m.cut = modal.cut
        /\ (m.dirty <=> modal.dirty) /\ (m.unsent <=> modal.unsent)
    BY <1>1, TimerStopped
  <2> HIDE DEF m
  <2>3. EditorsTyped'
    BY <1>3, <2>1, <2>2 DEF EditorsInv, EditorsTyped, FitModal
  <2>4. TextKept'
    BY <1>3, <2>1, <2>2 DEF EditorsInv, TextKept, ToOwn
  <2> QED
    BY <2>1, <2>3, <2>4, FollowedStays DEF EditorsInv
<1> QED
  BY <1>2, <1>3

LEMMA CardTextKeeps ==
  ASSUME EditorsInv, T!StartEdit \/ T!TypeOnCard \/ (\E c \in Cards : T!Escape(c))
  PROVE  EditorsInv'
<1>1. UNCHANGED <<title, shown, page, modal, saving, calls, drifted, carried, lost>>
  BY DEF T!StartEdit, T!TypeOnCard, T!Escape
<1>2. /\ text' \in [Cards -> Titles \cup {None}]
      /\ \A d \in Cards : text'[d] # None => shown[d] # Gone
  <2>0. /\ text \in [Cards -> Titles \cup {None}] /\ shown \in TitlesOf
        /\ \A d \in Cards : text[d] # None => shown[d] # Gone
    BY DEF EditorsInv, EditorsTyped
  <2>1. CASE T!StartEdit
    <3>1. PICK c \in Cards : shown[c] # Gone /\ text' = [text EXCEPT ![c] = shown[c]]
      BY <2>1 DEF T!StartEdit, T!Live
    <3>2. shown[c] \in Titles
      BY <2>0, <3>1 DEF TitlesOf
    <3> QED
      BY <2>0, <3>1, <3>2
  <2>2. CASE T!TypeOnCard
    <3>1. PICK c \in Cards, t \in Titles : text[c] # None /\ text' = [text EXCEPT ![c] = t]
      BY <2>2 DEF T!TypeOnCard
    <3> QED
      BY <2>0, <3>1
  <2>3. CASE \E c \in Cards : T!Escape(c)
    <3>1. PICK c \in Cards : text' = [text EXCEPT ![c] = None]
      BY <2>3 DEF T!Escape
    <3> QED
      BY <2>0, <3>1
  <2> QED
    BY <2>1, <2>2, <2>3
<1>3. EditorsTyped'
  BY <1>1, <1>2 DEF EditorsInv, EditorsTyped, FitModal
<1>4. TextKept'
  BY <1>1 DEF EditorsInv, TextKept, ToOwn
<1> QED
  BY <1>1, <1>3, <1>4, FollowedStays DEF EditorsInv

LEMMA SaveOnCardKeeps ==
  ASSUME EditorsInv, NEW c \in Cards, T!SaveOnCard(c)
  PROVE  EditorsInv'
<1>1. /\ text[c] \in Titles /\ shown[c] # Gone /\ modal \in Editor /\ shown \in TitlesOf
      /\ calls \in Seq(T!Call) /\ saving \in [Cards -> BOOLEAN]
      /\ text \in [Cards -> Titles \cup {None}]
  BY DEF T!SaveOnCard, EditorsInv, EditorsTyped, FitModal
<1>2. UNCHANGED <<title, page, drifted, carried, lost>>
  BY DEF T!SaveOnCard
<1>3. CASE text[c] = shown[c]
  <2>1. text' = [text EXCEPT ![c] = None] /\ UNCHANGED <<shown, modal, saving, calls>>
    BY <1>3 DEF T!SaveOnCard
  <2>2. EditorsTyped'
    <3>1. /\ text' \in [Cards -> Titles \cup {None}]
          /\ \A d \in Cards : text'[d] # None => text[d] # None
      BY <1>1, <2>1
    <3> QED
      BY <1>2, <2>1, <3>1 DEF EditorsInv, EditorsTyped, FitModal
  <2>3. TextKept'
    BY <1>2, <2>1 DEF EditorsInv, TextKept, ToOwn
  <2> QED
    BY <1>2, <2>1, <2>2, <2>3, FollowedStays DEF EditorsInv
<1>4. CASE text[c] # shown[c]
  <2>1. /\ T!Show(c, text[c]) /\ modal' = T!Follow(modal, shown') /\ UNCHANGED text
        /\ saving' = [saving EXCEPT ![c] = TRUE]
        /\ calls' = Append(calls, T!NewCall("card", c, c, text[c], TRUE))
    BY <1>4 DEF T!SaveOnCard
  <2>2. SameCalls(calls, calls)
    BY <1>1 DEF SameCalls
  <2>3. /\ shown' \in TitlesOf /\ (\A d \in Cards : shown'[d] = Gone <=> shown[d] = Gone)
        /\ calls' \in Seq(T!Call) /\ (carried \/ SentToOwn(calls')) /\ Followed'
    <3>1. "card" \in {"modal", "card"} /\ (carried \/ c = c)
      OBVIOUS
    <3> QED
      BY <1>1, <1>2, <2>1, <2>2, <3>1, SaveKeeps
  <2>4. modal.card # None => modal.card \in Cards /\ modal.value \in Titles /\ shown'[modal.card] # Gone
    BY <1>1, <2>3 DEF EditorsInv, EditorsTyped, FitModal, Editor
  <2>5. /\ modal' \in Editor /\ modal'.card = modal.card /\ modal'.of = modal.of
        /\ modal'.timer = modal.timer /\ modal'.dirty = modal.dirty
        /\ modal'.unsent = modal.unsent /\ modal'.cut = modal.cut
        /\ (modal.value \in Titles => modal'.value \in Titles)
    BY <1>1, <2>1, <2>3, <2>4, FollowKeeps
  <2>6. EditorsTyped'
    <3>1. saving' \in [Cards -> BOOLEAN] /\ \A d \in Cards : text'[d] # None => shown'[d] # Gone
      BY <1>1, <2>1, <2>3 DEF EditorsInv, EditorsTyped
    <3>2. FitModal(modal', shown')
      BY <2>4, <2>5 DEF FitModal, EditorsInv, EditorsTyped
    <3> QED
      BY <1>2, <2>1, <2>3, <3>1, <3>2 DEF EditorsInv, EditorsTyped
  <2>7. TextKept'
    BY <1>2, <2>3, <2>5 DEF EditorsInv, TextKept, ToOwn
  <2> QED
    BY <2>3, <2>6, <2>7 DEF EditorsInv
<1> QED
  BY <1>3, <1>4

\* A step that changes only which calls are heard or free.
LEMMA SameCallsKeep ==
  ASSUME EditorsInv, SameCalls(calls, calls'), UNCHANGED <<title, shown, drifted, carried>>
  PROVE  /\ calls' \in Seq(T!Call) /\ Followed'
         /\ carried' \/ (SentToOwn(calls) => SentToOwn(calls'))
<1>1. calls \in Seq(T!Call) /\ calls' \in Seq(T!Call)
  BY DEF EditorsInv, EditorsTyped, SameCalls
<1>2. ASSUME NEW d \in Cards, d \notin drifted PROVE Fits(calls', d, title[d], shown[d])
  BY <1>1, <1>2, SameFits DEF EditorsInv, Followed
<1>3. SentToOwn(calls) => SentToOwn(calls')
  BY <1>1, SameWaiting
<1> QED
  BY <1>1, <1>2, <1>3 DEF Followed

LEMMA CardRemountsKeeps ==
  ASSUME EditorsInv, NEW c \in Cards, T!CardRemounts(c)
  PROVE  EditorsInv'
<1>0. calls \in Seq(T!Call) /\ DOMAIN calls = 1..Len(calls) /\ Len(calls) \in Nat
      /\ \A i \in 1..Len(calls) : calls[i] \in T!Call
  BY LenProperties, ElementOfSeq DEF EditorsInv, EditorsTyped
<1>1. /\ UNCHANGED <<title, shown, page, modal, drifted, carried, lost>>
      /\ text' = [text EXCEPT ![c] = None] /\ saving' = [saving EXCEPT ![c] = FALSE]
  BY DEF T!CardRemounts
<1>2. SameCalls(calls, calls')
  <2>0. calls' = [i \in 1..Len(calls) |-> IF calls[i].from = "card" /\ calls[i].card = c
                                          THEN [calls[i] EXCEPT !.heard = FALSE] ELSE calls[i]]
    BY <1>0 DEF T!CardRemounts
  <2>1. ASSUME NEW i \in 1..Len(calls)
        PROVE  /\ calls'[i] \in T!Call /\ calls'[i].card = calls[i].card /\ calls'[i].of = calls[i].of
               /\ calls'[i].title = calls[i].title /\ calls'[i].old = calls[i].old
               /\ calls'[i].applied = calls[i].applied
    <3>1. calls[i] \in T!Call
      BY <1>0
    <3>2. calls'[i] = IF calls[i].from = "card" /\ calls[i].card = c
                      THEN [calls[i] EXCEPT !.heard = FALSE] ELSE calls[i]
      BY <2>0
    <3> QED
      BY <3>1, <3>2 DEF T!Call
  <2>2. calls' \in [1..Len(calls) -> T!Call]
    <3>1. calls' = [i \in 1..Len(calls) |-> calls'[i]]
      BY <2>0
    <3> QED
      BY <2>1, <3>1
  <2>3. calls' \in Seq(T!Call) /\ Len(calls') = Len(calls)
    BY <1>0, <2>2, LenProperties
  <2> QED
    BY <2>1, <2>3 DEF SameCalls
<1>3. /\ calls' \in Seq(T!Call) /\ Followed'
      /\ carried' \/ (SentToOwn(calls) => SentToOwn(calls'))
  BY <1>1, <1>2, SameCallsKeep
<1>4. EditorsTyped'
  <2>1. /\ text' \in [Cards -> Titles \cup {None}] /\ saving' \in [Cards -> BOOLEAN]
        /\ \A d \in Cards : text'[d] # None => text[d] # None
    BY <1>1 DEF EditorsInv, EditorsTyped
  <2> QED
    BY <1>1, <1>3, <2>1 DEF EditorsInv, EditorsTyped, FitModal
<1>5. TextKept'
  BY <1>1, <1>3 DEF EditorsInv, TextKept, ToOwn
<1> QED
  BY <1>3, <1>4, <1>5 DEF EditorsInv

LEMMA NavigateKeeps ==
  ASSUME EditorsInv, T!Navigate
  PROVE  EditorsInv'
<1>1. UNCHANGED <<title, shown, modal, text, saving, drifted, carried, lost>>
  BY DEF T!Navigate
<1>2. page' \in [to : Cards \cup {None}, titles : {None} \cup TitlesOf]
  BY DEF T!Navigate
<1>0. calls \in Seq(T!Call)
  BY DEF EditorsInv, EditorsTyped
<1>3. SameCalls(calls, calls')
  <2>1. CASE calls = <<>>
    BY <1>0, <2>1 DEF T!Navigate, SameCalls
  <2>2. CASE calls # <<>>
    <3> DEFINE x == [calls[1] EXCEPT !.free = TRUE]
    <3>1. Len(calls) \in Nat /\ Len(calls) # 0 /\ 1 \in 1..Len(calls) /\ calls[1] \in T!Call
      BY <1>0, <2>2, LenProperties, EmptySeq, ElementOfSeq
    <3>2. /\ x \in T!Call /\ x.card = calls[1].card /\ x.of = calls[1].of
          /\ x.title = calls[1].title /\ x.old = calls[1].old /\ x.applied = calls[1].applied
      BY <3>1 DEF T!Call
    <3>3. calls' = [calls EXCEPT ![1] = x]
      BY <2>2 DEF T!Navigate
    <3> HIDE DEF x
    <3>4. /\ calls' \in Seq(T!Call) /\ Len(calls') = Len(calls)
          /\ \A j \in 1..Len(calls) : calls'[j] = IF j = 1 THEN x ELSE calls[j]
      BY <1>0, <3>1, <3>2, <3>3, ExceptSeq
    <3> QED
      BY <3>2, <3>4 DEF SameCalls
  <2> QED
    BY <2>1, <2>2
<1>4. /\ calls' \in Seq(T!Call) /\ Followed'
      /\ carried' \/ (SentToOwn(calls) => SentToOwn(calls'))
  BY <1>1, <1>3, SameCallsKeep
<1>5. EditorsTyped'
  BY <1>1, <1>2, <1>4 DEF EditorsInv, EditorsTyped, FitModal
<1>6. TextKept'
  BY <1>1, <1>4 DEF EditorsInv, TextKept, ToOwn
<1> QED
  BY <1>4, <1>5, <1>6 DEF EditorsInv

LEMMA RenderKeeps ==
  ASSUME EditorsInv, T!Render
  PROVE  EditorsInv'
<1>1. /\ page # None /\ page' = [page EXCEPT !.titles = title]
      /\ UNCHANGED <<title, shown, modal, text, saving, calls, drifted, carried, lost>>
  BY DEF T!Render
<1>2. EditorsTyped'
  BY <1>1 DEF EditorsInv, EditorsTyped, FitModal
<1>3. TextKept'
  BY <1>1 DEF EditorsInv, TextKept, ToOwn
<1> QED
  BY <1>1, <1>2, <1>3, FollowedStays DEF EditorsInv

LEMMA OthersChangeKeeps ==
  ASSUME EditorsInv, T!RemoteChange
  PROVE  EditorsInv'
<1>1. PICK c \in Cards, t \in Titles \cup {Gone} :
        title' = [title EXCEPT ![c] = t] /\ drifted' = drifted \cup {c}
  BY DEF T!RemoteChange
<1>2. UNCHANGED <<shown, page, modal, text, saving, calls, carried, lost>>
  BY DEF T!RemoteChange
<1>3. title' \in TitlesOf /\ \A d \in Cards : d # c => title'[d] = title[d]
  BY <1>1 DEF EditorsInv, EditorsTyped, TitlesOf
<1>4. EditorsTyped'
  BY <1>2, <1>3 DEF EditorsInv, EditorsTyped, FitModal
<1>5. TextKept'
  BY <1>2 DEF EditorsInv, TextKept, ToOwn
<1>6. Followed'
  BY <1>1, <1>2, <1>3 DEF EditorsInv, Followed
<1> QED
  BY <1>4, <1>5, <1>6 DEF EditorsInv

LEMMA ApplyKeeps ==
  ASSUME EditorsInv, NEW i \in DOMAIN calls, T!Apply(i)
  PROVE  EditorsInv'
<1> DEFINE r == calls[i]
<1>1. /\ calls \in Seq(T!Call) /\ i \in 1..Len(calls) /\ Len(calls) \in Nat /\ r \in T!Call
      /\ title \in TitlesOf
  BY LenProperties, ElementOfSeq DEF EditorsInv, EditorsTyped
<1>2. /\ ~r.applied /\ title' = [title EXCEPT ![r.card] = r.title]
      /\ calls' = Applied(calls, i)
      /\ drifted' = IF \E j \in T!Waiting(r.card) : j < i THEN drifted \cup {r.card} ELSE drifted
      /\ UNCHANGED <<shown, page, modal, text, saving, carried, lost>>
  BY DEF T!Apply, Applied
<1>3. r.card \in Cards /\ r.title \in Titles
  BY <1>1 DEF T!Call
<1>4. /\ title' \in TitlesOf /\ title'[r.card] = r.title
      /\ \A d \in Cards : d # r.card => title'[d] = title[d]
  BY <1>1, <1>2, <1>3 DEF TitlesOf
<1>5. calls' \in Seq(T!Call) /\ (SentToOwn(calls) => SentToOwn(calls'))
  BY <1>1, <1>2, AppliedTyped
<1>6. ASSUME NEW d \in Cards, d \notin drifted' PROVE Fits(calls', d, title'[d], shown[d])
  <2>1. d \notin drifted /\ Fits(calls, d, title[d], shown[d])
    BY <1>2, <1>6 DEF EditorsInv, Followed
  <2>2. CASE d # r.card
    BY <1>1, <1>2, <1>4, <2>1, <2>2, ApplyFits
  <2>3. CASE d = r.card
    <3>1. ~\E j \in T!Waiting(d) : j < i
      BY <1>2, <1>6, <2>3
    <3>2. First(WaitingIn(calls, d), i)
      <4>1. T!Waiting(d) = WaitingIn(calls, d) /\ WaitingIn(calls, d) \subseteq 1..Len(calls)
        BY <1>1, WaitingInRange DEF T!Waiting, WaitingIn
      <4>2. i \in WaitingIn(calls, d)
        BY <1>1, <1>2, <2>3, WaitingInRange
      <4>3. \A j \in WaitingIn(calls, d) : i <= j
        BY <1>1, <3>1, <4>1
      <4> QED
        BY <4>2, <4>3 DEF First
    <3> QED
      BY <1>1, <1>2, <1>4, <2>1, <2>3, <3>2, ApplyFits
  <2> QED
    BY <2>2, <2>3
<1>7. EditorsTyped'
  BY <1>2, <1>4, <1>5 DEF EditorsInv, EditorsTyped, FitModal
<1>8. TextKept'
  BY <1>2, <1>5 DEF EditorsInv, TextKept, ToOwn
<1>9. Followed'
  BY <1>2, <1>6 DEF Followed
<1> QED
  BY <1>7, <1>8, <1>9 DEF EditorsInv

LEMMA ResetKeeps ==
  ASSUME EditorsInv, NEW r \in T!Call, T!Reset(r)
  PROVE  /\ text' \in [Cards -> Titles \cup {None}] /\ saving' \in [Cards -> BOOLEAN]
         /\ \A d \in Cards : text'[d] # None => text[d] # None
<1>1. text \in [Cards -> Titles \cup {None}] /\ saving \in [Cards -> BOOLEAN] /\ r.card \in Cards
  BY DEF EditorsInv, EditorsTyped, T!Call
<1>2. CASE r.from = "card" /\ r.heard
  <2>1. text' = [text EXCEPT ![r.card] = None] /\ saving' = [saving EXCEPT ![r.card] = FALSE]
    BY <1>2 DEF T!Reset
  <2> QED
    BY <1>1, <2>1
<1>3. CASE ~(r.from = "card" /\ r.heard)
  <2>1. text' = text /\ saving' = saving
    BY <1>3 DEF T!Reset
  <2> QED
    BY <1>1, <2>1
<1> QED
  BY <1>2, <1>3

LEMMA SucceedKeeps ==
  ASSUME EditorsInv, NEW i \in DOMAIN calls, T!Succeed(i)
  PROVE  EditorsInv'
<1> DEFINE r == calls[i]
<1>1. calls \in Seq(T!Call) /\ i \in 1..Len(calls) /\ r \in T!Call
  BY LenProperties, ElementOfSeq DEF EditorsInv, EditorsTyped
<1>2. /\ r.applied /\ calls' = SubSeq(calls, 1, i - 1) \o SubSeq(calls, i + 1, Len(calls)) /\ T!Reset(r)
      /\ modal' = IF r.from = "modal" /\ r.heard THEN [modal EXCEPT !.dirty = FALSE, !.cut = TRUE] ELSE modal
      /\ UNCHANGED <<title, shown, page, drifted, carried, lost>>
  BY DEF T!Succeed, T!Without
<1> HIDE DEF r
<1>3. calls' \in Seq(T!Call) /\ (SentToOwn(calls) => SentToOwn(calls'))
  BY <1>1, <1>2, CallRemoved
<1>4. /\ text' \in [Cards -> Titles \cup {None}] /\ saving' \in [Cards -> BOOLEAN]
      /\ \A d \in Cards : text'[d] # None => text[d] # None
  BY <1>1, <1>2, ResetKeeps
<1>5. /\ FitModal(modal', shown) /\ (ToOwn(modal) => ToOwn(modal'))
      /\ (modal.unsent => modal.dirty \/ modal.cut) => (modal'.unsent => modal'.dirty \/ modal'.cut)
  <2>0. FitModal(modal, shown)
    BY DEF EditorsInv, EditorsTyped
  <2>1. CASE modal' = modal
    BY <2>0, <2>1
  <2>2. CASE modal' = [modal EXCEPT !.dirty = FALSE, !.cut = TRUE]
    <3>1. /\ modal' \in Editor /\ modal'.card = modal.card /\ modal'.value = modal.value
          /\ modal'.of = modal.of /\ modal'.timer = modal.timer /\ ~modal'.dirty /\ modal'.cut
      BY <2>0, <2>2 DEF FitModal, Editor
    <3> QED
      BY <2>0, <3>1 DEF FitModal, ToOwn
  <2> QED
    BY <1>2, <2>1, <2>2
<1>6. EditorsTyped'
  BY <1>2, <1>3, <1>4, <1>5 DEF EditorsInv, EditorsTyped
<1>7. TextKept'
  BY <1>2, <1>3, <1>5 DEF EditorsInv, TextKept
<1>8. ASSUME NEW d \in Cards, d \notin drifted PROVE Fits(calls', d, title[d], shown[d])
  <2>1. Fits(calls, d, title[d], shown[d])
    BY <1>8 DEF EditorsInv, Followed
  <2>2. i \notin WaitingIn(calls, d)
    BY <1>2 DEF WaitingIn, r
  <2> QED
    BY <1>1, <1>2, <2>1, <2>2, RemoveFits
<1>9. Followed'
  BY <1>2, <1>8 DEF Followed
<1> QED
  BY <1>6, <1>7, <1>9 DEF EditorsInv

\* A call that may still be applied, and blocks no other.
LEMMA LateSame ==
  ASSUME NEW cs \in Seq(T!Call), NEW i \in 1..Len(cs), NEW ds,
         ds = [cs EXCEPT ![i].free = TRUE, ![i].heard = FALSE, ![i].from = "modal"]
  PROVE  SameCalls(cs, ds)
<1> DEFINE x == [cs[i] EXCEPT !.free = TRUE, !.heard = FALSE, !.from = "modal"]
<1>1. cs[i] \in T!Call /\ DOMAIN cs = 1..Len(cs) /\ Len(cs) \in Nat
  BY ElementOfSeq, LenProperties
<1>2. /\ x \in T!Call /\ x.card = cs[i].card /\ x.of = cs[i].of
      /\ x.title = cs[i].title /\ x.old = cs[i].old /\ x.applied = cs[i].applied
  BY <1>1 DEF T!Call
<1>3. ds = [cs EXCEPT ![i] = x]
  BY <1>1
<1> HIDE DEF x
<1>4. /\ [cs EXCEPT ![i] = x] \in Seq(T!Call) /\ Len([cs EXCEPT ![i] = x]) = Len(cs)
      /\ \A j \in 1..Len(cs) : [cs EXCEPT ![i] = x][j] = IF j = i THEN x ELSE cs[j]
  BY <1>2, ExceptSeq
<1> QED
  BY <1>2, <1>3, <1>4 DEF SameCalls

LEMMA CallFailKeeps ==
  ASSUME EditorsInv, NEW i \in DOMAIN calls, T!Fail(i)
  PROVE  EditorsInv'
<1> DEFINE r == calls[i]  back == T!RollsBack(r) /\ T!Live(r.card)
<1>1. /\ calls \in Seq(T!Call) /\ i \in 1..Len(calls) /\ r \in T!Call /\ r.card \in Cards
      /\ r.old \in Titles /\ r.title \in Titles /\ r.from \in {"modal", "card"}
      /\ shown \in TitlesOf /\ FitModal(modal, shown)
  <2>1. calls \in Seq(T!Call) /\ i \in 1..Len(calls) /\ r \in T!Call /\ shown \in TitlesOf /\ FitModal(modal, shown)
    BY LenProperties, ElementOfSeq DEF EditorsInv, EditorsTyped
  <2> HIDE DEF r
  <2> QED
    BY <2>1 DEF T!Call
<1>2. PICK late \in BOOLEAN :
        /\ late => ~r.applied /\ title[r.card] # Gone
        /\ calls' = IF late THEN [calls EXCEPT ![i].free = TRUE, ![i].heard = FALSE, ![i].from = "modal"]
                    ELSE SubSeq(calls, 1, i - 1) \o SubSeq(calls, i + 1, Len(calls))
        /\ drifted' = IF \/ r.from = "card" \/ r.heard
                      THEN IF r.applied \/ late \/ T!Waiting(r.card) \ {i} # {}
                           THEN drifted \cup {r.card} ELSE drifted
                      ELSE IF r.applied \/ late THEN drifted ELSE drifted \cup {r.card}
  BY DEF T!Fail, T!Without
<1>3. /\ shown' = IF back THEN [shown EXCEPT ![r.card] = r.old] ELSE shown
      /\ modal' = IF r.from = "modal" /\ r.heard
                  THEN [modal EXCEPT !.value = r.old, !.dirty = FALSE, !.cut = TRUE]
                  ELSE T!Follow(modal, shown')
      /\ T!Reset(r) /\ UNCHANGED <<title, page, carried, lost>>
  BY DEF T!Fail
<1>4. /\ shown' \in TitlesOf /\ \A d \in Cards : shown'[d] = Gone <=> shown[d] = Gone
      /\ \A d \in Cards : d # r.card => shown'[d] = shown[d]
      /\ T!RollsBack(r) /\ shown[r.card] # Gone => shown'[r.card] = r.old
      /\ ~T!RollsBack(r) => shown' = shown
  <2>1. CASE back
    <3>1. shown' = [shown EXCEPT ![r.card] = r.old] /\ shown[r.card] # Gone
      BY <1>3, <2>1 DEF T!Live
    <3> HIDE DEF r
    <3> QED
      BY <1>1, <2>1, <3>1, TitlesApart DEF TitlesOf
  <2>2. CASE ~back
    BY <1>1, <1>3, <2>2 DEF T!Live
  <2> QED
    BY <2>1, <2>2
<1>5. SameCalls(calls, calls') \/ calls' = SubSeq(calls, 1, i - 1) \o SubSeq(calls, i + 1, Len(calls))
  BY <1>1, <1>2, LateSame
<1> HIDE DEF r, back
<1>6. calls' \in Seq(T!Call) /\ (SentToOwn(calls) => SentToOwn(calls'))
  <2>1. CASE SameCalls(calls, calls')
    BY <1>1, <2>1, SameWaiting DEF SameCalls
  <2>2. CASE calls' = SubSeq(calls, 1, i - 1) \o SubSeq(calls, i + 1, Len(calls))
    BY <1>1, <2>2, CallRemoved
  <2> QED
    BY <1>5, <2>1, <2>2
<1>7. /\ text' \in [Cards -> Titles \cup {None}] /\ saving' \in [Cards -> BOOLEAN]
      /\ \A d \in Cards : text'[d] # None => text[d] # None
  BY <1>1, <1>3, ResetKeeps
<1>8. /\ FitModal(modal', shown') /\ (ToOwn(modal) => ToOwn(modal'))
      /\ (modal.unsent => modal.dirty \/ modal.cut) => (modal'.unsent => modal'.dirty \/ modal'.cut)
  <2>0. /\ modal \in Editor
        /\ modal.card # None => modal.card \in Cards /\ modal.value \in Titles /\ shown'[modal.card] # Gone
    BY <1>1, <1>4 DEF FitModal, Editor
  <2>1. CASE r.from = "modal" /\ r.heard
    <3>1. modal' = [modal EXCEPT !.value = r.old, !.dirty = FALSE, !.cut = TRUE]
      BY <1>3, <2>1
    <3>2. /\ modal' \in Editor /\ modal'.card = modal.card /\ modal'.value \in Titles
          /\ modal'.of = modal.of /\ modal'.timer = modal.timer /\ ~modal'.dirty /\ modal'.cut
      BY <1>1, <2>0, <3>1 DEF Editor
    <3> QED
      BY <1>1, <2>0, <3>2 DEF FitModal, ToOwn
  <2>2. CASE ~(r.from = "modal" /\ r.heard)
    <3>1. modal' = T!Follow(modal, shown')
      BY <1>3, <2>2
    <3>2. /\ modal' \in Editor /\ modal'.card = modal.card /\ modal'.of = modal.of
          /\ modal'.timer = modal.timer /\ modal'.dirty = modal.dirty
          /\ modal'.unsent = modal.unsent /\ modal'.cut = modal.cut
          /\ (modal.value \in Titles => modal'.value \in Titles)
      BY <1>4, <2>0, <3>1, FollowKeeps
    <3> QED
      BY <1>1, <2>0, <3>2 DEF FitModal, ToOwn
  <2> QED
    BY <2>1, <2>2
<1>9. EditorsTyped'
  BY <1>3, <1>4, <1>6, <1>7, <1>8 DEF EditorsInv, EditorsTyped
<1>10. TextKept'
  BY <1>3, <1>6, <1>8 DEF EditorsInv, TextKept
<1>11. ASSUME NEW d \in Cards, d \notin drifted' PROVE Fits(calls', d, title[d], shown'[d])
  <2>1. d \notin drifted /\ Fits(calls, d, title[d], shown[d])
    BY <1>2, <1>11 DEF EditorsInv, Followed
  <2>2. T!Waiting(d) = WaitingIn(calls, d)
    BY DEF T!Waiting, WaitingIn
  <2>3. i \in WaitingIn(calls, d) <=> d = r.card /\ ~r.applied
    BY <1>1, WaitingInRange DEF r
  <2>4. T!RollsBack(r) <=> r.from = "card" \/ r.heard
    BY DEF T!RollsBack
  <2>5. CASE d # r.card
    <3>1. shown'[d] = shown[d] /\ i \notin WaitingIn(calls, d)
      BY <1>4, <2>3, <2>5
    <3> QED
      BY <1>1, <1>5, <2>1, <3>1, SameFits, RemoveFits
  <2>6. CASE d = r.card /\ T!RollsBack(r)
    <3>1. ~r.applied /\ ~late /\ WaitingIn(calls, d) \ {i} = {}
      BY <1>2, <1>11, <2>2, <2>4, <2>6
    <3>2. calls' = SubSeq(calls, 1, i - 1) \o SubSeq(calls, i + 1, Len(calls))
      BY <1>2, <3>1
    <3>3. i \in WaitingIn(calls, d) /\ \A j \in WaitingIn(calls, d) : j = i
      BY <2>3, <2>6, <3>1
    <3>4. Fits(calls', d, title[d], title[d]) /\ r.old = title[d] /\ r.title = shown[d]
      <4>1. Fits(calls', d, title[d], title[d]) /\ calls[i].old = title[d] /\ calls[i].title = shown[d]
        <5>1. calls \in Seq(T!Call) /\ i \in 1..Len(calls)
          BY <1>1
        <5> QED
          BY <2>1, <3>2, <3>3, <5>1, OnlyRemoved, OnlyCall
      <4> QED
        BY <4>1 DEF r
    <3>5. shown'[d] = r.old
      BY <1>1, <1>4, <2>6, <3>4, TitlesApart
    <3> QED
      BY <3>4, <3>5
  <2>7. CASE d = r.card /\ ~T!RollsBack(r)
    <3>1. (r.applied \/ late) /\ shown' = shown
      BY <1>2, <1>4, <1>11, <2>4, <2>7
    <3>2. CASE late
      <4>1. SameCalls(calls, calls')
        BY <1>1, <1>2, <3>2, LateSame
      <4> QED
        BY <1>1, <2>1, <3>1, <4>1, SameFits
    <3>3. CASE ~late
      <4>1. calls' = SubSeq(calls, 1, i - 1) \o SubSeq(calls, i + 1, Len(calls))
        BY <1>2, <3>3
      <4>2. i \notin WaitingIn(calls, d)
        BY <2>3, <3>1, <3>3
      <4> QED
        BY <1>1, <2>1, <3>1, <4>1, <4>2, RemoveFits
    <3> QED
      BY <3>2, <3>3
  <2> QED
    BY <2>5, <2>6, <2>7
<1>12. Followed'
  BY <1>3, <1>11 DEF Followed
<1> QED
  BY <1>9, <1>10, <1>12 DEF EditorsInv

LEMMA DeletionArrivesKeeps ==
  ASSUME EditorsInv, NEW c \in Cards, T!DeletionArrives(c)
  PROVE  EditorsInv'
<1>1. /\ title[c] = Gone /\ shown[c] # Gone /\ shown' = [shown EXCEPT ![c] = Gone]
      /\ text' = [text EXCEPT ![c] = None] /\ saving' = [saving EXCEPT ![c] = FALSE]
      /\ IF modal.card = c THEN T!LeaveFor(None, shown') ELSE UNCHANGED <<modal, calls, carried, lost>>
      /\ UNCHANGED <<title, page, drifted>>
  BY DEF T!DeletionArrives, T!Live, T!Show
<1>2. c \in drifted
  BY <1>1, LiveKnown DEF EditorsInv, Followed
<1>3. /\ shown' \in TitlesOf /\ shown'[c] = Gone
      /\ \A d \in Cards : d # c => shown'[d] = shown[d]
  BY <1>1 DEF EditorsInv, EditorsTyped, TitlesOf
<1>4. /\ text' \in [Cards -> Titles \cup {None}] /\ saving' \in [Cards -> BOOLEAN]
      /\ \A d \in Cards : text'[d] # None => text[d] # None /\ d # c
  BY <1>1 DEF EditorsInv, EditorsTyped
<1>5. CASE modal.card = c
  <2>1. /\ FitModal(modal', shown') /\ calls' \in Seq(T!Call)
        /\ ~lost' /\ (modal'.unsent => modal'.dirty \/ modal'.cut)
        /\ carried' \/ (SentToOwn(calls') /\ ToOwn(modal'))
        /\ \A d \in Cards : /\ d \notin drifted /\ d \notin T!HiddenBy(modal)
                            => Fits(calls', d, title[d], shown[d])
    <3>1. None \in Cards \cup {None} /\ modal.card # None /\ T!LeaveFor(None, shown')
      BY <1>1, <1>5, TitlesApart
    <3> QED
      BY <1>3, <3>1, LeaveKeeps
  <2>2. EditorsTyped'
    BY <1>1, <1>3, <1>4, <2>1 DEF EditorsInv, EditorsTyped
  <2>3. TextKept'
    BY <2>1 DEF TextKept
  <2>4. ASSUME NEW d \in Cards, d \notin drifted PROVE Fits(calls', d, title[d], shown'[d])
    <3>1. d # c /\ d \notin T!HiddenBy(modal)
      BY <1>2, <1>5, <2>4 DEF T!HiddenBy
    <3> QED
      BY <1>3, <2>1, <2>4, <3>1
  <2>5. Followed'
    BY <1>1, <2>4 DEF Followed
  <2> QED
    BY <2>2, <2>3, <2>5 DEF EditorsInv
<1>6. CASE modal.card # c
  <2>1. UNCHANGED <<modal, calls, carried, lost>>
    BY <1>1, <1>6
  <2>2. FitModal(modal, shown')
    BY <1>3, <1>6 DEF EditorsInv, EditorsTyped, FitModal, Editor
  <2>3. EditorsTyped'
    BY <1>1, <1>3, <1>4, <2>1, <2>2 DEF EditorsInv, EditorsTyped
  <2>4. TextKept'
    BY <2>1 DEF EditorsInv, TextKept
  <2>5. Followed'
    <3>1. \A d \in Cards : d \notin drifted => Fits(calls, d, title[d], shown'[d])
      BY <1>2, <1>3 DEF EditorsInv, Followed
    <3> QED
      BY <1>1, <2>1, <3>1 DEF Followed
  <2> QED
    BY <2>3, <2>4, <2>5 DEF EditorsInv
<1> QED
  BY <1>5, <1>6

LEMMA ArriveKeeps ==
  ASSUME EditorsInv, T!Arrive
  PROVE  EditorsInv'
<1>1. PICK sh \in {shown, page.titles} :
        LET c == IF page.to # None /\ sh[page.to] # Gone THEN page.to ELSE None IN
        /\ shown' = sh
        /\ IF modal.card = None
           THEN /\ modal' = IF c = None THEN T!Closed ELSE T!Opened(c, sh)
                /\ UNCHANGED <<calls, carried, lost>>
           ELSE IF modal.card # c THEN T!LeaveFor(c, sh)
           ELSE modal' = T!Follow(modal, sh) /\ UNCHANGED <<calls, carried, lost>>
        /\ text' = [d \in Cards |-> IF sh[d] = Gone THEN None ELSE text[d]]
        /\ saving' = [d \in Cards |-> saving[d] /\ sh[d] # Gone]
        /\ drifted' = LET hidden == IF modal.card \notin {None, c} THEN T!HiddenBy(modal) ELSE {} IN
             IF sh = shown /\ sh # page.titles THEN drifted \cup hidden
             ELSE {d \in Cards : sh[d] # title[d] \/ \E i \in DOMAIN calls' : calls'[i].card = d}
  BY DEF T!Arrive
<1> DEFINE c == IF page.to # None /\ sh[page.to] # Gone THEN page.to ELSE None
           hidden == IF modal.card \notin {None, c} THEN T!HiddenBy(modal) ELSE {}
<1>2. /\ modal.card = None => /\ modal' = IF c = None THEN T!Closed ELSE T!Opened(c, sh)
                              /\ UNCHANGED <<calls, carried, lost>>
      /\ modal.card # None /\ modal.card # c => T!LeaveFor(c, sh)
      /\ modal.card # None /\ modal.card = c => modal' = T!Follow(modal, sh) /\ UNCHANGED <<calls, carried, lost>>
      /\ drifted' = IF sh = shown /\ sh # page.titles THEN drifted \cup hidden
                    ELSE {d \in Cards : sh[d] # title[d] \/ \E i \in DOMAIN calls' : calls'[i].card = d}
  BY <1>1
<1>3. /\ shown' = sh /\ page' = None /\ UNCHANGED title
      /\ text' = [d \in Cards |-> IF sh[d] = Gone THEN None ELSE text[d]]
      /\ saving' = [d \in Cards |-> saving[d] /\ sh[d] # Gone]
  BY <1>1 DEF T!Arrive
<1>4. sh \in TitlesOf /\ c \in Cards \cup {None} /\ (c # None => c \in Cards /\ sh[c] # Gone)
  BY DEF T!Arrive, EditorsInv, EditorsTyped
<1> HIDE DEF c
<1>5. /\ text' \in [Cards -> Titles \cup {None}] /\ saving' \in [Cards -> BOOLEAN]
      /\ \A d \in Cards : text'[d] # None => sh[d] # Gone
  BY <1>3 DEF EditorsInv, EditorsTyped
<1>6. /\ FitModal(modal', sh) /\ calls' \in Seq(T!Call)
      /\ ~lost' /\ (modal'.unsent => modal'.dirty \/ modal'.cut)
      /\ carried' \/ (SentToOwn(calls') /\ ToOwn(modal'))
      /\ \A d \in Cards : /\ d \notin drifted /\ d \notin hidden
                          => Fits(calls', d, title[d], shown[d])
  <2>0. /\ FitModal(modal, shown) /\ calls \in Seq(T!Call) /\ ~lost
        /\ (modal.unsent => modal.dirty \/ modal.cut) /\ (carried \/ (SentToOwn(calls) /\ ToOwn(modal)))
        /\ \A d \in Cards : d \notin drifted => Fits(calls, d, title[d], shown[d])
    BY DEF EditorsInv, EditorsTyped, TextKept, Followed
  <2>1. CASE modal.card = None
    <3>1. UNCHANGED <<calls, carried, lost>>
      BY <1>2, <2>1
    <3>2. FitModal(modal', sh) /\ ~modal'.unsent /\ ToOwn(modal')
      <4>1. CASE c = None
        <5>1. modal' = T!Closed
          BY <1>2, <2>1, <4>1
        <5> QED
          BY <5>1 DEF T!Closed, FitModal, Editor, ToOwn
      <4>2. CASE c # None
        <5>1. modal' = T!Opened(c, sh) /\ sh[c] \in Titles /\ c \in Cards
          BY <1>2, <1>4, <2>1, <4>2 DEF TitlesOf
        <5>2. /\ modal' \in Editor /\ modal'.card = c /\ modal'.value = sh[c]
              /\ ~modal'.dirty /\ modal'.timer = None /\ ~modal'.unsent
          BY <5>1 DEF T!Opened, T!Closed, Editor
        <5> QED
          BY <1>4, <5>1, <5>2 DEF FitModal, ToOwn
      <4> QED
        BY <4>1, <4>2
    <3> QED
      BY <2>0, <3>1, <3>2
  <2>2. CASE modal.card # None /\ modal.card # c
    <3>1. T!LeaveFor(c, sh) /\ hidden = T!HiddenBy(modal)
      BY <1>2, <2>2
    <3> HIDE DEF hidden
    <3>2. /\ FitModal(modal', sh) /\ calls' \in Seq(T!Call)
          /\ ~lost' /\ (modal'.unsent => modal'.dirty \/ modal'.cut)
          /\ carried' \/ (SentToOwn(calls') /\ ToOwn(modal'))
          /\ \A d \in Cards : /\ d \notin drifted /\ d \notin T!HiddenBy(modal)
                              => Fits(calls', d, title[d], shown[d])
      BY <1>4, <2>2, <3>1, LeaveKeeps
    <3> QED
      BY <3>1, <3>2
  <2>3. CASE modal.card # None /\ modal.card = c
    <3>1. modal' = T!Follow(modal, sh) /\ UNCHANGED <<calls, carried, lost>>
      BY <1>2, <2>3
    <3>2. modal \in Editor /\ modal.value \in Titles /\ sh[modal.card] # Gone
      BY <1>4, <2>0, <2>3 DEF FitModal
    <3>3. /\ modal' \in Editor /\ modal'.card = modal.card /\ modal'.of = modal.of
          /\ modal'.timer = modal.timer /\ modal'.dirty = modal.dirty
          /\ modal'.unsent = modal.unsent /\ modal'.cut = modal.cut
          /\ modal'.value \in Titles
      BY <1>4, <3>1, <3>2, FollowKeeps
    <3>4. FitModal(modal', sh) /\ (ToOwn(modal) => ToOwn(modal'))
      BY <2>0, <2>3, <3>2, <3>3 DEF FitModal, ToOwn
    <3> QED
      BY <2>0, <3>1, <3>3, <3>4
  <2> QED
    BY <2>1, <2>2, <2>3
<1> HIDE DEF hidden
<1>7. EditorsTyped'
  BY <1>3, <1>4, <1>5, <1>6 DEF EditorsInv, EditorsTyped
<1>8. TextKept'
  BY <1>6 DEF TextKept
<1>9. ASSUME NEW d \in Cards, d \notin drifted' PROVE Fits(calls', d, title[d], sh[d])
  <2>1. CASE sh = shown /\ sh # page.titles
    BY <1>2, <1>6, <1>9, <2>1
  <2>2. CASE ~(sh = shown /\ sh # page.titles)
    <3>1. sh[d] = title[d] /\ \A i \in DOMAIN calls' : calls'[i].card # d
      BY <1>2, <1>9, <2>2
    <3>2. WaitingIn(calls', d) = {}
      BY <3>1 DEF WaitingIn
    <3> QED
      BY <3>1, <3>2 DEF Fits, Chained
  <2> QED
    BY <2>1, <2>2
<1>10. Followed'
  BY <1>3, <1>9 DEF Followed
<1> QED
  BY <1>7, <1>8, <1>10 DEF EditorsInv

LEMMA EditorsStep ==
  ASSUME EditorsInv, [T!Next]_T!vars
  PROVE  EditorsInv'
<1>1. ASSUME NEW c \in Cards, T!Escape(c) \/ T!SaveOnCard(c) \/ T!CardRemounts(c) \/ T!DeletionArrives(c)
      PROVE  EditorsInv'
  BY <1>1, CardTextKeeps, SaveOnCardKeeps, CardRemountsKeeps, DeletionArrivesKeeps
<1>2. ASSUME NEW i \in DOMAIN calls, T!Apply(i) \/ T!Succeed(i) \/ T!Fail(i)
      PROVE  EditorsInv'
  BY <1>2, ApplyKeeps, SucceedKeeps, CallFailKeeps
<1>3. CASE UNCHANGED T!vars
  <2>1. EditorsTyped'
    BY <1>3 DEF T!vars, EditorsInv, EditorsTyped, FitModal
  <2>2. TextKept'
    BY <1>3 DEF T!vars, EditorsInv, TextKept, ToOwn
  <2> QED
    BY <1>3, <2>1, <2>2, FollowedStays DEF T!vars, EditorsInv
<1> QED
  BY <1>1, <1>2, <1>3, TypeKeeps, TimerFiresKeeps, BlurKeeps, CardTextKeeps, NavigateKeeps, RenderKeeps,
     ArriveKeeps, OthersChangeKeeps DEF T!Next

\* Titles, editors and calls fit together whatever the users, the page and the
\* network do: a card that has not drifted is led by its waiting calls from the
\* title the server has to the one shown.
THEOREM EditorsInvariant == T!Spec => []EditorsInv
<1>1. T!Init => EditorsInv
  BY EditorsInitial
<1>2. EditorsInv /\ [T!Next]_T!vars => EditorsInv'
  BY EditorsStep
<1> QED
  BY <1>1, <1>2, PTL DEF T!Spec

\* The board shows the title the server has or is being sent, unless the card
\* has drifted (saveToNetwork in CardModal.tsx, handleSave in CardItem.tsx).
THEOREM TitlesShown == T!Spec => []ShownIsSaved
<1>1. EditorsInv => ShownIsSaved
  <2> SUFFICES ASSUME EditorsInv, NEW c \in Cards, c \notin drifted PROVE shown[c] = T!Final(c)
    BY DEF ShownIsSaved, T!ShownIsSaved
  <2> QED
    BY FitsFinal DEF EditorsInv, EditorsTyped, Followed
<1> QED
  BY <1>1, EditorsInvariant, PTL

\* A text typed in the modal is sent and to its own card, unless an answer cut it
\* off or the modal took it along (handleBlur and the cleanup of useFieldSync).
THEOREM TextSent == T!Spec => []TypedTextKept
<1>1. EditorsInv => TypedTextKept
  BY DEF EditorsInv, TextKept, TypedTextKept, T!TypedTextKept, SentToOwn
<1> QED
  BY <1>1, EditorsInvariant, PTL

-----------------------------------------------------------------------------
(* The creation forms.                                                       *)

Form == [open : BOOLEAN, draft : Drafts \cup {None}, submitting : BOOLEAN, last : Requests \cup {None}]

FormsTyped ==
    /\ form \in [F!Kinds -> Form]
    /\ call \in [Requests -> F!Call \cup {None, Over}]
    /\ temp \subseteq Requests /\ created \subseteq Requests

\* The last call of a form is of the form's kind.
LastOfKind ==
    \A k \in F!Kinds : form[k].submitting \/ form[k].last # None =>
      /\ form[k].last \in Requests /\ call[form[k].last] # None
      /\ F!UnderWay(call[form[k].last]) => call[form[k].last].kind = k

\* A call nobody listens for was aborted, or its temporary row is gone; one that
\* was applied has made its row.
CallsAccounted ==
    \A r \in Requests : F!UnderWay(call[r]) =>
      /\ call[r].heard \/ r \in aborted \/ r \notin temp
      /\ call[r].applied => r \in created

FormsInv == FormsTyped /\ LastOfKind /\ CallsAccounted /\ F!OrphansOnlyByClose

LEMMA MarksApart == None \notin Requests /\ None \notin Drafts /\ None # Over /\ None \notin F!Call /\ Over \notin F!Call
  BY FormsAssumption DEF F!FormsAssumption

LEMMA FormsInitial == F!Init => FormsInv
  BY MarksApart DEF F!Init, FormsInv, FormsTyped, LastOfKind, CallsAccounted, F!OrphansOnlyByClose,
     F!UnderWay, F!Fresh, Form

\* What a call under way is.
LEMMA CallTyped ==
  ASSUME FormsTyped, NEW r \in Requests, F!UnderWay(call[r])
  PROVE  /\ call[r] \in F!Call /\ call[r].kind \in F!Kinds /\ call[r].title \in Drafts
         /\ call[r].heard \in BOOLEAN /\ call[r].applied \in BOOLEAN
  BY DEF FormsTyped, F!UnderWay, F!Call

\* The last call of a form, and what keeps it one of the form's kind.
LEMMA LastCall ==
  ASSUME FormsInv, NEW j \in F!Kinds, form[j].submitting \/ form[j].last # None
  PROVE  /\ form[j].last \in Requests /\ call[form[j].last] # None
         /\ F!UnderWay(call[form[j].last]) => call[form[j].last].kind = j
  BY DEF FormsInv, LastOfKind

LEMMA LastKept ==
  ASSUME FormsInv,
         \A j \in F!Kinds : form'[j].last = form[j].last,
         \A j \in F!Kinds : form'[j].submitting => form[j].submitting,
         \A q \in Requests : call[q] # None => call'[q] # None,
         \A q \in Requests : F!UnderWay(call'[q]) => F!UnderWay(call[q]) /\ call'[q].kind = call[q].kind
  PROVE  LastOfKind'
<1> SUFFICES ASSUME NEW j \in F!Kinds, form'[j].submitting \/ form'[j].last # None
             PROVE  /\ form'[j].last \in Requests /\ call'[form'[j].last] # None
                    /\ F!UnderWay(call'[form'[j].last]) => call'[form'[j].last].kind = j
  BY DEF LastOfKind
<1>1. form'[j].last = form[j].last /\ (form[j].submitting \/ form[j].last # None)
  OBVIOUS
<1>2. /\ form[j].last \in Requests /\ call[form[j].last] # None
      /\ F!UnderWay(call[form[j].last]) => call[form[j].last].kind = j
  BY <1>1, LastCall
<1> QED
  BY <1>1, <1>2

\* A form's text and whether it is open matter to no invariant.
LEMMA FormsEdit ==
  ASSUME FormsInv, NEW k \in F!Kinds, F!Open(k) \/ F!Type(k)
  PROVE  FormsInv'
<1>1. /\ UNCHANGED <<call, created, temp, aborted>> /\ form' \in [F!Kinds -> Form]
      /\ \A j \in F!Kinds : form'[j].last = form[j].last /\ form'[j].submitting = form[j].submitting
  <2>1. CASE F!Open(k)
    BY <2>1 DEF F!Open, FormsInv, FormsTyped, Form
  <2>2. CASE F!Type(k)
    BY <2>2 DEF F!Type, FormsInv, FormsTyped, Form
  <2> QED
    BY <2>1, <2>2
<1> QED
  BY <1>1 DEF FormsInv, FormsTyped, LastOfKind, CallsAccounted, F!OrphansOnlyByClose, F!UnderWay

LEMMA FormsSubmit ==
  ASSUME FormsInv, NEW k \in F!Kinds, F!Submit(k)
  PROVE  FormsInv'
<1>1. PICK r \in Requests :
         /\ call[r] = None
         /\ call' = [call EXCEPT ![r] = [kind |-> k, title |-> form[k].draft,
                                         heard |-> TRUE, applied |-> FALSE]]
         /\ temp' = temp \cup {r}
         /\ form' = [form EXCEPT ![k] = [open |-> k = "card", draft |-> None,
                                         submitting |-> TRUE, last |-> r]]
  BY DEF F!Submit
<1>2. UNCHANGED <<created, events, own, reloads, aborted>> /\ form[k].draft \in Drafts
  BY DEF F!Submit, FormsInv, FormsTyped, Form
<1> DEFINE c == [kind |-> k, title |-> form[k].draft, heard |-> TRUE, applied |-> FALSE]
<1>3. c \in F!Call /\ c.kind = k /\ c.heard /\ ~c.applied
  BY <1>2 DEF F!Call
<1>4. c # None /\ c # Over
  BY <1>3, MarksApart
<1>5. FormsTyped' /\ call'[r] = c /\ \A q \in Requests \ {r} : call'[q] = call[q]
  BY <1>1, <1>2, <1>3 DEF FormsInv, FormsTyped, Form
<1> HIDE DEF c
<1>6. form'[k].last = r /\ \A j \in F!Kinds \ {k} : form'[j] = form[j]
  BY <1>1 DEF FormsInv, FormsTyped
<1>7. \A j \in F!Kinds \ {k} : form[j].submitting \/ form[j].last # None => form[j].last \in Requests \ {r}
  BY <1>1 DEF FormsInv, LastOfKind
<1>8. LastOfKind'
  BY <1>3, <1>4, <1>5, <1>6, <1>7 DEF FormsInv, LastOfKind, F!UnderWay
<1>9. CallsAccounted'
  BY <1>1, <1>2, <1>3, <1>5 DEF FormsInv, CallsAccounted, F!UnderWay
<1>10. \A q \in temp' \ aborted' : F!UnderWay(call'[q]) \/ q \in created'
  BY <1>1, <1>2, <1>4, <1>5 DEF FormsInv, FormsTyped, F!OrphansOnlyByClose, F!UnderWay
<1>11. \A j \in F!Kinds : form'[j].submitting =>
         \/ form'[j].last \in aborted'
         \/ F!UnderWay(call'[form'[j].last]) /\ call'[form'[j].last].heard
  BY <1>2, <1>3, <1>4, <1>5, <1>6, <1>7 DEF FormsInv, F!OrphansOnlyByClose, F!UnderWay
<1> QED
  BY <1>5, <1>8, <1>9, <1>10, <1>11 DEF FormsInv, F!OrphansOnlyByClose

\* Aborting makes calls unheard, and remembers them.
LEMMA Aborted ==
  ASSUME FormsTyped, NEW ks \in SUBSET F!Kinds, F!Aborting(ks)
  PROVE  /\ call' \in [Requests -> F!Call \cup {None, Over}] /\ aborted \subseteq aborted'
         /\ \A r \in Requests :
              /\ F!UnderWay(call'[r]) => F!UnderWay(call[r])
              /\ F!UnderWay(call[r]) => F!UnderWay(call'[r])
              /\ call'[r] = None <=> call[r] = None
              /\ F!UnderWay(call[r]) => call'[r].kind = call[r].kind
              /\ F!UnderWay(call[r]) => call'[r].applied = call[r].applied
              /\ F!UnderWay(call[r]) => call'[r].heard = call[r].heard \/ r \in aborted'
              /\ F!UnderWay(call[r]) /\ (\E k \in ks : form[k].last = r) => r \in aborted'
<1> DEFINE deaf == {r \in Requests : \E k \in ks : form[k].last = r /\ F!UnderWay(call[r])}
<1>1. /\ call' = [r \in Requests |-> IF r \in deaf THEN [call[r] EXCEPT !.heard = FALSE] ELSE call[r]]
      /\ aborted' = aborted \cup deaf
  BY DEF F!Aborting
<1>2. ASSUME NEW r \in deaf
      PROVE  /\ call'[r] \in F!Call /\ call'[r] # None /\ call'[r] # Over /\ r \in aborted'
             /\ call'[r].kind = call[r].kind /\ call'[r].applied = call[r].applied
  <2>1. r \in Requests /\ F!UnderWay(call[r]) /\ call[r] \in F!Call
    BY CallTyped
  <2>2. call'[r] = [call[r] EXCEPT !.heard = FALSE]
    BY <1>1, <2>1
  <2>3. call'[r] \in F!Call /\ call'[r].kind = call[r].kind /\ call'[r].applied = call[r].applied
    BY <2>1, <2>2 DEF F!Call
  <2> QED
    BY <1>1, <2>3, MarksApart
<1>3. \A r \in Requests \ deaf : call'[r] = call[r]
  BY <1>1
<1>4. \A r \in Requests : call'[r] \in F!Call \cup {None, Over}
  BY <1>2, <1>3 DEF FormsTyped
<1>5. call' = [r \in Requests |-> call'[r]]
  BY <1>1
<1>6. call' \in [Requests -> F!Call \cup {None, Over}]
  BY <1>4, <1>5
<1> QED
  BY <1>1, <1>2, <1>3, <1>6 DEF F!UnderWay

LEMMA FormsClose ==
  ASSUME FormsInv, NEW k \in F!Kinds, F!Close(k)
  PROVE  FormsInv'
<1>1. /\ F!Aborting({k}) /\ UNCHANGED <<created, events, temp, own, reloads>>
      /\ form' \in [F!Kinds -> Form]
      /\ \A j \in F!Kinds : form'[j].last = form[j].last /\ form'[j].submitting = form[j].submitting
  BY DEF F!Close, FormsInv, FormsTyped, Form
<1>2. FormsTyped'
  BY <1>1, Aborted DEF FormsInv, FormsTyped
<1>3. \A j \in F!Kinds : form[j].last \in Requests \cup {None}
  BY DEF FormsInv, FormsTyped, Form
<1>4. \A r \in Requests :
         /\ F!UnderWay(call'[r]) => F!UnderWay(call[r])
         /\ call'[r] = None => call[r] = None
         /\ F!UnderWay(call[r]) => call'[r].kind = call[r].kind
         /\ F!UnderWay(call[r]) => call'[r].applied = call[r].applied
         /\ F!UnderWay(call[r]) => call'[r].heard = call[r].heard \/ r \in aborted'
  BY <1>1, Aborted DEF FormsInv
<1>5. LastOfKind'
  BY <1>1, <1>3, <1>4 DEF FormsInv, LastOfKind
<1>6. aborted \subseteq aborted'
  BY <1>1, Aborted DEF FormsInv
<1>7. CallsAccounted'
  BY <1>1, <1>4, <1>6 DEF FormsInv, CallsAccounted
<1>8. \A r \in temp' \ aborted' : F!UnderWay(call'[r]) \/ r \in created'
  BY <1>1, Aborted DEF FormsInv, FormsTyped, F!OrphansOnlyByClose
<1>9. ASSUME NEW j \in F!Kinds, form'[j].submitting
      PROVE  \/ form'[j].last \in aborted'
             \/ F!UnderWay(call'[form'[j].last]) /\ call'[form'[j].last].heard
  <2>0. form[j].submitting
    BY <1>1, <1>9
  <2>1. form[j].last \in aborted \/ (F!UnderWay(call[form[j].last]) /\ call[form[j].last].heard)
    BY <2>0 DEF FormsInv, F!OrphansOnlyByClose
  <2>2. form[j].last \in Requests
    BY <1>1, <1>9 DEF FormsInv, LastOfKind
  <2> QED
    BY <1>1, <2>1, <2>2, Aborted DEF FormsInv
<1> QED
  BY <1>2, <1>5, <1>7, <1>8, <1>9 DEF FormsInv, F!OrphansOnlyByClose

\* The server and its answers.
LEMMA FormsApply ==
  ASSUME FormsInv, NEW r \in Requests, F!Apply(r)
  PROVE  FormsInv'
<1>1. /\ F!UnderWay(call[r]) /\ call' = [call EXCEPT ![r].applied = TRUE] /\ created' = created \cup {r}
      /\ UNCHANGED <<form, temp, own, reloads, aborted>>
  BY DEF F!Apply
<1>2. call[r] \in F!Call /\ call \in [Requests -> F!Call \cup {None, Over}]
  BY <1>1, CallTyped DEF FormsInv, FormsTyped
<1>3. /\ call'[r] \in F!Call /\ call'[r].kind = call[r].kind /\ call'[r].heard = call[r].heard
      /\ \A q \in Requests \ {r} : call'[q] = call[q]
      /\ call' \in [Requests -> F!Call \cup {None, Over}]
  BY <1>1, <1>2 DEF F!Call
<1>4. call'[r] # None /\ call'[r] # Over
  BY <1>3, MarksApart
<1>5. FormsTyped' /\ LastOfKind' /\ CallsAccounted'
  BY <1>1, <1>3, <1>4 DEF FormsInv, FormsTyped, LastOfKind, CallsAccounted, F!UnderWay
<1>6. F!OrphansOnlyByClose'
  BY <1>1, <1>3, <1>4 DEF FormsInv, FormsTyped, LastOfKind, F!OrphansOnlyByClose, F!UnderWay
<1> QED
  BY <1>5, <1>6 DEF FormsInv

LEMMA FormsSucceed ==
  ASSUME FormsInv, NEW r \in Requests, F!Succeed(r)
  PROVE  FormsInv'
<1>1. /\ F!UnderWay(call[r]) /\ call[r].applied /\ call' = [call EXCEPT ![r] = Over]
      /\ form' = IF call[r].heard THEN [form EXCEPT ![call[r].kind].submitting = FALSE] ELSE form
      /\ UNCHANGED <<created, temp, aborted>>
  BY DEF F!Succeed
<1>2. /\ call'[r] = Over /\ \A q \in Requests \ {r} : call'[q] = call[q]
      /\ call' \in [Requests -> F!Call \cup {None, Over}]
  BY <1>1 DEF FormsInv, FormsTyped
<1>3. call[r].kind \in F!Kinds /\ r \in created
  BY <1>1, CallTyped DEF FormsInv, CallsAccounted
<1>4. /\ form' \in [F!Kinds -> Form]
      /\ \A j \in F!Kinds : form'[j].last = form[j].last
  BY <1>1, <1>3 DEF FormsInv, FormsTyped, Form
<1>5. \A j \in F!Kinds : form'[j].submitting => form[j].submitting
  BY <1>1, <1>3 DEF FormsInv, FormsTyped, Form
<1>6. \A j \in F!Kinds : call[r].heard /\ j = call[r].kind => ~form'[j].submitting
  BY <1>1, <1>3 DEF FormsInv, FormsTyped, Form
<1>7. FormsTyped' /\ LastOfKind' /\ CallsAccounted'
  <2>1. FormsTyped'
    BY <1>1, <1>2, <1>4 DEF FormsInv, FormsTyped
  <2>2. LastOfKind'
    <3>1. \A q \in Requests : call[q] # None => call'[q] # None
      BY <1>2, MarksApart
    <3>2. ~F!UnderWay(Over)
      BY DEF F!UnderWay
    <3>3. \A q \in Requests : F!UnderWay(call'[q]) => F!UnderWay(call[q]) /\ call'[q].kind = call[q].kind
      BY <1>2, <3>2
    <3> QED
      BY <1>4, <1>5, <3>1, <3>3, LastKept
  <2>3. CallsAccounted'
    BY <1>1, <1>2 DEF FormsInv, CallsAccounted, F!UnderWay
  <2> QED
    BY <2>1, <2>2, <2>3
<1>8. \A q \in temp' \ aborted' : F!UnderWay(call'[q]) \/ q \in created'
  BY <1>1, <1>2, <1>3 DEF FormsInv, FormsTyped, F!OrphansOnlyByClose, F!UnderWay
<1>9. ASSUME NEW j \in F!Kinds, form'[j].submitting
      PROVE  form'[j].last \in aborted' \/ (F!UnderWay(call'[form'[j].last]) /\ call'[form'[j].last].heard)
  <2>1. form[j].submitting /\ form[j].last \in Requests /\ form'[j].last = form[j].last
    BY <1>4, <1>5, <1>9, LastCall
  <2>2. form[j].last \in aborted \/ (F!UnderWay(call[form[j].last]) /\ call[form[j].last].heard)
    BY <2>1 DEF FormsInv, F!OrphansOnlyByClose
  <2>3. form[j].last = r => call[r].kind = j
    BY <1>1, <2>1 DEF FormsInv, LastOfKind
  <2>4. CASE form[j].last = r
    <3>1. ~call[r].heard
      BY <1>6, <1>9, <2>3, <2>4
    <3> QED
      BY <1>1, <2>1, <2>2, <2>4, <3>1
  <2>5. CASE form[j].last # r
    <3>1. call'[form'[j].last] = call[form[j].last]
      BY <1>2, <2>1, <2>5
    <3>2. aborted' = aborted /\ form'[j].last = form[j].last
      BY <1>1, <2>1
    <3> QED
      BY <2>2, <3>1, <3>2
  <2> QED
    BY <2>4, <2>5
<1> QED
  BY <1>7, <1>8, <1>9 DEF FormsInv, F!OrphansOnlyByClose

LEMMA FormsFail ==
  ASSUME FormsInv, NEW r \in Requests, F!Fail(r)
  PROVE  FormsInv'
<1>1. /\ F!UnderWay(call[r]) /\ UNCHANGED <<created, aborted>>
      /\ \/ call' = [call EXCEPT ![r] = Over]
         \/ ~call[r].applied /\ call' = [call EXCEPT ![r].heard = FALSE]
      /\ IF call[r].heard
         THEN /\ temp' = temp \ {r}
              /\ form' = [form EXCEPT ![call[r].kind].draft = call[r].title,
                                      ![call[r].kind].submitting = FALSE,
                                      ![call[r].kind].open = @ \/ call[r].kind = "list"]
         ELSE UNCHANGED <<temp, form>>
  BY DEF F!Fail, F!TempAfterFailure
<1>2. call[r] \in F!Call /\ call[r].kind \in F!Kinds /\ call[r].title \in Drafts /\ call[r].heard \in BOOLEAN
  BY <1>1, CallTyped DEF FormsInv
<1>3. /\ \/ call'[r] = Over
         \/ /\ call'[r] \in F!Call /\ ~call'[r].applied /\ call'[r].kind = call[r].kind
      /\ \A q \in Requests \ {r} : call'[q] = call[q]
      /\ call' \in [Requests -> F!Call \cup {None, Over}]
  BY <1>1, <1>2 DEF FormsInv, FormsTyped, F!Call
<1>4. /\ form' \in [F!Kinds -> Form]
      /\ \A j \in F!Kinds : form'[j].last = form[j].last
  BY <1>1, <1>2 DEF FormsInv, FormsTyped, Form
<1>5. \A j \in F!Kinds : form'[j].submitting => form[j].submitting
  BY <1>1, <1>2 DEF FormsInv, FormsTyped, Form
<1>6. \A j \in F!Kinds : call[r].heard /\ j = call[r].kind => ~form'[j].submitting
  BY <1>1, <1>2 DEF FormsInv, FormsTyped, Form
<1>7. ~call[r].heard => r \in aborted \/ r \notin temp
  BY <1>1 DEF FormsInv, CallsAccounted
<1>8. r \in aborted' \/ r \notin temp'
  BY <1>1, <1>7
<1>9. FormsTyped' /\ LastOfKind'
  <2>1. FormsTyped'
    BY <1>1, <1>3, <1>4 DEF FormsInv, FormsTyped
  <2>2. LastOfKind'
    <3>1. \A q \in Requests : call[q] # None => call'[q] # None
      BY <1>3, MarksApart
    <3>2. ~F!UnderWay(Over)
      BY DEF F!UnderWay
    <3>3. \A q \in Requests : F!UnderWay(call'[q]) => F!UnderWay(call[q]) /\ call'[q].kind = call[q].kind
      BY <1>1, <1>3, <3>2
    <3> QED
      BY <1>4, <1>5, <3>1, <3>3, LastKept
  <2> QED
    BY <2>1, <2>2
<1>10. CallsAccounted'
  BY <1>1, <1>3, <1>8 DEF FormsInv, FormsTyped, CallsAccounted, F!UnderWay
<1>11. F!OrphansOnlyByClose'
  <2>1. \A q \in temp' \ aborted' : q \in temp \ aborted /\ q # r
    BY <1>1, <1>8
  <2>2. \A q \in temp' \ aborted' : F!UnderWay(call'[q]) \/ q \in created'
    <3>1. \A q \in temp \ aborted : F!UnderWay(call[q]) \/ q \in created
      BY DEF FormsInv, F!OrphansOnlyByClose
    <3>2. \A q \in temp' \ aborted' : q \in Requests \ {r}
      BY <2>1 DEF FormsInv, FormsTyped
    <3> QED
      BY <1>1, <1>3, <2>1, <3>1, <3>2
  <2>3. ASSUME NEW j \in F!Kinds, form'[j].submitting
        PROVE  \/ form'[j].last \in aborted'
               \/ F!UnderWay(call'[form'[j].last]) /\ call'[form'[j].last].heard
    <3>0. form[j].submitting /\ form'[j].last = form[j].last
      BY <1>4, <1>5, <2>3
    <3>1. form[j].submitting /\ form[j].last \in Requests /\ form'[j].last = form[j].last
      BY <3>0, LastCall
    <3>2. form[j].last \in aborted \/ (F!UnderWay(call[form[j].last]) /\ call[form[j].last].heard)
      BY <3>1 DEF FormsInv, F!OrphansOnlyByClose
    <3>3. CASE form[j].last = r
      <4>1. ~F!UnderWay(call[r]) \/ call[r].kind = j
        BY <3>1, <3>3 DEF FormsInv, LastOfKind
      <4> QED
        BY <1>1, <1>6, <2>3, <3>1, <3>2, <3>3, <4>1
    <3>4. CASE form[j].last # r
      BY <1>1, <1>3, <3>1, <3>2, <3>4 DEF F!UnderWay
    <3> QED
      BY <3>3, <3>4
  <2> QED
    BY <2>2, <2>3 DEF F!OrphansOnlyByClose
<1> QED
  BY <1>9, <1>10, <1>11 DEF FormsInv

\* A page replaces the rows; leaving the route aborts what is under way.
LEMMA FormsReload == FormsInv /\ F!Reload => FormsInv'
  BY DEF F!Reload, FormsInv, FormsTyped, LastOfKind, CallsAccounted, F!OrphansOnlyByClose, F!UnderWay

LEMMA FormsLeave == FormsInv /\ F!Leave => FormsInv'
<1> SUFFICES ASSUME FormsInv, F!Leave PROVE FormsInv'
  OBVIOUS
<1>1. /\ F!Aborting(F!Kinds) /\ created' = created /\ temp' = {}
      /\ form' = [k \in F!Kinds |-> F!Fresh]
  BY DEF F!Leave
<1>2. form' \in [F!Kinds -> Form] /\ \A k \in F!Kinds : form'[k].last = None /\ ~form'[k].submitting
  BY <1>1 DEF Form, F!Fresh
<1>3. F!Kinds \in SUBSET F!Kinds
  OBVIOUS
<1>4. call' \in [Requests -> F!Call \cup {None, Over}]
  BY <1>1, <1>3, Aborted DEF FormsInv
<1>5. \A r \in Requests : F!UnderWay(call'[r]) => F!UnderWay(call[r])
  BY <1>1, <1>3, Aborted DEF FormsInv
<1>6. \A r \in Requests : F!UnderWay(call[r]) => call'[r].applied = call[r].applied
  BY <1>1, <1>3, Aborted DEF FormsInv
<1>7. /\ call' \in [Requests -> F!Call \cup {None, Over}]
      /\ \A r \in Requests : F!UnderWay(call'[r]) => F!UnderWay(call[r]) /\ call'[r].applied = call[r].applied
  BY <1>4, <1>5, <1>6
<1> QED
  BY <1>1, <1>2, <1>7 DEF FormsInv, FormsTyped, LastOfKind, CallsAccounted, F!OrphansOnlyByClose

LEMMA FormsNext == FormsInv /\ [F!Next]_F!vars => FormsInv'
<1> SUFFICES ASSUME FormsInv, [F!Next]_F!vars PROVE FormsInv'
  OBVIOUS
<1>1. ASSUME NEW r \in Requests, F!Deliver(r) PROVE FormsInv'
  BY <1>1 DEF F!Deliver, FormsInv, FormsTyped, LastOfKind, CallsAccounted, F!OrphansOnlyByClose, F!UnderWay
<1>2. CASE UNCHANGED F!vars
  BY <1>2 DEF F!vars, FormsInv, FormsTyped, LastOfKind, CallsAccounted, F!OrphansOnlyByClose, F!UnderWay
<1> QED
  BY <1>1, <1>2, FormsEdit, FormsSubmit, FormsClose, FormsApply, FormsSucceed, FormsFail, FormsReload,
     FormsLeave DEF F!Next

\* Forms, calls and temporary rows fit together, whatever is submitted, answered,
\* closed, reloaded or left, and in whatever order.
THEOREM FormsInvariant == F!Spec => []FormsInv
BY FormsInitial, FormsNext, PTL DEF F!Spec

\* Whatever a user submits, closes and reopens, a temporary row outlives its call
\* only as the row of something created, or after a close; and so does the refusal
\* of a form (handleSubmit, handleClose).
THEOREM OrphansByClose == F!Spec => []OrphansOnlyByClose
<1>1. FormsInv => OrphansOnlyByClose
  BY DEF FormsInv, OrphansOnlyByClose, F!OrphansOnlyByClose
<1> QED
  BY <1>1, FormsInvariant, PTL

-----------------------------------------------------------------------------
(* The composition the run checks.                                           *)

\* A page runs as each of its three parts would alone, so that what is proved
\* of a part holds of the page (the store's cards, titles and temporary rows).
THEOREM PartsOfView == ShownSpec => Spec /\ T!Spec /\ F!Spec
<1>1. ShownInit => Init /\ T!Init /\ F!Init
  BY DEF ShownInit
<1> DEFINE shown_vars == <<part, vars, titles, forms>>
<1>2. [ShownNext]_shown_vars => [Next]_vars
  BY DEF ShownNext
<1>3. titles = T!vars
  BY DEF titles, T!vars
<1>4. [ShownNext]_shown_vars => [T!Next]_(T!vars)
  BY DEF ShownNext, titles, T!vars
<1>5. [ShownNext]_shown_vars => [F!Next]_(F!vars)
  BY DEF ShownNext, forms, F!vars
<1> QED
  BY <1>1, <1>2, <1>4, <1>5, PTL DEF ShownSpec, Spec, T!Spec, F!Spec

\* What the page shows, of all three parts, in every behaviour of the composition.
THEOREM ViewSound ==
  ShownSpec => [](/\ ViewFollowsEvents /\ CleanBoardConsistent /\ RestoredOnce
                  /\ ShownIsSaved /\ TypedTextKept /\ OrphansOnlyByClose)
BY PartsOfView, EventsFollowed, BucketsMatchRows, SnapshotRestoredOnce, TitlesShown, TextSent, OrphansByClose, PTL
=============================================================================
