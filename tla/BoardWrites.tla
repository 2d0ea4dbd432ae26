----------------------------- MODULE BoardWrites -----------------------------
(* packages/api/src/services/board.service.ts and the list handlers of         *)
(* packages/domain: the commands that change a board. Each attempt at one runs *)
(* in a SERIALIZABLE transaction that looks up the idempotency record, locks   *)
(* the rows it reads or writes in the order of the code, takes the board's     *)
(* next sequence, appends the event to outbox_events and saves the record. It  *)
(* reads from the snapshot it began with, its writes appear when it commits,   *)
(* and PostgreSQL refuses it a row that another one has changed since. An      *)
(* attempt that fails is not repeated by the server; the client may do so.     *)
EXTENDS Naturals, Sequences, FiniteSets

CONSTANTS
    Boards, Lists, Cards,
    Mutations,   \* commands, each with its mutationId
    Txs,         \* database connections
    NoMutation, NoCard,
    Kind,        \* Kind[m]: which command m is
    CardOf,      \* CardOf[m]: the card of a moveCard, updateCard or deleteCard
    Target,      \* Target[m]: the list a card is moved to, or a command is about
    BoardOf,     \* BoardOf[x]: the board_id column of a list or a card
    Home,        \* Home[c]: the list a card is in at first
    Unstated,    \* no expectedRevision
    Expect,      \* Expect[m]: the revision the client saw, of card or target list
    MaxAttempts  \* bound: MaxAttempts[m] is how often m is sent

CardKinds == {"moveCard", "updateCard", "deleteCard"}
Kinds == CardKinds \cup {"createCard", "createList", "moveList"}

ASSUME CommandAssumption ==
    /\ NoMutation \notin Mutations /\ NoCard \notin Cards /\ Unstated \notin Nat
    /\ Lists # {}
    /\ Kind \in [Mutations -> Kinds]
    /\ CardOf \in [Mutations -> Cards \cup {NoCard}]
    /\ \A m \in Mutations : Kind[m] \in CardKinds <=> CardOf[m] \in Cards
    /\ Target \in [Mutations -> Lists] /\ Home \in [Cards -> Lists]
    /\ BoardOf \in [Lists \cup Cards -> Boards]
    /\ Expect \in [Mutations -> Nat \cup {Unstated}]
    /\ MaxAttempts \in [Mutations -> Nat]

\* The rows that transactions lock. A key row is locked by its insertion.
CardRow(c) == <<"card", c>>
ListRow(l) == <<"list", l>>
BoardRow(b) == <<"board", b>>
CounterRow(b) == <<"counter", b>>
KeyRow(m) == <<"key", m>>
Rows == UNION {{CardRow(c) : c \in Cards}, {ListRow(l) : l \in Lists},
               {BoardRow(b) : b \in Boards}, {CounterRow(b) : b \in Boards},
               {KeyRow(m) : m \in Mutations}}

VARIABLES
    card,      \* committed: list_id, revision and whether deleted_at is null
    listRev,   \* committed: the revision column of each list
    moved,     \* committed: how often the position of each list was written
    counter,   \* committed: board_sequences.next_value
    log,       \* committed: the events of each board in outbox_events, in the
               \* order of their commits
    keys,      \* committed: the response in idempotency_keys, 0 if there is none
    locked,    \* the rows each transaction has locked
    tx,        \* the transaction each connection is in
    answers,   \* the sequences of the successes each command was answered with
    attempts   \* how often each command was sent

vars == <<card, listRev, moved, counter, log, keys, locked, tx, answers, attempts>>
tables == <<card, listRev, moved, counter, log, keys>>

\* m: the command; at: the rows it has locked so far; stale: the rows that others
\* have changed since its snapshot; list, rev, live, targetRev: what the snapshot
\* says of its card and its target list; seq: the sequence it has taken.
NoCardSeen == [list |-> CHOOSE l \in Lists : TRUE, rev |-> 0, live |-> FALSE]
Idle == [m |-> NoMutation, at |-> 0, stale |-> {}, seen |-> NoCardSeen,
         targetRev |-> 0, seq |-> 0]

Init == /\ card = [c \in Cards |-> [list |-> Home[c], rev |-> 1, live |-> TRUE]]
        /\ listRev = [l \in Lists |-> 1] /\ moved = [l \in Lists |-> 0]
        /\ counter = [b \in Boards |-> 0] /\ log = [b \in Boards |-> <<>>]
        /\ keys = [m \in Mutations |-> 0]
        /\ locked = [t \in Txs |-> {}] /\ tx = [t \in Txs |-> Idle]
        /\ answers = [m \in Mutations |-> {}]
        /\ attempts = [m \in Mutations |-> 0]
-----------------------------------------------------------------------------
(* The commands *)

\* Variant: nor does card creation.
KeyedUnlessCreated(m) == Kind[m] \notin {"createCard", "createList", "moveList"}

\* The list handlers take a mutationId and do not look at it.
Keyed(m) == Kind[m] \notin {"createList", "moveList"}

\* The board whose sequence and log a command extends.
BoardFor(m) == BoardOf[IF Kind[m] \in {"updateCard", "deleteCard"} THEN CardOf[m]
                                                                  ELSE Target[m]]

\* The rows a command locks, in its order; its card is in list s.
Steps(m, s) ==
    LET b == BoardFor(m) IN
    CASE Kind[m] = "moveCard" ->
           <<CardRow(CardOf[m]), ListRow(Target[m]), BoardRow(b), ListRow(s),
             CounterRow(b), KeyRow(m)>>
      [] Kind[m] \in {"updateCard", "deleteCard"} ->
           <<CardRow(CardOf[m]), ListRow(s), CounterRow(b), BoardRow(b), KeyRow(m)>>
      [] Kind[m] = "createCard" ->
           <<ListRow(Target[m]), CounterRow(b), BoardRow(b), KeyRow(m)>>
      [] Kind[m] = "createList" -> <<BoardRow(b), CounterRow(b)>>
      [] OTHER -> <<ListRow(Target[m])>>

\* Variant: a move does not compare the revisions its user saw.
RefusalButForMoves(x) ==
    \/ Kind[x.m] \in CardKinds /\ x.at = 0 /\ ~x.seen.live
    \/ Kind[x.m] = "updateCard" /\ x.at = 1 /\ Expect[x.m] \notin {Unstated, x.seen.rev}

\* The early returns: NOT_FOUND on the first read, STALE_REVISION after the card
\* of an updateCard or the board row of a moveCard is locked. Nothing has been
\* written by then. The returns that depend on the user, the access control list
\* or the positions of neighbours are among the outcomes of Abort.
Refusal(x) ==
    \/ Kind[x.m] \in CardKinds /\ x.at = 0 /\ ~x.seen.live
    \/ Kind[x.m] = "updateCard" /\ x.at = 1 /\ Expect[x.m] \notin {Unstated, x.seen.rev}
    \/ Kind[x.m] = "moveCard" /\ x.at = 3 /\ Expect[x.m] \notin {Unstated, x.targetRev}
-----------------------------------------------------------------------------
(* Transactions *)

\* The idempotency record is in the snapshot: the recorded response is returned.
Replay(m) == /\ attempts[m] < MaxAttempts[m]
             /\ Keyed(m) /\ keys[m] # 0
             /\ attempts' = [attempts EXCEPT ![m] = @ + 1]
             /\ answers' = [answers EXCEPT ![m] = @ \cup {keys[m]}]
             /\ UNCHANGED <<tables, locked, tx>>

Begin(t, m) ==
    /\ tx[t].m = NoMutation
    /\ attempts[m] < MaxAttempts[m]
    /\ Keyed(m) => keys[m] = 0
    /\ attempts' = [attempts EXCEPT ![m] = @ + 1]
    /\ tx' = [tx EXCEPT ![t] = [Idle EXCEPT
                !.m = m,
                !.seen = IF CardOf[m] \in Cards THEN card[CardOf[m]] ELSE NoCardSeen,
                !.targetRev = listRev[Target[m]]]]
    /\ UNCHANGED <<tables, locked, answers>>

NextRow(x) == Steps(x.m, x.seen.list)[x.at + 1]
HasNextRow(x) == x.m \in Mutations /\ x.at < Len(Steps(x.m, x.seen.list))
Free(r) == \A t \in Txs : r \notin locked[t]

\* Variant: READ COMMITTED does not mind.
NeverRefused(t, r) == FALSE

\* 40001 for a row changed since the snapshot, 23505 for a key that is there.
Refused(t, r) == r \in tx[t].stale \/ (r = KeyRow(tx[t].m) /\ keys[tx[t].m] # 0)

\* nextBoardSequence is an update of the counter's row, committed with the rest.
TakeSequence(t, r) ==
    \E b \in {BoardFor(tx[t].m)} :
       /\ tx' = [tx EXCEPT ![t].at = @ + 1,
                           ![t].seq = IF r = CounterRow(b) THEN counter[b] + 1 ELSE @]
       /\ UNCHANGED counter

\* A row is locked once whoever holds it has ended.
Lock(t) ==
    /\ HasNextRow(tx[t]) /\ ~Refusal(tx[t])
    /\ LET r == NextRow(tx[t]) IN
       /\ r \in locked[t] \/ Free(r)
       /\ ~Refused(t, r)
       /\ locked' = [locked EXCEPT ![t] = @ \cup {r}]
       /\ TakeSequence(t, r)
    /\ UNCHANGED <<card, listRev, moved, log, keys, answers, attempts>>

End(t) == /\ tx' = [tx EXCEPT ![t] = Idle]
          /\ locked' = [locked EXCEPT ![t] = {}]

\* An early return: a failure is answered.
Refuse(t) == /\ tx[t].m \in Mutations /\ Refusal(tx[t])
             /\ End(t)
             /\ UNCHANGED <<tables, answers, attempts>>

\* The transaction is rolled back: a row it is refused, a serialization failure,
\* a deadlock, no position left, a lost connection.
Abort(t) == /\ tx[t].m \in Mutations
            /\ End(t)
            /\ UNCHANGED <<tables, answers, attempts>>

\* After a commit that writes the rows W, they are stale to those that run on.
EndWriting(t, W) ==
    /\ tx' = [u \in Txs |-> CASE u = t -> Idle
                              [] u # t /\ tx[u].m # NoMutation ->
                                   [tx[u] EXCEPT !.stale = @ \cup W]
                              [] OTHER -> tx[u]]
    /\ locked' = [locked EXCEPT ![t] = {}]
-----------------------------------------------------------------------------
(* Commits *)

\* The lists whose revision a command increments.
Touched(x) == CASE Kind[x.m] = "moveCard" -> {x.seen.list, Target[x.m]}
                [] Kind[x.m] \in {"updateCard", "deleteCard"} -> {x.seen.list}
                [] Kind[x.m] = "createCard" -> {Target[x.m]}
                [] OTHER -> {}

\* save writes the card that was read, with what the command changes; a move
\* leaves the revision as it is and delete sets deleted_at alone.
CardAfter(x, row) ==
    CASE Kind[x.m] = "moveCard" -> [row EXCEPT !.list = Target[x.m]]
      [] Kind[x.m] = "updateCard" ->
            [row EXCEPT !.list = x.seen.list, !.rev = x.seen.rev + 1]
      [] OTHER -> [row EXCEPT !.live = FALSE]

\* The event, with the revision that its expectedRevision speaks of.
EventOf(x) == [m |-> x.m, seq |-> x.seq, from |-> x.seen.list,
               base |-> IF Kind[x.m] = "updateCard" THEN card[CardOf[x.m]].rev
                                                    ELSE listRev[Target[x.m]]]

\* The rows it has written; the row of the board is only read, but by createList.
Written(x) == UNION {{ListRow(l) : l \in Touched(x)}, {CounterRow(BoardFor(x.m))},
                     IF CardOf[x.m] \in Cards THEN {CardRow(CardOf[x.m])} ELSE {},
                     IF Keyed(x.m) THEN {KeyRow(x.m)} ELSE {},
                     IF Kind[x.m] = "createList" THEN {BoardRow(BoardFor(x.m))} ELSE {}}

\* Variant: the response is built from the sequence before this one.
ResponseBefore(x) == x.seq - 1

\* The boardSequence of the success that is recorded and answered.
Response(x) == x.seq

\* Its last statement is the insertion of the idempotency record, if any.
Finish(t) ==
    LET x == tx[t]  b == BoardFor(x.m) IN
    /\ x.m \in Mutations /\ ~HasNextRow(x) /\ Kind[x.m] # "moveList"
    /\ card' = [c \in Cards |-> IF c = CardOf[x.m] THEN CardAfter(x, card[c]) ELSE card[c]]
    /\ listRev' = [l \in Lists |-> IF l \in Touched(x) THEN listRev[l] + 1 ELSE listRev[l]]
    /\ counter' = [counter EXCEPT ![b] = x.seq]
    /\ log' = [log EXCEPT ![b] = Append(@, EventOf(x))]
    /\ keys' = [keys EXCEPT ![x.m] = IF Keyed(x.m) THEN Response(x) ELSE @]
    /\ answers' = [answers EXCEPT ![x.m] = @ \cup {Response(x)}]
    /\ EndWriting(t, Written(x))
    /\ UNCHANGED <<moved, attempts>>

\* moveList: save asks the result for rowCount, which postgres-js calls count,
\* so it reports a conflict. The early return commits the position it wrote.
SaveList(t) ==
    /\ tx[t].m \in Mutations /\ ~HasNextRow(tx[t]) /\ Kind[tx[t].m] = "moveList"
    /\ moved' = [moved EXCEPT ![Target[tx[t].m]] = @ + 1]
    /\ EndWriting(t, {ListRow(Target[tx[t].m])})
    /\ UNCHANGED <<card, listRev, counter, log, keys, answers, attempts>>

Attempt(m) == Replay(m) \/ \E t \in Txs : Begin(t, m)
Step(t) == Lock(t) \/ Refuse(t) \/ Abort(t) \/ Finish(t) \/ SaveList(t)
Next == (\E m \in Mutations : Attempt(m)) \/ (\E t \in Txs : Step(t))

Spec == Init /\ [][Next]_vars
-----------------------------------------------------------------------------
(* Properties *)

Events == [m : Mutations, seq : Nat, from : Lists, base : Nat]
CardRows == [list : Lists, rev : Nat, live : BOOLEAN]
Transactions == [m : Mutations \cup {NoMutation}, at : Nat, stale : SUBSET Rows,
                 seen : CardRows, targetRev : Nat, seq : Nat]

\* Every variable has its type, and only a running transaction holds locks.
TypeOK ==
    /\ card \in [Cards -> CardRows]
    /\ listRev \in [Lists -> Nat] /\ moved \in [Lists -> Nat]
    /\ counter \in [Boards -> Nat] /\ log \in [Boards -> Seq(Events)]
    /\ keys \in [Mutations -> Nat]
    /\ locked \in [Txs -> SUBSET Rows] /\ tx \in [Txs -> Transactions]
    /\ answers \in [Mutations -> SUBSET Nat] /\ attempts \in [Mutations -> Nat]
    /\ \A t \in Txs : tx[t].m = NoMutation => locked[t] = {}

\* The events of a board are committed in the order of their sequences and no
\* sequence is left out, whichever attempts fail: what the clients' gap
\* detection and the catch-up by sequence rely on.
DenseLog == \A b \in Boards : /\ counter[b] = Len(log[b])
                              /\ \A i \in 1..Len(log[b]) : log[b][i].seq = i

\* A command about a card takes effect at most once, however often it is sent,
\* and whichever of its attempts run at the same time.
AppliedOnce ==
    \A b, d \in Boards : \A i \in DOMAIN log[b], j \in DOMAIN log[d] :
       (log[b][i].m = log[d][j].m /\ Kind[log[b][i].m] \in CardKinds \cup {"createCard"})
          => b = d /\ i = j

\* Whatever a client is told succeeded is in the log, under the sequence that it
\* was told, be it by the attempt that did it or by a replay.
AnswersAgree ==
    \A m \in Mutations : \A n \in answers[m] :
       n \in 1..Len(log[BoardFor(m)]) /\ log[BoardFor(m)][n].m = m

\* The events about a card in the log of its board, each by its place there.
EventsAbout(c) == {i \in DOMAIN log[BoardOf[c]] : CardOf[log[BoardOf[c]][i].m] = c}
ListAfter(e) == IF Kind[e.m] = "moveCard" THEN Target[e.m] ELSE e.from
LastOf(E, i) == \A k \in E : k <= i
NextOf(E, i, j) == i < j /\ \A k \in E : k <= i \/ j <= k

\* The events at the places E of the log h tell how a card that was in a list at
\* first came to be this row: each starts where the one before left the card,
\* none follows its deletion, and to apply them all gives the row.
Tells(h, E, first, row) ==
    /\ \A i \in E : (\A k \in E : i <= k) => h[i].from = first
    /\ \A i, j \in E : NextOf(E, i, j) => h[j].from = ListAfter(h[i])
    /\ \A i \in E : Kind[h[i].m] = "deleteCard" => LastOf(E, i)
    /\ E = {} => row.list = first
    /\ \A i \in E : LastOf(E, i) => row.list = ListAfter(h[i])
    /\ row.rev = 1 + Cardinality({i \in E : Kind[h[i].m] = "updateCard"})
    /\ row.live <=> \A i \in E : Kind[h[i].m] # "deleteCard"

StaysOnBoard(c) == \A m \in Mutations : CardOf[m] = c => BoardFor(m) = BoardOf[c]

\* The events of a card that no command takes to another board tell its history,
\* though each command writes the card as it was in its own snapshot.
LogIsHistory ==
    \A c \in Cards : StaysOnBoard(c) =>
       Tells(log[BoardOf[c]], EventsAbout(c), Home[c], card[c])

\* A command with an expected revision takes effect on that revision only,
\* though it was compared in a snapshot that others commit behind.
AppliedOnExpectedRevision ==
    \A b \in Boards : \A i \in DOMAIN log[b] :
       Kind[log[b][i].m] \in {"moveCard", "updateCard"} =>
          Expect[log[b][i].m] \in {Unstated, log[b][i].base}

Serial == INSTANCE SerialBoard
            WITH LogOf <- [m \in Mutations |-> BoardFor(m)],
                 Once <- {m \in Mutations : Keyed(m)}

\* The transactions are serializable, in the order of their commits: though each
\* reads a snapshot that others commit behind, and may fail, be repeated or run
\* twice at a time, the tables, logs and answers change as by one command at a time.
ImplementsSerial == Serial!Spec
=============================================================================
