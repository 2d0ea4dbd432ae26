------------------------------ MODULE CardOrder ------------------------------
(* Where a card stands in its list. The server gives every card a position, a  *)
(* string of a BASE-letter alphabet, strictly between the positions of the two *)
(* cards a client names (packages/domain/src/ordering, BoardService); clients  *)
(* show a list sorted by localeCompare and name the cards they see.            *)
(* Every command is one transaction behind the list's row lock (BoardWrites),  *)
(* so it is one step here. What a client hears of others' moves is left out:   *)
(* it raises no revision in its store, so a drop on a list that others changed *)
(* is refused whether it heard of the change or not.                           *)
EXTENDS Naturals, Sequences

CONSTANTS
    Cards,      \* cards that may be created
    Lists,      \* lists of the board
    Clients,    \* browser tabs showing the board
    Requests,   \* moves they may send
    Base,       \* POSITION_BASE: the letters are 0..Base-1, in alphabet order
    Letter,     \* what localeCompare compares first: the letter, its case apart
    Upper,      \* the upper-case letters
    MaxDepth,   \* POSITION_MAX_MIDPOINT_DEPTH
    Threshold,  \* POSITION_LENGTH_THRESHOLD of the rebalance worker
    None        \* no card, no position, no list

\* POSITION_ALPHABET, as indexes into it.
Alphabet == 0..Base - 1

ASSUME OrderAssumption ==
    /\ Base \in Nat /\ Base >= 3
    /\ MaxDepth \in Nat /\ MaxDepth >= 1
    /\ Threshold \in Nat /\ Threshold >= MaxDepth
    /\ None \notin Cards \cup Lists \cup Seq(Alphabet)
    /\ Letter \in [Alphabet -> Nat] /\ Upper \subseteq Alphabet

VARIABLES
    home,      \* the list of each card, None if it does not exist or is deleted
    pos,       \* the position column, None until the card is created
    revision,  \* the revision of each list
    view,      \* the board each client holds
    req        \* the moves sent, and how they ended

server == <<home, pos, revision>>
vars == <<server, view, req>>
-----------------------------------------------------------------------------
\* The letter at depth i: a position is read as if padded with the first letter.
Digit(p, i) == IF i \in 1..Len(p) THEN p[i] ELSE 0

\* comparePositions(p, q) < 0
Less(p, q) ==
    \/ \E i \in 1..Len(q) : /\ Digit(p, i) < Digit(q, i)
                            /\ \A j \in 1..i - 1 : Digit(p, j) = Digit(q, j)
    \/ /\ Len(p) < Len(q)
       /\ \A i \in 1..Len(q) : Digit(p, i) = Digit(q, i)

\* Past its end the right neighbour leaves the whole alphabet open.
Bound(q, i) == IF i \in 1..Len(q) THEN q[i] ELSE Base

RoomAt(p, q, d) == Bound(q, d) > Digit(p, d) + 1

FirstRoom(p, q, d) == /\ RoomAt(p, q, d)
                      /\ \A e \in 1..d - 1 : ~RoomAt(p, q, e)

\* Variant: the search goes on to POSITION_MAX_LENGTH.
DepthsToTwice == 1..2 * MaxDepth

Depths == 1..MaxDepth

\* midpoint(p, q), None where it throws: the first depth with a letter to spare.
Midpoint(p, q) ==
    IF \E d \in Depths : FirstRoom(p, q, d)
    THEN LET d == CHOOSE d \in Depths : FirstRoom(p, q, d)
         IN [i \in 1..d |-> IF i < d THEN Digit(p, i)
                            ELSE (Digit(p, d) + Bound(q, d)) \div 2]
    ELSE None

AllLast(p) == \A i \in 1..Len(p) : p[i] = Base - 1

\* generatePosition(prev, next), None where it throws.
Generate(prev, next) ==
    IF prev = None /\ next = None THEN <<Base \div 2>>
    ELSE IF prev = None THEN IF next = <<0>> THEN None ELSE Midpoint(<<0>>, next)
    ELSE IF next = None THEN IF AllLast(prev) THEN Append(prev, Base \div 2)
                             ELSE Midpoint(prev, <<Base - 1>>)
    ELSE IF Less(prev, next) THEN Midpoint(prev, next) ELSE None

\* a.localeCompare(b) < 0: letters first, then case, lower before upper.
Before(s, t) == \E i \in 1..Len(t) : /\ i > Len(s) \/ s[i] < t[i]
                                     /\ \A j \in 1..i - 1 : j <= Len(s) /\ s[j] = t[j]
LocaleLess(p, q) ==
    LET letters(r) == [i \in 1..Len(r) |-> Letter[r[i]]]
        cases(r) == [i \in 1..Len(r) |-> IF r[i] \in Upper THEN 1 ELSE 0]
    IN \/ Before(letters(p), letters(q))
       \/ letters(p) = letters(q) /\ Before(cases(p), cases(q))
-----------------------------------------------------------------------------
In(where, l) == {c \in Cards : where[c] = l}

\* The list as it stands without one of its cards.
Chain(where, at, l, card) == [c \in In(where, l) \ {card} |-> at[c]]

\* initBoard and applyCardMoved sort by localeCompare, ties by id.
ShownBefore(v, c, d) == ~LocaleLess(v.pos[d], v.pos[c])

\* Where a card may be dropped in l: the card shown above, the card shown below.
Gaps(v, l, card) ==
    LET S == In(v.home, l) \ {card}
    IN {g \in (S \cup {None}) \X (S \cup {None}) :
          LET prev == g[1]  next == g[2]
          IN /\ prev # None => prev # next
             /\ prev # None /\ next # None => ShownBefore(v, prev, next)
             /\ \A c \in S \ {prev, next} :
                  \/ prev # None /\ ShownBefore(v, c, prev)
                  \/ next # None /\ ShownBefore(v, next, c)}

Board == [home |-> home, pos |-> pos, revision |-> revision, touched |-> {}]

Init == /\ home = [c \in Cards |-> None] /\ pos = [c \in Cards |-> None]
        /\ revision = [l \in Lists |-> 1]
        /\ view = [k \in Clients |-> Board]
        /\ req = [r \in Requests |-> [status |-> "unsent"]]

\* Variant: ORDER BY position under a locale's collation.
LastShownIn(l) == IF In(home, l) = {} THEN {None}
                  ELSE {c \in In(home, l) :
                          \A d \in In(home, l) : ~LocaleLess(pos[c], pos[d])}

\* ORDER BY position DESC LIMIT 1: any of them, if several are last.
LastCardIn(l) == IF In(home, l) = {} THEN {None}
                 ELSE {c \in In(home, l) : \A d \in In(home, l) : ~Less(pos[c], pos[d])}

Positioned(at, c) == IF c = None THEN None ELSE at[c]

CreateCard(c, l) == /\ pos[c] = None
                    /\ \E last \in LastCardIn(l) :
                         LET p == Generate(Positioned(pos, last), None)
                         IN /\ p # None             \* or the command throws
                            /\ pos' = [pos EXCEPT ![c] = p]
                    /\ home' = [home EXCEPT ![c] = l]
                    /\ revision' = [revision EXCEPT ![l] = @ + 1]
                    /\ UNCHANGED <<view, req>>

DeleteCard(c) == /\ home[c] # None
                 /\ home' = [home EXCEPT ![c] = None]
                 /\ revision' = [revision EXCEPT ![home[c]] = @ + 1]
                 /\ UNCHANGED <<pos, view, req>>

\* The board query is one statement: cards and revisions of the same instant.
Load(k) == /\ view' = [view EXCEPT ![k] = Board]
           /\ UNCHANGED <<server, req>>

\* A drop: the engine computes a position from the store, or throws and sends
\* nothing; the move names the neighbours shown and the revisions in the store.
Drop(k, r, card, to) ==
    LET v == view[k]
        lists == {v.home[card], to}
    IN /\ req[r].status = "unsent"
       /\ v.home[card] # None
       /\ \E g \in Gaps(v, to, card) :
            LET p == Generate(Positioned(v.pos, g[1]), Positioned(v.pos, g[2]))
            IN /\ p # None
               /\ view' = [view EXCEPT ![k] =
                             [v EXCEPT !.home[card] = to, !.pos[card] = p,
                                       !.touched = @ \cup lists]]
               /\ req' = [req EXCEPT ![r] =
                            [card |-> card, to |-> to, prev |-> g[1], next |-> g[2],
                             lists |-> lists, revision |-> v.revision,
                             own |-> lists \cap v.touched, status |-> "sent",
                             seen |-> Chain(v.home, v.pos, to, card),
                             found |-> Chain(v.home, v.pos, to, card)]]
       /\ UNCHANGED server

\* Variant: only the revision of the list the card leaves is compared.
CurrentAtSource(m) == revision[home[m.card]] = m.revision[home[m.card]]

Current(m) == \A l \in m.lists : revision[l] = m.revision[l]

\* A neighbour is read wherever it is now; one that is gone counts as none.
PositionNow(c) == IF c = None THEN None ELSE IF home[c] = None THEN None ELSE pos[c]

Accepted(m) == /\ home[m.card] # None
               /\ Current(m)
               /\ Generate(PositionNow(m.prev), PositionNow(m.next)) # None

\* The cards named are next to each other in the list, by their positions.
Consecutive(m) ==
    LET S == In(home, m.to) \ {m.card}
    IN /\ {m.prev, m.next} \subseteq S \cup {None}
       /\ \A c \in S \ {m.prev, m.next} :
            \/ m.prev # None /\ Less(pos[c], pos[m.prev])
            \/ m.next # None /\ Less(pos[m.next], pos[c])

MoveCard(r) ==
    LET m == req[r]
    IN /\ m.status = "sent" /\ Accepted(m)
       /\ home' = [home EXCEPT ![m.card] = m.to]
       /\ pos' = [pos EXCEPT ![m.card] =
                    Generate(PositionNow(m.prev), PositionNow(m.next))]
       /\ revision' = [l \in Lists |-> IF l \in {home[m.card], m.to}
                                       THEN revision[l] + 1 ELSE revision[l]]
       /\ req' = [req EXCEPT ![r] =
                    [m EXCEPT !.status = IF Consecutive(m) THEN "placed" ELSE "misplaced",
                              !.found = Chain(home, pos, m.to, m.card)]]
       /\ UNCHANGED view

\* NOT_FOUND, STALE_REVISION or CORRUPTED_CHAIN.
RefuseMove(r) == /\ req[r].status = "sent" /\ ~Accepted(req[r])
                 /\ req' = [req EXCEPT ![r] = [req[r] EXCEPT !.status = "refused"]]
                 /\ UNCHANGED <<server, view>>

Next == \/ \E c \in Cards, l \in Lists : CreateCard(c, l)
        \/ \E c \in Cards : DeleteCard(c)
        \/ \E k \in Clients : Load(k)
        \/ \E k \in Clients, r \in Requests, c \in Cards, l \in Lists : Drop(k, r, c, l)
        \/ \E r \in Requests : MoveCard(r) \/ RefuseMove(r)

Spec == Init /\ [][Next]_vars
-----------------------------------------------------------------------------
Positions == {p \in Seq(Alphabet) : /\ Len(p) \in 1..MaxDepth
                                       /\ p[1] # Base - 1 /\ p[Len(p)] # 0}

TypeOK == /\ home \in [Cards -> Lists \cup {None}]
          /\ pos \in [Cards -> Positions \cup {None}]
          /\ \A c \in Cards : home[c] # None => pos[c] # None
          /\ revision \in [Lists -> Nat]

\* An accepted move found its list as the drop showed it: whatever others created,
\* moved or deleted in between raised a revision the move states. Drops on a list
\* the client itself had moved cards in since it loaded the board are apart.
AcceptedAsSeen ==
    \A r \in Requests :
        req[r].status \in {"placed", "misplaced"} /\ req[r].own = {} =>
            req[r].found = req[r].seen

\* Two cards of a list share a position only where a move was accepted between
\* two cards that are not next to each other by position: appends never do it.
TwinsOnlyByDisorder ==
    \A c, d \in Cards : c # d /\ home[c] # None /\ home[c] = home[d] /\ pos[c] = pos[d] =>
        \E r \in Requests : /\ req[r].status = "misplaced"
                            /\ req[r].card \in {c, d} /\ req[r].to = home[c]

\* LENGTH(position) > POSITION_LENGTH_THRESHOLD: the lists the worker repairs.
ScannedLists == {l \in Lists : \E c \in In(home, l) : Len(pos[c]) > Threshold}

\* The rebalance worker never finds a list to repair: midpoint gives up, and
\* refuses the card, before a position is long enough for its scan.
NothingToRebalance == ScannedLists = {}

\* A client shows the cards of a list in the order of their positions.
ShownInOrder == \A l \in Lists : \A c, d \in In(home, l) :
                  Less(pos[c], pos[d]) => LocaleLess(pos[c], pos[d])
=============================================================================
