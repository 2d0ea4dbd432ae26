---------------------------- MODULE SerialBoard ----------------------------
(* What the commands on a board promise, with no transaction, snapshot, lock   *)
(* or idempotency record: each takes effect in one step or not at all, on the  *)
(* rows as they are at that step, and leaves one event, under the board's next *)
(* sequence. That is what the client is told, then and however often it asks.  *)
EXTENDS Naturals, Sequences

CONSTANTS
    Boards, Lists, Cards, Mutations,
    Kind, CardOf, Target, Home, Unstated, Expect,   \* as in BoardWrites
    LogOf,       \* LogOf[m]: the board whose log command m extends
    Once         \* the commands that take effect at most once

VARIABLES card, listRev, moved, log, answers

vars == <<card, listRev, moved, log, answers>>

Init == /\ card = [c \in Cards |-> [list |-> Home[c], rev |-> 1, live |-> TRUE]]
        /\ listRev = [l \in Lists |-> 1] /\ moved = [l \in Lists |-> 0]
        /\ log = [b \in Boards |-> <<>>]
        /\ answers = [m \in Mutations |-> {}]

\* The places of a command's events in its log.
Places(m) == {i \in DOMAIN log[LogOf[m]] : log[LogOf[m]][i].m = m}

\* Its card is there and, if it states a revision, that is the current one.
Allowed(m) ==
    /\ m \in Once => Places(m) = {}
    /\ CardOf[m] \in Cards => card[CardOf[m]].live
    /\ Kind[m] = "updateCard" => Expect[m] \in {Unstated, card[CardOf[m]].rev}
    /\ Kind[m] = "moveCard" => Expect[m] \in {Unstated, listRev[Target[m]]}

RowAfter(m, row) ==
    CASE Kind[m] = "moveCard" -> [row EXCEPT !.list = Target[m]]
      [] Kind[m] = "updateCard" -> [row EXCEPT !.rev = @ + 1]
      [] OTHER -> [row EXCEPT !.live = FALSE]

\* The lists whose revision a command on a card of list l increments.
Affected(m, l) == CASE Kind[m] = "moveCard" -> {l, Target[m]}
                    [] Kind[m] \in {"updateCard", "deleteCard"} -> {l}
                    [] Kind[m] = "createCard" -> {Target[m]}
                    [] OTHER -> {}

\* A command takes effect and succeeds.  The list of its event is its card's; that
\* of a command about no card is arbitrary.
Do(m) ==
    LET n == Len(log[LogOf[m]]) + 1 IN
    /\ Kind[m] # "moveList"
    /\ answers' = [answers EXCEPT ![m] = @ \cup {n}]
    /\ Allowed(m)
    /\ \E l \in Lists :
         /\ CardOf[m] \in Cards => l = card[CardOf[m]].list
         /\ listRev' = [k \in Lists |-> IF k \in Affected(m, l) THEN listRev[k] + 1
                                                               ELSE listRev[k]]
         /\ log' = [log EXCEPT ![LogOf[m]] = Append(@,
                      [m |-> m, seq |-> n, from |-> l,
                       base |-> IF Kind[m] = "updateCard" THEN card[CardOf[m]].rev
                                                          ELSE listRev[Target[m]]])]
    /\ card' = [c \in Cards |-> IF c = CardOf[m] THEN RowAfter(m, card[c]) ELSE card[c]]
    /\ UNCHANGED moved

\* The position of a list is written: no event, no success.
Drag(m) ==
    /\ Kind[m] = "moveList"
    /\ moved' = [moved EXCEPT ![Target[m]] = @ + 1]
    /\ UNCHANGED <<card, listRev, log, answers>>

Next == \E m \in Mutations : Do(m) \/ Drag(m)

Spec == Init /\ [][Next]_vars
=============================================================================
