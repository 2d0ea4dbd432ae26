--------------------------- MODULE MCBoardWrites ---------------------------
(* One board with two lists and a card in the first. Its users move the card   *)
(* to and fro, edit and delete it, add cards and lists, and drag the first list. *)
EXTENDS BoardWrites

CONSTANTS t1, t2, b1, todo, done, card1, there, back, edit, delete, add, newList, drag

MCKind == [m \in Mutations |->
    CASE m \in {there, back} -> "moveCard" [] m = edit -> "updateCard"
      [] m = delete -> "deleteCard" [] m = add -> "createCard"
      [] m = newList -> "createList" [] m = drag -> "moveList"]
MCCardOf == [m \in Mutations |-> IF MCKind[m] \in CardKinds THEN card1 ELSE NoCard]
MCTarget == [m \in Mutations |-> IF m \in {there, add} THEN done ELSE todo]
MCBoardOf == [x \in Lists \cup Cards |-> b1]
MCHome == [c \in Cards |-> todo]
\* The client that edits saw the card as it was at first, the one that moves it
\* there saw the second list as it was at first.
MCExpect == [m \in Mutations |-> IF m \in {edit, there} THEN 1 ELSE Unstated]
\* Bound: a command is sent once or twice.
MCMaxAttempts == [m \in Mutations |-> IF m \in {there, add} THEN 2 ELSE 1]
=============================================================================
