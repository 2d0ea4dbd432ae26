--------------------------- MODULE MCAccountsBoards ---------------------------
(* Small instances for TLC of the accounts of the application (Accounts) and  *)
(* of a board with its members (Boards).  A board's requests take any user    *)
(* for signed in who calls them, so the two write no common table and run     *)
(* apart: part says which of them does.                                      *)
EXTENDS Accounts, TLC

CONSTANTS BoardUsers, Creator, BoardSlots, MaxRows, MaxBoardRequests, NoRow, NoUser, NoRequest

VARIABLES
    part,       \* which of the two modules runs
    row, board, owner, workspace, boardReq, boardIssued, told, toldRole, missed

B == INSTANCE Boards WITH
       Users <- BoardUsers, Slots <- BoardSlots, MaxRequests <- MaxBoardRequests,
       req <- boardReq, issued <- boardIssued

ASSUME BoardsAssumption == B!BoardsAssumption

boards == <<row, board, owner, workspace, boardReq, boardIssued, told, toldRole, missed>>

\* A part that does not run starts in one state only.
MembersInit ==
    /\ part \in {"accounts", "board"}
    /\ Init /\ B!Init
    /\ part # "board" => owner = Creator
MembersNext ==
    \/ part = "accounts" /\ Next /\ UNCHANGED <<part, boards>>
    \/ part = "board" /\ B!Next /\ UNCHANGED <<part, vars>>
MembersSpec == MembersInit /\ [][MembersNext]_<<part, vars, boards>>

\* The invariants of Boards, stated of the composition.
\* The creator stays the board's one owner (removeMember, changeRole).
BoardKeepsOwner == B!BoardKeepsOwner
\* A user has one active row, however invitations race (inviteMember).
OneActiveRow == B!OneActiveRow
\* Events tell the board and its members (board-management.ts, board-members.ts).
EventsTellBoard == B!EventsTellBoard

\* The board's users and slots share model values with the addresses and requests
\* of the accounts, so that one small group of permutations is a symmetry of both.
Interchangeable == Permutations(Requests) \cup Permutations(Emails)
=============================================================================
