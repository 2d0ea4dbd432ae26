------------------------------- MODULE Boards -------------------------------
(***************************************************************************)
(* One board: its member rows, its lifecycle and its settings, the requests *)
(* that change them, and what the events of the outbox tell of them.        *)
(*                                                                         *)
(* No procedure of boards locks a row it decides on.  A request reads (the   *)
(* caller's membership, the board, the target's row) when it is admitted and *)
(* writes later, in the same READ COMMITTED transaction; the event it        *)
(* appends becomes visible with the write.                                  *)
(***************************************************************************)
EXTENDS Naturals, FiniteSets

CONSTANTS
    Users,
    Slots,        \* requests the server runs at a time
    MaxRows,      \* bound: member rows a user may have on the board
    MaxRequests,  \* bound: requests in a behaviour
    NoRow, NoRequest, NoUser

Grantable == {"ADMIN", "MEMBER"}          \* roles an input may name
RoleSet == Grantable \cup {"OWNER"}
Visibilities == {"workspace", "private"}
Titles == {"old", "new"}
Row == [role : RoleSet, removed : BOOLEAN]
Board == [archived : BOOLEAN, deleted : BOOLEAN, visibility : Visibilities, title : Titles]

Ops == {"insert", "reactivate", "removeMember", "changeRole", "archive", "unarchive",
        "softDelete", "restore", "updateVisibility", "renameBoard", "updateMetadata"}
Request == [op : Ops, to : Users \cup {NoUser}, row : 0..MaxRows,
            val : Grantable \cup Visibilities \cup Titles \cup {"none"}]

\* What the constants are assumed to be.
BoardsAssumption ==
    /\ MaxRows \in Nat \ {0} /\ MaxRequests \in Nat
    /\ NoRow \notin Row /\ NoRequest \notin Request /\ NoUser \notin Users

VARIABLES
    row,        \* board_members: user -> its rows by number
    board,      \* the boards row
    owner,      \* who created the board
    workspace,  \* members of the workspace (module Workspaces)
    req,        \* the request each slot runs
    issued,     \* requests admitted so far (bound)
    told,       \* the board as the published events describe it
    toldRole,   \* the members as the published events describe them
    missed      \* history: an event told of an update that found no row

vars == <<row, board, owner, workspace, req, issued, told, toldRole, missed>>

TypeOK ==
    /\ row \in [Users -> [1..MaxRows -> Row \cup {NoRow}]]
    /\ board \in Board
    /\ owner \in Users
    /\ workspace \subseteq Users
    /\ req \in [Slots -> Request \cup {NoRequest}]
    /\ issued \in 0..MaxRequests
    /\ told \in Board
    /\ toldRole \in [Users -> RoleSet \cup {"NONE"}]
    /\ missed \in BOOLEAN

Rows(u) == {n \in 1..MaxRows : row[u][n] # NoRow}
Active(u) == {n \in Rows(u) : ~row[u][n].removed}
RoleOf(u) ==
    IF Active(u) = {} THEN "NONE" ELSE row[u][CHOOSE n \in Active(u) : TRUE].role
Running(s) == req[s] # NoRequest

\* createBoard: the one place that writes the role OWNER, and no event.
Init ==
    /\ owner \in Users
    /\ row = [u \in Users |-> [n \in 1..MaxRows |->
                IF u = owner /\ n = 1 THEN [role |-> "OWNER", removed |-> FALSE] ELSE NoRow]]
    /\ board = [archived |-> FALSE, deleted |-> FALSE, visibility |-> "workspace", title |-> "old"]
    /\ workspace = Users
    /\ req = [s \in Slots |-> NoRequest]
    /\ issued = 0
    /\ told = board
    /\ toldRole = [u \in Users |-> IF u = owner THEN "OWNER" ELSE "NONE"]
    /\ missed = FALSE

-----------------------------------------------------------------------------
(* Admission: what a procedure reads, and rejects.                          *)

IsManager(u) == RoleOf(u) \in {"OWNER", "ADMIN"}

Writable == ~board.deleted /\ ~board.archived
WritableIfArchived == ~board.deleted

Req(op, to, n, val) == [op |-> op, to |-> to, row |-> n, val |-> val]

InviteRequests(u) ==
    { Req("insert", t, 0, x) : t \in {t \in workspace \ {u} : Rows(t) = {}}, x \in Grantable }
    \cup
    { r \in { Req("reactivate", t, n, x) : t \in workspace \ {u}, n \in 1..MaxRows, x \in Grantable } :
        r.row \in Rows(r.to) \ Active(r.to) }

\* Variant: the caller may remove itself.
RemoveRequestsSelf(u) ==
    { r \in { Req("removeMember", t, n, "none") : t \in Users, n \in 1..MaxRows } :
        /\ r.row \in Active(r.to)
        /\ RoleOf(r.to) = "OWNER" => RoleOf(u) = "OWNER" }

RemoveRequests(u) ==
    { r \in { Req("removeMember", t, n, "none") : t \in Users \ {u}, n \in 1..MaxRows } :
        /\ r.row \in Active(r.to)
        /\ RoleOf(r.to) = "OWNER" => RoleOf(u) = "OWNER" }

ChangeRoleRequests(u) ==
    { r \in { Req("changeRole", t, n, x) : t \in Users, n \in 1..MaxRows, x \in Grantable } :
        /\ r.row \in Active(r.to)
        /\ r.val = "ADMIN" => RoleOf(u) = "OWNER"
        /\ RoleOf(r.to) \notin {"OWNER", r.val} }

SettingsRequests(u) ==
    (IF Writable THEN
        { Req("archive", NoUser, 0, "none") }
        \cup { Req("updateVisibility", NoUser, 0, v) : v \in Visibilities \ {board.visibility} }
        \cup { Req("updateMetadata", NoUser, 0, t) : t \in Titles \ {board.title} }
        \cup (IF RoleOf(u) = "OWNER" THEN {Req("softDelete", NoUser, 0, "none")} ELSE {})
     ELSE {})
    \cup (IF WritableIfArchived THEN
        { Req("unarchive", NoUser, 0, "none") } \cup { Req("renameBoard", NoUser, 0, t) : t \in Titles }
     ELSE {})
    \cup (IF board.deleted /\ RoleOf(u) = "OWNER" THEN {Req("restore", NoUser, 0, "none")} ELSE {})

\* inviteMember reads the board, removeMember and changeRole do not.
Admissible(u) ==
    (IF board.deleted THEN {} ELSE InviteRequests(u))
    \cup RemoveRequests(u) \cup ChangeRoleRequests(u) \cup SettingsRequests(u)

\* A request that is rejected, or finds nothing to change, takes no slot.
Admit(s) ==
    /\ ~Running(s)
    /\ issued < MaxRequests
    /\ \E u \in Users : IsManager(u) /\ \E r \in Admissible(u) : req' = [req EXCEPT ![s] = r]
    /\ issued' = issued + 1
    /\ UNCHANGED <<row, board, owner, workspace, told, toldRole, missed>>

-----------------------------------------------------------------------------
(* The writes.  An active row that exists is a unique violation: the         *)
(* request cannot commit.                                                   *)

\* Variant: no unique index on the active rows.
InsertMemberTwice(r) ==
    /\ r.op = "insert"
    /\ \E n \in (1..MaxRows) \ Rows(r.to) :
         row' = [row EXCEPT ![r.to][n] = [role |-> r.val, removed |-> FALSE]]
    /\ toldRole' = [toldRole EXCEPT ![r.to] = r.val]
    /\ UNCHANGED <<board, told, missed>>

InsertMember(r) ==
    /\ r.op = "insert"
    /\ Active(r.to) = {}
    /\ \E n \in (1..MaxRows) \ Rows(r.to) :
         row' = [row EXCEPT ![r.to][n] = [role |-> r.val, removed |-> FALSE]]
    /\ toldRole' = [toldRole EXCEPT ![r.to] = r.val]
    /\ UNCHANGED <<board, told, missed>>

ReactivateMember(r) ==
    /\ r.op = "reactivate"
    /\ Active(r.to) \subseteq {r.row}
    /\ row' = [row EXCEPT ![r.to][r.row] = [role |-> r.val, removed |-> FALSE]]
    /\ toldRole' = [toldRole EXCEPT ![r.to] = r.val]
    /\ UNCHANGED <<board, told, missed>>

\* Variant: the removal appends no event.
RemoveMemberSilently(r) ==
    /\ r.op = "removeMember"
    /\ row' = [row EXCEPT ![r.to][r.row].removed = TRUE]
    /\ UNCHANGED <<board, told, toldRole, missed>>

RemoveMember(r) ==
    /\ r.op = "removeMember"
    /\ row' = [row EXCEPT ![r.to][r.row].removed = TRUE]
    /\ toldRole' = [toldRole EXCEPT ![r.to] = "NONE"]
    /\ UNCHANGED <<board, told, missed>>

\* The update names the row by its id, removed since or not; a subscriber has
\* no use for a new role of a user it was told is gone.
ChangeRole(r) ==
    /\ r.op = "changeRole"
    /\ row' = [row EXCEPT ![r.to][r.row].role = r.val]
    /\ toldRole' = [toldRole EXCEPT ![r.to] = IF @ = "NONE" THEN @ ELSE r.val]
    /\ UNCHANGED <<board, told, missed>>

\* The repository's setters match boards that are not deleted; the procedure
\* appends its event whether a row matched or not.
SetUnlessDeleted(new, heard) ==
    /\ board' = IF board.deleted THEN board ELSE new
    /\ told' = heard
    /\ missed' = (missed \/ board.deleted)
    /\ UNCHANGED <<row, toldRole>>

SetAlways(new, heard) ==
    /\ board' = new
    /\ told' = heard
    /\ UNCHANGED <<row, toldRole, missed>>

ArchiveBoard(r) ==
    /\ r.op = "archive"
    /\ SetUnlessDeleted([board EXCEPT !.archived = TRUE], [told EXCEPT !.archived = TRUE])

UnarchiveBoard(r) ==
    /\ r.op = "unarchive"
    /\ SetUnlessDeleted([board EXCEPT !.archived = FALSE], [told EXCEPT !.archived = FALSE])

UpdateVisibility(r) ==
    /\ r.op = "updateVisibility"
    /\ SetUnlessDeleted([board EXCEPT !.visibility = r.val], [told EXCEPT !.visibility = r.val])

SoftDeleteBoard(r) ==
    /\ r.op = "softDelete"
    /\ SetAlways([board EXCEPT !.deleted = TRUE], [told EXCEPT !.deleted = TRUE])

RestoreBoard(r) ==
    /\ r.op = "restore"
    /\ SetAlways([board EXCEPT !.deleted = FALSE], [told EXCEPT !.deleted = FALSE])

UpdateBoardMetadata(r) ==
    /\ r.op = "updateMetadata"
    /\ SetAlways([board EXCEPT !.title = r.val], [told EXCEPT !.title = r.val])

\* The legacy procedure appends no event.
RenameBoard(r) ==
    /\ r.op = "renameBoard"
    /\ SetAlways([board EXCEPT !.title = r.val], told)

Apply(r) ==
    \/ InsertMember(r) \/ ReactivateMember(r) \/ RemoveMember(r) \/ ChangeRole(r)
    \/ ArchiveBoard(r) \/ UnarchiveBoard(r) \/ UpdateVisibility(r)
    \/ SoftDeleteBoard(r) \/ RestoreBoard(r) \/ UpdateBoardMetadata(r) \/ RenameBoard(r)

Write(s) ==
    /\ Running(s)
    /\ Apply(req[s])
    /\ req' = [req EXCEPT ![s] = NoRequest]
    /\ UNCHANGED <<owner, workspace, issued>>

\* The request aborts: a violated constraint, a timeout or a crash.
Abort(s) ==
    /\ Running(s)
    /\ req' = [req EXCEPT ![s] = NoRequest]
    /\ UNCHANGED <<row, board, owner, workspace, issued, told, toldRole, missed>>

\* Members come and go in the workspace; their board rows stay.
WorkspaceChanges(u) ==
    /\ workspace' = IF u \in workspace THEN workspace \ {u} ELSE workspace \cup {u}
    /\ UNCHANGED <<row, board, owner, req, issued, told, toldRole, missed>>

Next ==
    \/ \E s \in Slots : Admit(s) \/ Write(s) \/ Abort(s)
    \/ \E u \in Users : WorkspaceChanges(u)

Spec == Init /\ [][Next]_vars

-----------------------------------------------------------------------------
(* No interleaving of invitations, removals and role changes takes the      *)
(* board from its owner, or gives it a second one: there is no procedure    *)
(* that could give it back.                                                 *)
BoardKeepsOwner == \A u \in Users : RoleOf(u) = "OWNER" <=> u = owner

(* A user has at most one active row: two invitations of one user that both *)
(* found no active row cannot both make one.                                *)
OneActiveRow == \A u \in Users : Cardinality(Active(u)) <= 1

(* What a request that raced the deletion of the board writes does not      *)
(* change it: a deleted board is archived and visible as it was, and comes  *)
(* back so.                                                                 *)
DeletedBoardFrozen ==
    [][board.deleted /\ board'.deleted =>
         board'.archived = board.archived /\ board'.visibility = board.visibility]_vars

(* The events, applied in the order of their commits, describe the board    *)
(* and its members: the settings unless an update came too late for the      *)
(* deletion of the board, a member unless racing invitations gave it a       *)
(* second row.                                                              *)
EventsTellBoard ==
    /\ told.deleted = board.deleted
    /\ ~missed => told.archived = board.archived /\ told.visibility = board.visibility
    /\ \A u \in Users : Cardinality(Rows(u)) <= 1 => toldRole[u] = RoleOf(u)
=============================================================================
