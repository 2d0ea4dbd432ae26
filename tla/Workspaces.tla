----------------------------- MODULE Workspaces -----------------------------
(***************************************************************************)
(* One workspace: its member rows, its owner pointer, its invitations, its  *)
(* soft deletion, and the request transactions that race on them.          *)
(*                                                                         *)
(* A request runs in one READ COMMITTED transaction (tenantContext.ts): it *)
(* is admitted on the caller's role, reads (and for some procedures locks) *)
(* the rows it decides on, and writes.  Its writes become visible when it  *)
(* commits, so Write is one step; what another request commits between the *)
(* read and the write is what the procedures have to survive.              *)
(***************************************************************************)
EXTENDS Naturals, FiniteSets

CONSTANTS
    Users,
    Assignable,   \* roles an input may name: OWNER is not one of them
    Invitations,
    Slots,        \* requests the server runs at a time
    Keys,         \* idempotency keys the clients use
    MaxRequests,  \* bound: requests in a behaviour
    NoUser, NoInvitation, NoKey, NoRequest

ASSUME AssignableAssumption ==
    /\ "ADMIN" \in Assignable
    /\ Assignable \cap {"OWNER", "NONE"} = {}
ASSUME AbsentAssumption ==
    /\ NoUser \notin Users
    /\ NoInvitation \notin Invitations
    /\ NoKey \notin Keys
ASSUME MaxRequestsAssumption == MaxRequests \in Nat

Roles == Assignable \cup {"OWNER", "NONE"}   \* NONE: no member row
Managers == {"OWNER", "ADMIN"}

VARIABLES
    role,       \* workspace_members: user -> role
    ownerId,    \* workspaces.owner_id
    status,     \* workspaces row: absent, live, deleted, or expired (30 days deleted)
    inv,        \* workspace_invitations: [status, to, role, expired]
    saved,      \* idempotency_keys
    req,        \* the request each slot runs
    issued,     \* requests admitted so far (bound)
    applied,    \* history: how often the mutation of a key was carried out
    overwrote   \* history: an updateRole was written over an OWNER row

vars == <<role, ownerId, status, inv, saved, req, issued, applied, overwrote>>

UnlockedOps == {"updateRole", "create", "revoke", "accept", "inviteMember",
                "delete", "restore"}
LockingOps == {"remove", "leave", "transferOwnership"}
Request == [op : UnlockedOps \cup LockingOps, by : Users, to : Users \cup {NoUser},
            role : Assignable \cup {"NONE"}, inv : Invitations \cup {NoInvitation},
            key : Keys \cup {NoKey}, pc : {"admitted", "ready"}, locks : SUBSET Users]
Invitation == [status : {"none", "pending", "accepted", "revoked"},
               to : Users \cup {NoUser}, role : Assignable \cup {"NONE"}, expired : BOOLEAN]

ASSUME NoRequestAssumption == NoRequest \notin Request

TypeOK ==
    /\ role \in [Users -> Roles]
    /\ ownerId \in Users \cup {NoUser}
    /\ status \in {"absent", "live", "deleted", "expired"}
    /\ inv \in [Invitations -> Invitation]
    /\ saved \subseteq Keys
    /\ req \in [Slots -> Request \cup {NoRequest}]
    /\ issued \in 0..MaxRequests
    /\ applied \in [Keys -> Nat]
    /\ overwrote \in BOOLEAN

Init ==
    /\ role = [u \in Users |-> "NONE"]
    /\ ownerId = NoUser
    /\ status = "absent"
    /\ inv = [i \in Invitations |->
                [status |-> "none", to |-> NoUser, role |-> "NONE", expired |-> FALSE]]
    /\ saved = {}
    /\ req = [s \in Slots |-> NoRequest]
    /\ issued = 0
    /\ applied = [k \in Keys |-> 0]
    /\ overwrote = FALSE

-----------------------------------------------------------------------------
Owners == {u \in Users : role[u] = "OWNER"}
Running(s) == req[s] # NoRequest
LockedByOther(s, u) == \E t \in Slots \ {s} : Running(t) /\ u \in req[t].locks

\* The creator's member row is the one OWNER row no transfer made.
CreateWorkspace(u) ==
    /\ status = "absent"
    /\ status' = "live"
    /\ role' = [role EXCEPT ![u] = "OWNER"]
    /\ ownerId' = u
    /\ UNCHANGED <<inv, saved, req, issued, applied, overwrote>>

-----------------------------------------------------------------------------
(* Admission: the role the middleware reads, before any lock.               *)

Admitted(r) ==
    CASE r.op \in {"updateRole", "remove", "create", "revoke", "inviteMember"} ->
            role[r.by] \in Managers
      [] r.op \in {"transferOwnership", "delete", "restore"} -> role[r.by] = "OWNER"
      [] r.op = "leave" -> role[r.by] # "NONE" /\ r.to = r.by
      [] OTHER -> TRUE

(* What a procedure reads without a lock, and rejects.                      *)

UpdateRoleAllowed(r) == role[r.to] \notin {"NONE", "OWNER", r.role}

InviteAllowed(r) == role[r.to] = "NONE"

RevokeAllowed(r) == inv[r.inv].status = "pending"

AcceptAllowed(r) ==
    /\ inv[r.inv].status = "pending"
    /\ ~inv[r.inv].expired
    /\ status = "live"
    /\ inv[r.inv].to = r.by

DeleteAllowed == status = "live"

RestoreAllowed == status = "deleted"

ReadAllows(r) ==
    CASE r.op = "updateRole" -> UpdateRoleAllowed(r)
      [] r.op \in {"create", "inviteMember"} -> InviteAllowed(r)
      [] r.op = "revoke" -> RevokeAllowed(r)
      [] r.op = "accept" -> AcceptAllowed(r)
      [] r.op = "delete" -> DeleteAllowed
      [] r.op = "restore" -> RestoreAllowed
      [] OTHER -> TRUE

\* The fields a procedure does not take are absent from its request.
Inputs(op, by, key) ==
    { [op |-> op, by |-> by, to |-> to, role |-> x, inv |-> i, key |-> key,
       pc |-> IF op \in LockingOps THEN "admitted" ELSE "ready", locks |-> {}] :
        to \in IF op \in {"revoke", "accept", "delete", "restore"} THEN {NoUser} ELSE Users,
        x \in IF op \in {"updateRole", "create", "inviteMember"} THEN Assignable ELSE {"NONE"},
        i \in IF op \in {"revoke", "accept"} THEN Invitations ELSE {NoInvitation} }

\* A request whose key is stored answers from the store, and one that is
\* rejected writes nothing: neither takes a slot.
Admit(s) ==
    /\ ~Running(s)
    /\ status # "absent"
    /\ issued < MaxRequests
    /\ \E op \in UnlockedOps \cup LockingOps, by \in Users, key \in (Keys \ saved) \cup {NoKey} :
         \E r \in Inputs(op, by, key) :
            /\ Admitted(r)
            /\ ReadAllows(r)
            /\ req' = [req EXCEPT ![s] = r]
    /\ issued' = issued + 1
    /\ UNCHANGED <<role, ownerId, status, inv, saved, applied, overwrote>>

-----------------------------------------------------------------------------
(* SELECT ... FOR UPDATE: waits for the rows, then reads them.              *)

\* Variant: the target row is read without FOR UPDATE.
RowsToLockTransferOnly(r) == IF r.op = "transferOwnership" THEN {r.by, r.to} ELSE {}

RowsToLock(r) ==
    IF r.op = "transferOwnership" THEN {r.by, r.to}
    ELSE {r.to} \cup (IF role[r.to] = "OWNER" THEN Owners ELSE {})

\* Variant: the caller's role is not read again under the lock.
TransferAllowedTrustsCaller(r) == r.by # r.to /\ role[r.to] \notin {"NONE", "OWNER"}

TransferAllowed(r) ==
    /\ r.by # r.to
    /\ role[r.to] \notin {"NONE", "OWNER"}
    /\ role[r.by] = "OWNER"

\* Variant: the last owner may leave.
RemoveAllowedNoLastOwner(r) == role[r.to] # "NONE"

RemoveAllowed(r) ==
    /\ role[r.to] # "NONE"
    /\ role[r.to] = "OWNER" => Cardinality(Owners) > 1

LockedRead(r) == IF r.op = "transferOwnership" THEN TransferAllowed(r) ELSE RemoveAllowed(r)

Lock(s) ==
    /\ Running(s) /\ req[s].pc = "admitted"
    /\ LET r == req[s] IN
         /\ \A u \in RowsToLock(r) : ~LockedByOther(s, u)
         /\ req' = [req EXCEPT ![s] =
                      IF LockedRead(r)
                      THEN [r EXCEPT !.pc = "ready", !.locks = RowsToLock(r)]
                      ELSE NoRequest]
    /\ UNCHANGED <<role, ownerId, status, inv, saved, issued, applied, overwrote>>

-----------------------------------------------------------------------------
(* The writes.  A member row that exists and a pending invitation of the    *)
(* same address are unique violations: the request cannot commit.           *)

UpdateRole(r) ==
    /\ r.op = "updateRole"
    /\ role' = IF role[r.to] = "NONE" THEN role ELSE [role EXCEPT ![r.to] = r.role]
    /\ UNCHANGED <<ownerId, status, inv>>

Remove(r) ==
    /\ r.op = "remove"
    /\ role' = [role EXCEPT ![r.to] = "NONE"]
    /\ UNCHANGED <<ownerId, status, inv>>

Leave(r) ==
    /\ r.op = "leave"
    /\ role' = [role EXCEPT ![r.to] = "NONE"]
    /\ UNCHANGED <<ownerId, status, inv>>

TransferOwnership(r) ==
    /\ r.op = "transferOwnership"
    /\ role' = [role EXCEPT ![r.to] = "OWNER", ![r.by] = "ADMIN"]
    /\ ownerId' = r.to
    /\ UNCHANGED <<status, inv>>

InviteMember(r) ==
    /\ r.op = "inviteMember"
    /\ role[r.to] = "NONE"
    /\ role' = [role EXCEPT ![r.to] = r.role]
    /\ UNCHANGED <<ownerId, status, inv>>

CreateInvitation(r) ==
    /\ r.op = "create"
    /\ \A i \in Invitations : inv[i].status = "pending" => inv[i].to # r.to
    /\ \E i \in Invitations :
         /\ inv[i].status = "none"
         /\ inv' = [inv EXCEPT ![i] = [status |-> "pending", to |-> r.to,
                                       role |-> r.role, expired |-> FALSE]]
    /\ UNCHANGED <<role, ownerId, status>>

\* Variant: the update has no status condition.
RevokeInvitationUnchecked(r) ==
    /\ r.op = "revoke"
    /\ inv' = [inv EXCEPT ![r.inv].status = "revoked"]
    /\ UNCHANGED <<role, ownerId, status>>

\* No rows updated is no error here, nor in AcceptInvitation.
RevokeInvitation(r) ==
    /\ r.op = "revoke"
    /\ inv' = [inv EXCEPT ![r.inv].status = IF @ = "accepted" THEN @ ELSE "revoked"]
    /\ UNCHANGED <<role, ownerId, status>>

AcceptInvitation(r) ==
    /\ r.op = "accept"
    /\ role[r.by] = "NONE"
    /\ role' = [role EXCEPT ![r.by] = inv[r.inv].role]
    /\ inv' = [inv EXCEPT ![r.inv].status = IF @ = "pending" THEN "accepted" ELSE @]
    /\ UNCHANGED <<ownerId, status>>

DeleteWorkspace(r) ==
    /\ r.op = "delete"
    /\ status' = "deleted"
    /\ UNCHANGED <<role, ownerId, inv>>

RestoreWorkspace(r) ==
    /\ r.op = "restore"
    /\ status' = "live"
    /\ UNCHANGED <<role, ownerId, inv>>

Apply(r) ==
    \/ UpdateRole(r) \/ Remove(r) \/ Leave(r) \/ TransferOwnership(r) \/ InviteMember(r)
    \/ CreateInvitation(r) \/ RevokeInvitation(r) \/ AcceptInvitation(r)
    \/ DeleteWorkspace(r) \/ RestoreWorkspace(r)

\* The result is stored under the key in the transaction of the writes: a key
\* another attempt has stored is a unique violation and nothing remains.
KeyIsFree(r) == r.key \notin saved

Write(s) ==
    LET r == req[s] IN
    /\ Running(s) /\ r.pc = "ready"
    /\ r.op \in {"updateRole", "remove", "leave"} => ~LockedByOther(s, r.to)
    /\ Apply(r)
    /\ KeyIsFree(r)
    /\ saved' = saved \cup ({r.key} \cap Keys)
    /\ applied' = [k \in Keys |-> applied[k] + (IF k = r.key THEN 1 ELSE 0)]
    /\ overwrote' = (overwrote \/ (r.op = "updateRole" /\ role[r.to] = "OWNER"))
    /\ req' = [req EXCEPT ![s] = NoRequest]
    /\ UNCHANGED issued

\* The request aborts: a violated constraint, a timeout or a crash.
Abort(s) ==
    /\ Running(s)
    /\ req' = [req EXCEPT ![s] = NoRequest]
    /\ UNCHANGED <<role, ownerId, status, inv, saved, issued, applied, overwrote>>

\* Seven days pass over an invitation, thirty over a deleted workspace.
InvitationExpires(i) ==
    /\ inv[i].status = "pending" /\ ~inv[i].expired
    /\ inv' = [inv EXCEPT ![i].expired = TRUE]
    /\ UNCHANGED <<role, ownerId, status, saved, req, issued, applied, overwrote>>

RestoreWindowCloses ==
    /\ status = "deleted"
    /\ status' = "expired"
    /\ UNCHANGED <<role, ownerId, inv, saved, req, issued, applied, overwrote>>

Next ==
    \/ \E u \in Users : CreateWorkspace(u)
    \/ \E s \in Slots : Admit(s) \/ Lock(s) \/ Write(s) \/ Abort(s)
    \/ \E i \in Invitations : InvitationExpires(i)
    \/ RestoreWindowCloses

Spec == Init /\ [][Next]_vars

-----------------------------------------------------------------------------
(* Two transfers by the same owner, or a transfer to a user whom another    *)
(* request removes, may never leave two OWNER rows (members.router.ts:      *)
(* "another transferOwnership could have demoted us").                      *)
AtMostOneOwner == \A u, v \in Users : role[u] = "OWNER" /\ role[v] = "OWNER" => u = v

(* owner_id names the user whose member row says OWNER.  The one write that *)
(* can part them is an updateRole, which reads the role without a lock and  *)
(* writes over the OWNER row a transfer has committed since.                *)
OwnerLostOnlyToRoleWrite ==
    status # "absent" /\ ~overwrote => role[ownerId] = "OWNER"

(* remove and leave never delete an OWNER row, whatever transfer commits    *)
(* between their admission and their delete: they read under the lock.      *)
OwnerNeverRemoved ==
    [][\A u \in Users : role[u] = "OWNER" => role'[u] # "NONE"]_vars

(* An invitation is settled once, by its invitee or by an admin: accept and *)
(* revoke that both read it as pending cannot both change it.               *)
InvitationsSettleOnce ==
    [][\A i \in Invitations :
         inv[i].status \in {"accepted", "revoked"} => inv'[i].status = inv[i].status]_vars

(* A mutation a client repeats under one key is carried out once, also when *)
(* both attempts looked the key up before either had stored it.             *)
KeyAppliedOnce == \A k \in Keys : applied[k] <= 1
=============================================================================
