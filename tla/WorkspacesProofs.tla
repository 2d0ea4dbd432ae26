-------------------------- MODULE WorkspacesProofs --------------------------
(***************************************************************************)
(* Proofs about module Workspaces.  The inductive invariant says what a     *)
(* request knows once it holds its row locks: that what it read under them   *)
(* still stands when it writes.                                             *)
(***************************************************************************)
EXTENDS Workspaces, FiniteSetTheorems, TLAPS

\* A request that locked its rows still sees them as it read them.
LockedView(s) ==
    LET r == req[s] IN
    Running(s) /\ r.pc = "ready" =>
        /\ r.op \in {"remove", "leave"} =>
             /\ r.to \in r.locks
             /\ role[r.to] \notin {"NONE", "OWNER"}
        /\ r.op = "transferOwnership" =>
             /\ {r.by, r.to} \subseteq r.locks
             /\ r.by # r.to
             /\ role[r.by] = "OWNER"
             /\ role[r.to] \notin {"NONE", "OWNER"}

\* Two requests hold no row in common, and who waits holds none.
LocksExclusive ==
    /\ \A s, t \in Slots : s # t /\ Running(s) /\ Running(t) =>
            req[s].locks \cap req[t].locks = {}
    /\ \A s \in Slots : Running(s) =>
            /\ req[s].pc = "admitted" => req[s].locks = {}
            /\ req[s].op \in UnlockedOps => req[s].pc = "ready" /\ req[s].locks = {}
            /\ \A u \in req[s].locks : role[u] # "NONE"

\* What create, updateRole and inviteMember write is an assignable role.
RolesAssigned ==
    /\ \A s \in Slots : Running(s) =>
         /\ req[s].op \in {"updateRole", "create", "inviteMember"} => req[s].role \in Assignable
         /\ req[s].op \in {"updateRole", "create", "inviteMember", "remove", "leave",
                           "transferOwnership"} => req[s].to \in Users
         /\ req[s].op \in {"accept", "revoke"} =>
              /\ req[s].inv \in Invitations
              /\ inv[req[s].inv].status # "none"
    /\ \A i \in Invitations : inv[i].status # "none" => inv[i].role \in Assignable

OwnerStands == status # "absent" /\ ~overwrote => ownerId \in Users /\ role[ownerId] = "OWNER"

IInv ==
    /\ TypeOK
    /\ AtMostOneOwner
    /\ OwnerStands
    /\ \A s \in Slots : LockedView(s)
    /\ LocksExclusive
    /\ RolesAssigned
    /\ status = "absent" => \A u \in Users : role[u] = "NONE"
    /\ \A s \in Slots : Running(s) => status # "absent"
    /\ \A k \in Keys : applied[k] = IF k \in saved THEN 1 ELSE 0

-----------------------------------------------------------------------------
USE AssignableAssumption, AbsentAssumption, MaxRequestsAssumption, NoRequestAssumption

LEMMA InitInvariant == Init => IInv
<1> SUFFICES ASSUME Init PROVE IInv
  OBVIOUS
<1>1. TypeOK
  <2>1. inv \in [Invitations -> Invitation]
    BY DEF Init, Invitation
  <2>2. issued \in 0..MaxRequests
    BY MaxRequestsAssumption DEF Init
  <2>3. role \in [Users -> Roles]
    BY DEF Init, Roles
  <2> QED
    BY <2>1, <2>2, <2>3 DEF Init, TypeOK
<1>2. \A s \in Slots : ~Running(s)
  BY DEF Init, Running
<1>3. AtMostOneOwner /\ OwnerStands
  BY DEF Init, AtMostOneOwner, OwnerStands
<1>4. RolesAssigned /\ LocksExclusive /\ \A s \in Slots : LockedView(s)
  BY <1>2 DEF Init, RolesAssigned, LocksExclusive, LockedView
<1> QED
  BY <1>1, <1>2, <1>3, <1>4 DEF Init, IInv

\* The request a slot runs, as the proofs use it.
LEMMA RequestType ==
  ASSUME TypeOK, NEW s \in Slots, Running(s)
  PROVE  req[s] \in Request
BY DEF TypeOK, Running

\* A last owner is the only one: remove and leave never pass over an OWNER.
LEMMA OwnerNeverPasses ==
  ASSUME TypeOK, AtMostOneOwner, NEW u \in Users, role[u] = "OWNER"
  PROVE  ~(Cardinality(Owners) > 1)
<1>1. Owners = {u}
  BY DEF Owners, AtMostOneOwner
<1>2. Cardinality({u}) = 1
  BY FS_Singleton
<1> QED
  BY <1>1, <1>2

-----------------------------------------------------------------------------
(* The effect of a write on the member rows.                                *)

\* Every write leaves the member table, or changes the one or two rows its
\* request is allowed to.
RoleStep(r) ==
    \/ /\ r.op \in {"updateRole", "create", "revoke", "delete", "restore"}
       /\ role' = role
    \/ /\ r.op = "updateRole"
       /\ r.to \in Users /\ r.role \in Assignable /\ role[r.to] # "NONE"
       /\ role' = [role EXCEPT ![r.to] = r.role]
    \/ /\ r.op \in {"remove", "leave"}
       /\ r.to \in Users /\ r.to \in r.locks /\ role[r.to] \notin {"NONE", "OWNER"}
       /\ role' = [role EXCEPT ![r.to] = "NONE"]
    \/ /\ r.op = "transferOwnership"
       /\ r.to \in Users /\ {r.by, r.to} \subseteq r.locks /\ r.by # r.to
       /\ role[r.by] = "OWNER" /\ role[r.to] \notin {"NONE", "OWNER"}
       /\ role' = [role EXCEPT ![r.to] = "OWNER", ![r.by] = "ADMIN"]
    \/ /\ r.op \in {"inviteMember", "accept"}
       /\ \E u \in Users, x \in Assignable :
            role[u] = "NONE" /\ role' = [role EXCEPT ![u] = x]

LEMMA WriteRoleStep ==
  ASSUME IInv, NEW s \in Slots, Write(s)
  PROVE  RoleStep(req[s])
<1> DEFINE r == req[s]
<1>1. Running(s) /\ r.pc = "ready" /\ Apply(r)
  BY DEF Write
<1>2. r \in Request /\ r.by \in Users
  BY <1>1, RequestType DEF IInv, Request
<1>3. CASE UpdateRole(r)
  <2>1. r.to \in Users /\ r.role \in Assignable
    BY <1>1, <1>3 DEF IInv, RolesAssigned, UpdateRole
  <2> QED
    BY <1>3, <2>1 DEF UpdateRole, RoleStep
<1>4. CASE Remove(r) \/ Leave(r)
  <2>1. r.to \in Users
    BY <1>1, <1>4 DEF IInv, RolesAssigned, Remove, Leave
  <2>2. r.to \in r.locks /\ role[r.to] \notin {"NONE", "OWNER"}
    BY <1>1, <1>4 DEF IInv, LockedView, Remove, Leave
  <2> QED
    BY <1>4, <2>1, <2>2 DEF Remove, Leave, RoleStep
<1>5. CASE TransferOwnership(r)
  <2>1. r.to \in Users
    BY <1>1, <1>5 DEF IInv, RolesAssigned, TransferOwnership
  <2>2. /\ {r.by, r.to} \subseteq r.locks /\ r.by # r.to
        /\ role[r.by] = "OWNER" /\ role[r.to] \notin {"NONE", "OWNER"}
    BY <1>1, <1>5 DEF IInv, LockedView, TransferOwnership
  <2> QED
    BY <1>5, <2>1, <2>2 DEF TransferOwnership, RoleStep
<1>6. CASE InviteMember(r)
  <2>1. r.to \in Users /\ r.role \in Assignable
    BY <1>1, <1>6 DEF IInv, RolesAssigned, InviteMember
  <2> QED
    BY <1>6, <2>1 DEF InviteMember, RoleStep
<1>7. CASE AcceptInvitation(r)
  <2>1. inv[r.inv].role \in Assignable
    BY <1>1, <1>7 DEF IInv, RolesAssigned, AcceptInvitation
  <2> QED
    BY <1>2, <1>7, <2>1 DEF AcceptInvitation, RoleStep
<1>8. CASE CreateInvitation(r) \/ RevokeInvitation(r) \/ DeleteWorkspace(r) \/ RestoreWorkspace(r)
  BY <1>8 DEF CreateInvitation, RevokeInvitation, DeleteWorkspace, RestoreWorkspace, RoleStep
<1> QED
  BY <1>1, <1>3, <1>4, <1>5, <1>6, <1>7, <1>8 DEF Apply

\* The effect of a write on the invitations: one is made, or one that was
\* pending (or revoked, and is revoked again) is settled.
InvitationStep(r) ==
    \/ inv' = inv
    \/ /\ r.op = "create"
       /\ \E i \in Invitations :
            /\ inv[i].status = "none"
            /\ inv' = [inv EXCEPT ![i] = [status |-> "pending", to |-> r.to,
                                          role |-> r.role, expired |-> FALSE]]
    \/ /\ r.op = "revoke"
       /\ inv' = [inv EXCEPT ![r.inv] = [inv[r.inv] EXCEPT !.status =
                    IF inv[r.inv].status = "accepted" THEN "accepted" ELSE "revoked"]]
    \/ /\ r.op = "accept"
       /\ inv' = [inv EXCEPT ![r.inv] = [inv[r.inv] EXCEPT !.status =
                    IF inv[r.inv].status = "pending" THEN "accepted" ELSE inv[r.inv].status]]

\* What a write does to the owner pointer and the workspace's status.
WorkspaceStep(r) ==
    /\ ownerId' = IF r.op = "transferOwnership" THEN r.to ELSE ownerId
    /\ status' \in {"live", "deleted", status}

LEMMA WriteOtherSteps ==
  ASSUME NEW r, Apply(r)
  PROVE  InvitationStep(r) /\ WorkspaceStep(r)
<1>1. CASE UpdateRole(r) \/ Remove(r) \/ Leave(r) \/ InviteMember(r) \/ TransferOwnership(r)
  BY <1>1 DEF UpdateRole, Remove, Leave, InviteMember, TransferOwnership,
              InvitationStep, WorkspaceStep
<1>2. CASE CreateInvitation(r)
  BY <1>2 DEF CreateInvitation, InvitationStep, WorkspaceStep
<1>3. CASE RevokeInvitation(r) \/ AcceptInvitation(r)
  BY <1>3 DEF RevokeInvitation, AcceptInvitation, InvitationStep, WorkspaceStep
<1>4. CASE DeleteWorkspace(r) \/ RestoreWorkspace(r)
  BY <1>4 DEF DeleteWorkspace, RestoreWorkspace, InvitationStep, WorkspaceStep
<1> QED
  BY <1>1, <1>2, <1>3, <1>4 DEF Apply

-----------------------------------------------------------------------------
(* The steps that leave the member rows and the requests' views alone.      *)

LEMMA CreateStep ==
  ASSUME IInv, NEW u \in Users, CreateWorkspace(u)
  PROVE  IInv'
<1>1. \A s \in Slots : ~Running(s) /\ ~Running(s)'
  BY DEF CreateWorkspace, IInv, Running
<1>2. role \in [Users -> Roles] /\ \A v \in Users : role[v] = "NONE"
  BY DEF CreateWorkspace, IInv, TypeOK
<1>3. TypeOK'
  BY <1>2 DEF CreateWorkspace, IInv, TypeOK, Roles
<1>4. AtMostOneOwner' /\ OwnerStands'
  BY <1>2 DEF CreateWorkspace, AtMostOneOwner, OwnerStands
<1>5. RolesAssigned'
  BY <1>1 DEF CreateWorkspace, IInv, RolesAssigned
<1>6. LocksExclusive' /\ \A s \in Slots : LockedView(s)'
  BY <1>1 DEF LocksExclusive, LockedView
<1> QED
  BY <1>1, <1>3, <1>4, <1>5, <1>6 DEF CreateWorkspace, IInv

LEMMA ClockStep ==
  ASSUME IInv, RestoreWindowCloses \/ \E i \in Invitations : InvitationExpires(i)
  PROVE  IInv'
<1>1. UNCHANGED <<role, ownerId, saved, req, issued, applied, overwrote>>
  BY DEF RestoreWindowCloses, InvitationExpires
<1>2. status' \in {"live", "deleted", "expired", "absent"} /\ (status' = "absent" <=> status = "absent")
  BY DEF RestoreWindowCloses, InvitationExpires, IInv, TypeOK
<1>3. /\ inv' \in [Invitations -> Invitation]
      /\ \A i \in Invitations : inv'[i].status = inv[i].status /\ inv'[i].role = inv[i].role
  <2>1. CASE RestoreWindowCloses
    BY <2>1 DEF RestoreWindowCloses, IInv, TypeOK
  <2>2. ASSUME NEW i \in Invitations, InvitationExpires(i)
        PROVE  <1>3!1 /\ <1>3!2
    <3> DEFINE e == [inv[i] EXCEPT !.expired = TRUE]
    <3>1. inv[i] \in Invitation /\ inv' = [inv EXCEPT ![i] = e]
      BY <2>2 DEF InvitationExpires, IInv, TypeOK
    <3>2. e \in Invitation /\ e.status = inv[i].status /\ e.role = inv[i].role
      BY <3>1 DEF Invitation
    <3> QED
      BY <3>1, <3>2 DEF IInv, TypeOK
  <2> QED
    BY <2>1, <2>2
<1>4. \A s \in Slots : Running(s)' = Running(s)
  BY <1>1 DEF Running
<1>5. TypeOK'
  BY <1>1, <1>2, <1>3 DEF IInv, TypeOK
<1>6. RolesAssigned'
  BY <1>1, <1>3, <1>4 DEF IInv, RolesAssigned
<1>7. LocksExclusive' /\ \A s \in Slots : LockedView(s)'
  BY <1>1, <1>4 DEF IInv, LocksExclusive, LockedView
<1>8. AtMostOneOwner' /\ OwnerStands'
  BY <1>1, <1>2 DEF IInv, AtMostOneOwner, OwnerStands
<1> QED
  BY <1>1, <1>2, <1>4, <1>5, <1>6, <1>7, <1>8 DEF IInv

\* A request that leaves its slot takes nothing with it.
LEMMA AbortStep ==
  ASSUME IInv, NEW s \in Slots, Abort(s)
  PROVE  IInv'
<1>1. /\ UNCHANGED <<role, ownerId, status, inv, saved, issued, applied, overwrote>>
      /\ ~Running(s)'
      /\ \A t \in Slots : Running(t)' => Running(t) /\ req'[t] = req[t]
  BY DEF Abort, Running, IInv, TypeOK
<1>2. TypeOK'
  BY <1>1 DEF Abort, IInv, TypeOK
<1>3. RolesAssigned'
  BY <1>1 DEF IInv, RolesAssigned
<1>4. LocksExclusive'
  BY <1>1 DEF IInv, LocksExclusive
<1>5. \A t \in Slots : LockedView(t)'
  BY <1>1 DEF IInv, LockedView
<1>6. AtMostOneOwner' /\ OwnerStands'
  BY <1>1 DEF IInv, AtMostOneOwner, OwnerStands
<1> QED
  BY <1>1, <1>2, <1>3, <1>4, <1>5, <1>6 DEF IInv

\* A request is admitted with no lock, its inputs well formed.
LEMMA AdmitStep ==
  ASSUME IInv, NEW s \in Slots, Admit(s)
  PROVE  IInv'
<1>1. PICK op \in UnlockedOps \cup LockingOps, by \in Users, key \in (Keys \ saved) \cup {NoKey} :
        \E r \in Inputs(op, by, key) :
            /\ Admitted(r) /\ ReadAllows(r)
            /\ req' = [req EXCEPT ![s] = r]
  BY DEF Admit
<1>2. PICK r \in Inputs(op, by, key) :
            /\ Admitted(r) /\ ReadAllows(r)
            /\ req' = [req EXCEPT ![s] = r]
  BY <1>1
<1>3. /\ r.op = op /\ r.by = by /\ r.key = key /\ r.locks = {}
      /\ r.pc = IF op \in LockingOps THEN "admitted" ELSE "ready"
      /\ r.to \in IF op \in {"revoke", "accept", "delete", "restore"} THEN {NoUser} ELSE Users
      /\ r.role \in IF op \in {"updateRole", "create", "inviteMember"} THEN Assignable ELSE {"NONE"}
      /\ r.inv \in IF op \in {"revoke", "accept"} THEN Invitations ELSE {NoInvitation}
  BY DEF Inputs
<1>4. r \in Request
  BY <1>3 DEF Inputs, Request
<1>5. /\ UNCHANGED <<role, ownerId, status, inv, saved, applied, overwrote>>
      /\ status # "absent" /\ issued' \in 0..MaxRequests
      /\ Running(s)' /\ req'[s] = r
      /\ \A t \in Slots \ {s} : Running(t)' = Running(t) /\ req'[t] = req[t]
  <2>1. req'[s] = r /\ \A t \in Slots \ {s} : req'[t] = req[t]
    BY <1>2 DEF IInv, TypeOK
  <2>2. issued' \in 0..MaxRequests
    BY MaxRequestsAssumption DEF Admit, IInv, TypeOK
  <2> QED
    BY <1>4, <2>1, <2>2, NoRequestAssumption DEF Admit, Running
<1>6. TypeOK'
  BY <1>2, <1>4, <1>5 DEF IInv, TypeOK
<1>7. RolesAssigned'
  <2>1. r.op \in {"revoke", "accept"} => inv[r.inv].status # "none"
    BY <1>2 DEF ReadAllows, AcceptAllowed, RevokeAllowed
  <2> QED
    BY <1>3, <1>5, <2>1 DEF IInv, RolesAssigned
<1>8. LocksExclusive'
  BY <1>3, <1>5 DEF IInv, LocksExclusive, UnlockedOps, LockingOps
<1>9. \A t \in Slots : LockedView(t)'
  <2>1. LockedView(s)'
    BY <1>3, <1>5 DEF LockedView, LockingOps
  <2> QED
    BY <1>5, <2>1 DEF IInv, LockedView
<1>10. AtMostOneOwner' /\ OwnerStands'
  BY <1>5 DEF IInv, AtMostOneOwner, OwnerStands
<1> QED
  BY <1>5, <1>6, <1>7, <1>8, <1>9, <1>10 DEF IInv

\* What the request read is what stands when it holds its locks: it reads
\* after it has them.
LEMMA LockStep ==
  ASSUME IInv, NEW s \in Slots, Lock(s)
  PROVE  IInv'
<1> DEFINE r == req[s]
<1>1. /\ Running(s) /\ r.pc = "admitted"
      /\ UNCHANGED <<role, ownerId, status, inv, saved, issued, applied, overwrote>>
  BY DEF Lock
<1>2. r \in Request /\ r.op \in LockingOps
  BY <1>1, RequestType DEF IInv, LocksExclusive, Request
<1>3. CASE ~LockedRead(r)
  <2>1. req' = [req EXCEPT ![s] = NoRequest]
    BY <1>3 DEF Lock
  <2> QED
    BY <1>1, <2>1, AbortStep DEF Abort
<1>4. CASE LockedRead(r)
  <2> DEFINE L == RowsToLock(r)
             q == [r EXCEPT !.pc = "ready", !.locks = L]
  <2>1. req' = [req EXCEPT ![s] = q]
    BY <1>4 DEF Lock
  <2>2. \A u \in L : ~LockedByOther(s, u)
    BY DEF Lock
  <2>3. r.to \in Users /\ r.by \in Users
    BY <1>1, <1>2 DEF IInv, RolesAssigned, LockingOps, Request
  <2>4. L \in SUBSET Users
    BY <2>3 DEF RowsToLock, Owners
  <2>5. /\ q.op = r.op /\ q.by = r.by /\ q.to = r.to /\ q.role = r.role /\ q.inv = r.inv
        /\ q.key = r.key /\ q.pc = "ready" /\ q.locks = L
    BY <1>2 DEF Request
  <2>6. q \in Request
    BY <1>2, <2>4 DEF Request
  <2>7. /\ req'[s] = q /\ Running(s)'
        /\ \A t \in Slots \ {s} : Running(t)' = Running(t) /\ req'[t] = req[t]
    BY <2>1, <2>6, NoRequestAssumption DEF IInv, TypeOK, Running
  <2>8. /\ r.op = "transferOwnership" =>
             /\ {r.by, r.to} = L /\ r.by # r.to
             /\ role[r.by] = "OWNER" /\ role[r.to] \notin {"NONE", "OWNER"}
        /\ r.op \in {"remove", "leave"} =>
             /\ L = {r.to} /\ role[r.to] \notin {"NONE", "OWNER"}
    <3>1. CASE r.op = "transferOwnership"
      BY <1>4, <3>1 DEF RowsToLock, LockedRead, TransferAllowed
    <3>2. CASE r.op \in {"remove", "leave"}
      <4>1. role[r.to] # "NONE" /\ (role[r.to] = "OWNER" => Cardinality(Owners) > 1)
        BY <1>4, <3>2 DEF LockedRead, RemoveAllowed
      <4>2. role[r.to] # "OWNER"
        BY <2>3, <4>1, OwnerNeverPasses DEF IInv
      <4> QED
        BY <3>2, <4>1, <4>2 DEF RowsToLock
    <3> QED
      BY <1>2, <3>1, <3>2 DEF LockingOps
  <2>9. \A u \in L : role[u] # "NONE"
    BY <1>2, <2>8 DEF LockingOps
  <2>10. TypeOK'
    BY <1>1, <2>1, <2>6 DEF IInv, TypeOK
  <2> HIDE DEF q, L
  <2>11. RolesAssigned'
    <3>1. \A t \in Slots : Running(t)' =>
            /\ Running(t) /\ req'[t].op = req[t].op /\ req'[t].role = req[t].role
            /\ req'[t].to = req[t].to /\ req'[t].inv = req[t].inv
      BY <1>1, <2>5, <2>7
    <3> QED
      BY <1>1, <3>1 DEF IInv, RolesAssigned
  <2>12. LocksExclusive'
    <3>1. \A t \in Slots : t # s /\ Running(t) => req[t].locks \cap L = {}
      BY <2>2 DEF LockedByOther
    <3>2. r.op \notin UnlockedOps
      BY <1>2 DEF LockingOps, UnlockedOps
    <3> QED
      BY <1>1, <2>5, <2>7, <2>9, <3>1, <3>2 DEF IInv, LocksExclusive
  <2>13. \A t \in Slots : LockedView(t)'
    <3>1. LockedView(s)'
      BY <1>1, <2>5, <2>7, <2>8 DEF LockedView
    <3> QED
      BY <1>1, <2>7, <3>1 DEF IInv, LockedView
  <2>14. AtMostOneOwner' /\ OwnerStands'
    BY <1>1 DEF IInv, AtMostOneOwner, OwnerStands
  <2> QED
    BY <1>1, <2>7, <2>10, <2>11, <2>12, <2>13, <2>14 DEF IInv
<1> QED
  BY <1>3, <1>4

-----------------------------------------------------------------------------
\* The rows a request holds are not changed under it.
LEMMA LockedRowsStand ==
  ASSUME IInv, NEW s \in Slots, Write(s),
         NEW t \in Slots, t # s, Running(t), NEW u \in req[t].locks
  PROVE  role'[u] = role[u]
<1> DEFINE r == req[s]
<1>1. RoleStep(r) /\ Running(s)
  BY WriteRoleStep DEF Write
<1>2. u \in Users /\ role[u] # "NONE" /\ role \in [Users -> Roles]
  BY RequestType DEF IInv, TypeOK, LocksExclusive, Request
<1>3. u \notin r.locks
  BY <1>1 DEF IInv, LocksExclusive
<1>4. r.op = "updateRole" => r.to # u
  BY DEF Write, LockedByOther
<1> HIDE DEF r
<1> QED
  BY <1>1, <1>2, <1>3, <1>4 DEF RoleStep

LEMMA WriteStep ==
  ASSUME IInv, NEW s \in Slots, Write(s)
  PROVE  IInv'
<1> DEFINE r == req[s]
<1>1. /\ Running(s) /\ r.pc = "ready" /\ UNCHANGED issued /\ KeyIsFree(r)
      /\ req' = [req EXCEPT ![s] = NoRequest]
      /\ InvitationStep(r) /\ WorkspaceStep(r)
      /\ saved' = saved \cup ({r.key} \cap Keys)
      /\ applied' = [k \in Keys |-> applied[k] + (IF k = r.key THEN 1 ELSE 0)]
      /\ overwrote' = (overwrote \/ (r.op = "updateRole" /\ role[r.to] = "OWNER"))
  BY WriteOtherSteps DEF Write
<1>2. r \in Request /\ r.by \in Users /\ r.op \in UnlockedOps \cup LockingOps
  BY <1>1, RequestType DEF IInv, Request
<1>3. RoleStep(r)
  BY WriteRoleStep
<1>4. role' \in [Users -> Roles]
  BY <1>2, <1>3, AssignableAssumption DEF IInv, TypeOK, RoleStep, Roles
<1>5. /\ ~Running(s)'
      /\ \A t \in Slots : Running(t)' => t # s /\ Running(t) /\ req'[t] = req[t]
  BY <1>1 DEF Running, IInv, TypeOK
<1>6. /\ status # "absent" /\ status' # "absent"
      /\ status' \in {"absent", "live", "deleted", "expired"}
  BY <1>1 DEF WorkspaceStep, IInv, TypeOK
<1>7. ownerId' \in Users \cup {NoUser}
  <2>1. r.op = "transferOwnership" => r.to \in Users
    BY <1>1 DEF IInv, RolesAssigned
  <2> QED
    BY <1>1, <2>1 DEF WorkspaceStep, IInv, TypeOK
<1>8. /\ inv' \in [Invitations -> Invitation]
      /\ \A i \in Invitations : inv'[i].status # "none" => inv'[i].role \in Assignable
      /\ \A i \in Invitations : inv[i].status # "none" => inv'[i].status # "none"
  <2>1. inv \in [Invitations -> Invitation]
        /\ \A i \in Invitations : inv[i].status # "none" => inv[i].role \in Assignable
    BY DEF IInv, TypeOK, RolesAssigned
  <2>2. CASE \E i \in Invitations :
                /\ r.op = "create" /\ inv[i].status = "none"
                /\ inv' = [inv EXCEPT ![i] = [status |-> "pending", to |-> r.to,
                                              role |-> r.role, expired |-> FALSE]]
    <3>1. r.to \in Users /\ r.role \in Assignable
      BY <1>1, <2>2 DEF IInv, RolesAssigned
    <3>2. [status |-> "pending", to |-> r.to, role |-> r.role, expired |-> FALSE] \in Invitation
      BY <3>1 DEF Invitation
    <3> QED
      BY <2>1, <2>2, <3>1, <3>2
  <2>3. ASSUME NEW x \in {"accepted", "revoked", inv[r.inv].status},
               r.op \in {"revoke", "accept"},
               inv' = [inv EXCEPT ![r.inv] = [inv[r.inv] EXCEPT !.status = x]]
        PROVE  <1>8!1 /\ <1>8!2 /\ <1>8!3
    <3>1. r.inv \in Invitations /\ inv[r.inv].status # "none"
      BY <1>1, <2>3 DEF IInv, RolesAssigned
    <3>2. inv[r.inv] \in Invitation
      BY <2>1, <3>1
    <3>3. x \in {"pending", "accepted", "revoked"}
      BY <3>1, <3>2 DEF Invitation
    <3>4. /\ [inv[r.inv] EXCEPT !.status = x] \in Invitation
          /\ [inv[r.inv] EXCEPT !.status = x].role = inv[r.inv].role
          /\ [inv[r.inv] EXCEPT !.status = x].status = x
      BY <3>2, <3>3 DEF Invitation
    <3> QED
      BY <2>1, <2>3, <3>1, <3>3, <3>4
  <2>4. CASE inv' = inv
    BY <2>1, <2>4
  <2> QED
    BY <1>1, <2>2, <2>3, <2>4 DEF InvitationStep
<1>9. /\ saved' \subseteq Keys /\ applied' \in [Keys -> Nat]
      /\ \A k \in Keys : applied'[k] = IF k \in saved' THEN 1 ELSE 0
  <2>1. r.key \notin saved
    BY <1>1 DEF KeyIsFree
  <2>2. /\ saved \subseteq Keys
        /\ \A k \in Keys : applied[k] = IF k \in saved THEN 1 ELSE 0
    BY DEF IInv, TypeOK
  <2>3. ASSUME NEW k \in Keys
        PROVE  applied'[k] = IF k \in saved' THEN 1 ELSE 0
    BY <1>1, <2>1, <2>2
  <2> QED
    BY <1>1, <2>2, <2>3
<1>10. overwrote' \in BOOLEAN
  BY <1>1 DEF IInv, TypeOK
<1>11. TypeOK'
  BY <1>1, <1>4, <1>6, <1>7, <1>8, <1>9, <1>10 DEF IInv, TypeOK
<1> HIDE DEF r
<1>12. AtMostOneOwner'
  BY <1>2, <1>3, AssignableAssumption DEF IInv, TypeOK, AtMostOneOwner, RoleStep
<1>13. OwnerStands'
  <2>1. SUFFICES ASSUME ~overwrote'
                 PROVE  ownerId' \in Users /\ role'[ownerId'] = "OWNER"
    BY DEF OwnerStands
  <2>2. /\ ~overwrote /\ ownerId \in Users /\ role[ownerId] = "OWNER"
        /\ ~(r.op = "updateRole" /\ role[r.to] = "OWNER")
    BY <1>1, <1>6, <2>1 DEF IInv, OwnerStands
  <2>3. CASE r.op = "transferOwnership"
    BY <1>1, <1>2, <1>3, <2>3 DEF RoleStep, WorkspaceStep, IInv, TypeOK
  <2>4. CASE r.op # "transferOwnership"
    <3>1. ownerId' = ownerId
      BY <1>1, <2>4 DEF WorkspaceStep
    <3> QED
      BY <1>2, <1>3, <2>2, <2>4, <3>1 DEF RoleStep, IInv, TypeOK
  <2> QED
    BY <2>3, <2>4
<1>14. RolesAssigned'
  BY <1>5, <1>8 DEF IInv, RolesAssigned
<1>15. \A t \in Slots : Running(t)' => \A u \in req[t].locks : role'[u] = role[u]
  BY <1>5, LockedRowsStand
<1>16. LocksExclusive'
  BY <1>5, <1>15 DEF IInv, LocksExclusive
<1>17. ASSUME NEW t \in Slots PROVE LockedView(t)'
  <2>1. CASE Running(t)'
    <3>1. t # s /\ Running(t) /\ req'[t] = req[t] /\ LockedView(t)
      BY <1>5, <2>1 DEF IInv
    <3> QED
      BY <1>15, <2>1, <3>1 DEF LockedView
  <2>2. CASE ~Running(t)'
    BY <2>2 DEF LockedView
  <2> QED
    BY <2>1, <2>2
<1> QED
  BY <1>6, <1>9, <1>11, <1>12, <1>13, <1>14, <1>16, <1>17 DEF IInv

-----------------------------------------------------------------------------
(* The invariant holds in every reachable state, and what follows from it.  *)

LEMMA StutterStep == IInv /\ UNCHANGED vars => IInv'
BY DEF vars, IInv, TypeOK, AtMostOneOwner, OwnerStands, LockedView, LocksExclusive,
       RolesAssigned, Running, Owners

LEMMA NextStep == IInv /\ [Next]_vars => IInv'
<1> SUFFICES ASSUME IInv, [Next]_vars PROVE IInv'
  OBVIOUS
<1> QED
  BY CreateStep, AdmitStep, LockStep, WriteStep, AbortStep, ClockStep, StutterStep DEF Next

THEOREM InvariantHolds == Spec => []IInv
BY InitInvariant, NextStep, PTL DEF Spec

\* The state of every reachable configuration is well formed.
THEOREM TypeCorrect == Spec => []TypeOK
<1>1. IInv => TypeOK
  BY DEF IInv
<1> QED
  BY <1>1, InvariantHolds, PTL

\* However transfers, removals and role changes interleave, a workspace never
\* has two OWNER rows.
THEOREM OneOwner == Spec => []AtMostOneOwner
<1>1. IInv => AtMostOneOwner
  BY DEF IInv
<1> QED
  BY <1>1, InvariantHolds, PTL

\* While no role was written over an OWNER row, owner_id and the OWNER row agree.
THEOREM OwnerKept == Spec => []OwnerLostOnlyToRoleWrite
<1>1. IInv => OwnerLostOnlyToRoleWrite
  BY DEF IInv, OwnerStands, OwnerLostOnlyToRoleWrite
<1> QED
  BY <1>1, InvariantHolds, PTL

\* A mutation that carries an idempotency key is carried out at most once.
THEOREM AppliedOnce == Spec => []KeyAppliedOnce
<1>1. IInv => KeyAppliedOnce
  BY DEF IInv, TypeOK, KeyAppliedOnce
<1> QED
  BY <1>1, InvariantHolds, PTL

\* No step deletes the OWNER row: who removes or leaves reads under its lock.
THEOREM OwnerStays == Spec => OwnerNeverRemoved
<1>1. IInv /\ [Next]_vars => [\A u \in Users : role[u] = "OWNER" => role'[u] # "NONE"]_vars
  <2> SUFFICES ASSUME IInv, Next, NEW u \in Users, role[u] = "OWNER"
               PROVE  role'[u] # "NONE"
    OBVIOUS
  <2>1. CASE \E s \in Slots : Write(s)
    <3>1. PICK s \in Slots : Write(s)
      BY <2>1
    <3>2. RoleStep(req[s]) /\ req[s].by \in Users
      BY <3>1, WriteRoleStep, RequestType DEF Write, IInv, Request
    <3> QED
      BY <3>2, AssignableAssumption DEF RoleStep, IInv, TypeOK
  <2>2. CASE \E v \in Users : CreateWorkspace(v)
    BY <2>2 DEF CreateWorkspace, IInv
  <2>3. CASE UNCHANGED role
    BY <2>3
  <2> QED
    BY <2>1, <2>2, <2>3 DEF Next, Admit, Lock, Abort, InvitationExpires, RestoreWindowCloses
<1> QED
  BY <1>1, InvariantHolds, PTL DEF Spec, OwnerNeverRemoved

\* An accepted invitation is not revoked, a revoked one not accepted.
THEOREM SettledOnce == Spec => InvitationsSettleOnce
<1>1. IInv /\ [Next]_vars =>
        [\A i \in Invitations :
           inv[i].status \in {"accepted", "revoked"} => inv'[i].status = inv[i].status]_vars
  <2> SUFFICES ASSUME IInv, Next, NEW i \in Invitations, inv[i].status \in {"accepted", "revoked"}
               PROVE  inv'[i].status = inv[i].status
    OBVIOUS
  <2>1. inv \in [Invitations -> Invitation]
    BY DEF IInv, TypeOK
  <2>2. CASE \E s \in Slots : Write(s)
    <3>1. PICK s \in Slots : InvitationStep(req[s])
      BY <2>2, WriteOtherSteps DEF Write
    <3> QED
      BY <2>1, <3>1 DEF InvitationStep, Invitation
  <2>3. CASE \E j \in Invitations : InvitationExpires(j)
    BY <2>1, <2>3 DEF InvitationExpires, Invitation
  <2>4. CASE UNCHANGED inv
    BY <2>4
  <2> QED
    BY <2>2, <2>3, <2>4 DEF Next, CreateWorkspace, Admit, Lock, Abort, RestoreWindowCloses
<1> QED
  BY <1>1, InvariantHolds, PTL DEF Spec, InvitationsSettleOnce
=============================================================================
