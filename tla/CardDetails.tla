----------------------------- MODULE CardDetails -----------------------------
(***************************************************************************)
(* What one card carries beside its checklists: labels, comments,          *)
(* assignees, attachments, due date and cover.  Requests of the routers     *)
(* under card-features read when they are admitted and write later, in one  *)
(* READ COMMITTED transaction, without locking what they read.              *)
(*                                                                         *)
(* A write is one step with its commit where nothing can come between them: *)
(* the rows it changes are locked until then, and comments and attachments   *)
(* it finds gone are gone for good.  The links of labels and assignees come  *)
(* back: a write of one that finds nothing to do is a step of its own        *)
(* (Miss), after which others may commit before it does.                    *)
(*                                                                         *)
(* One board: the guards that compare a row's board with the input's, and   *)
(* the lock flag that no procedure sets, always let a request through here. *)
(* labels.delete is absent: its input has no boardId, so its role check     *)
(* rejects every caller.  Membership is module Boards': any user may be a    *)
(* member when a guard asks.                                                *)
(***************************************************************************)
EXTENDS Naturals, Integers, FiniteSets

CONSTANTS
    Users,
    Admins,       \* users whose membership role is ADMIN or OWNER
    Labels, Comments, Attachments,  \* identifiers
    Names,        \* label names up to case
    Bodies,       \* comment bodies
    Values,       \* due dates and covers
    Keys,         \* idempotency keys the clients send
    Slots,        \* requests the server runs at a time
    MaxAssignees, MaxAttachments,
    MaxRequests,  \* bound: requests in a behaviour
    Absent, NoRequest

Fields == {"dueDate", "cover"}
Comment == [by : Users, body : Bodies, revision : Nat, deleted : BOOLEAN]
Attachment == [by : Users, deleted : BOOLEAN]
Label == [by : Users, name : Names]

Ops == {"createLabel", "updateLabel", "applyLabel", "removeLabel",
        "createComment", "updateComment", "deleteComment",
        "addAssignee", "removeAssignee", "attach", "detach", "setField", "noOp"}
Ids == Labels \cup Comments \cup Attachments \cup Users \cup Fields
Contents == Names \cup Bodies \cup Values \cup {Absent}
Request == [op : Ops, id : Ids, to : Contents, revision : Nat, by : Users, key : Keys]

\* What the constants are assumed to be.
DetailsAssumption ==
    /\ Admins \subseteq Users /\ IsFiniteSet(Slots) /\ Slots # {}
    /\ MaxAssignees \in Nat \ {0} /\ MaxAttachments \in Nat \ {0} /\ MaxRequests \in Nat
    /\ Absent \notin Comment \cup Attachment \cup Label \cup Names \cup Bodies \cup Values
    /\ NoRequest \notin Request

View == [label : [Labels -> Names \cup {Absent}], applied : SUBSET Labels,
         comment : [Comments -> Bodies \cup {Absent}], assignee : SUBSET Users,
         attachment : SUBSET Attachments, field : [Fields -> Values \cup {Absent}]]

VARIABLES
    card,       \* is the card live (module BoardWrites deletes it)
    label,      \* table labels of the board
    applied,    \* table card_labels
    comment,    \* table comments
    assignee,   \* table card_assignees
    attachment, \* table attachments
    field,      \* columns due_date and cover_data of the card
    watching,   \* table card_watchers
    minted,     \* identifiers handed out
    saved,      \* table idempotency_keys
    req,        \* the request each slot runs
    issued,     \* requests admitted so far (bound)
    missing,    \* slots whose statement has found nothing to insert or delete
    told,       \* the card as the appended events describe it
    timeline,   \* history: label_added less label_removed events, per label
    overtaken   \* history: users assigned again before a removal that missed them

tables == <<label, applied, comment, assignee, attachment, field, watching>>
vars == <<card, tables, minted, saved, req, issued, missing, told, timeline, overtaken>>

TypeOK ==
    /\ card \in BOOLEAN
    /\ label \in [Labels -> Label \cup {Absent}]
    /\ applied \subseteq Labels
    /\ comment \in [Comments -> Comment \cup {Absent}]
    /\ assignee \subseteq Users
    /\ attachment \in [Attachments -> Attachment \cup {Absent}]
    /\ field \in [Fields -> Values \cup {Absent}]
    /\ watching \subseteq Users
    /\ minted \subseteq Labels \cup Comments
    /\ saved \subseteq Keys
    /\ req \in [Slots -> Request \cup {NoRequest}]
    /\ issued \in 0..MaxRequests
    /\ missing \subseteq Slots
    /\ told \in View
    /\ timeline \in [Labels -> Int]
    /\ overtaken \subseteq Users

Running(s) == req[s] # NoRequest
Stored == {l \in Labels : label[l] # Absent}
NamesOf(ls) == {label[l].name : l \in ls}
LiveComments == {c \in Comments : comment[c] # Absent /\ ~comment[c].deleted}
Attached == {a \in Attachments : attachment[a] # Absent /\ ~attachment[a].deleted}

\* The live rows as a reader sees them.
Shown ==
    [label |-> [l \in Labels |-> IF label[l] = Absent THEN Absent ELSE label[l].name],
     applied |-> applied,
     comment |-> [c \in Comments |-> IF c \in LiveComments THEN comment[c].body ELSE Absent],
     assignee |-> assignee,
     attachment |-> Attached,
     field |-> field]

NameFree(l, n) == n \notin NamesOf(Stored \ {l})

\* A live card that may have assignees and carries nothing else yet, on a board
\* that may have labels.
Init ==
    /\ card = TRUE
    /\ label \in [Labels -> Label \cup {Absent}]
    /\ \A l \in Stored : NameFree(l, label[l].name)
    /\ applied = {}
    /\ comment = [c \in Comments |-> Absent]
    /\ assignee \in SUBSET Users
    /\ IsFiniteSet(assignee) /\ Cardinality(assignee) <= MaxAssignees
    /\ attachment = [a \in Attachments |-> Absent]
    /\ field = [f \in Fields |-> Absent]
    /\ watching = {}
    /\ minted = Stored
    /\ saved = {}
    /\ req = [s \in Slots |-> NoRequest]
    /\ issued = 0
    /\ missing = {}
    /\ told = Shown
    /\ timeline = [l \in Labels |-> 0]
    /\ overtaken = {}

-----------------------------------------------------------------------------
(* Admission: the reads of a handler and the decision of its use case.  A    *)
(* request that is rejected, or whose key is saved, takes no slot.           *)

Req(op, id, to) == [op |-> op, id |-> id, to |-> to, revision |-> 0]
OnLiveCard(requests) == IF card THEN requests ELSE {}
Deleters(by) == {by} \cup Admins

LabelRequests(u) ==
    {Req("createLabel", l, n) : l \in Labels \ minted, n \in Names \ NamesOf(Stored)}
    \cup
    UNION {{Req(IF label[l].name = n THEN "noOp" ELSE "updateLabel", l, n) :
              n \in Names \ NamesOf(Stored \ {l})} : l \in {l \in Stored : label[l].by = u}}

\* A link that is there, or is not, when the request reads makes it a noOp.
LabelLinkRequests ==
    OnLiveCard({Req(IF l \in applied THEN "noOp" ELSE "applyLabel", l, Absent) : l \in Stored})
    \cup {Req(IF l \in applied THEN "removeLabel" ELSE "noOp", l, Absent) : l \in Labels}

CommentRequests(u) ==
    OnLiveCard({Req("createComment", c, b) : c \in Comments \ minted, b \in Bodies})
    \cup
    {[Req(IF comment[c].body = b THEN "noOp" ELSE "updateComment", c, b)
        EXCEPT !.revision = comment[c].revision] :
        c \in {c \in LiveComments : comment[c].by = u}, b \in Bodies}
    \cup
    {[Req("deleteComment", c, Absent) EXCEPT !.revision = comment[c].revision] :
        c \in {c \in LiveComments : u \in Deleters(comment[c].by)}}

AssigneeRequests ==
    OnLiveCard(
        {Req("addAssignee", v, Absent) :
            v \in IF Cardinality(assignee) < MaxAssignees THEN Users \ assignee ELSE {}}
        \cup {Req("removeAssignee", v, Absent) : v \in assignee})

\* Variant: one attachment more than the cap.
RoomForAttachmentPlusOne == Cardinality(Attached) <= MaxAttachments

RoomForAttachment == Cardinality(Attached) < MaxAttachments

\* requestUpload writes no row; its key is saved.
UploadRequests ==
    IF RoomForAttachment THEN {Req("noOp", a, Absent) : a \in Attachments} ELSE {}

\* confirmUpload takes the identifier from the client, addLink draws one.
AttachRequests ==
    IF RoomForAttachment THEN {Req("attach", a, Absent) : a \in Attachments} ELSE {}

DetachRequests(u) ==
    {Req("detach", a, Absent) : a \in {a \in Attached : u \in Deleters(attachment[a].by)}}

FieldRequests ==
    OnLiveCard({Req(IF field[f] = v THEN "noOp" ELSE "setField", f, v) :
                  f \in Fields, v \in Values \cup {Absent}})

Admissible(u) ==
    LabelRequests(u) \cup LabelLinkRequests \cup CommentRequests(u)
    \cup AssigneeRequests
    \cup OnLiveCard(UploadRequests \cup AttachRequests) \cup DetachRequests(u) \cup FieldRequests

Sent(r, u, k) ==
    [op |-> r.op, id |-> r.id, to |-> r.to, revision |-> r.revision, by |-> u, key |-> k]

\* withIdempotency, up to its call of save.
Admit(s) ==
    /\ ~Running(s)
    /\ issued < MaxRequests
    /\ \E u \in Users, k \in Keys \ saved : \E r \in Admissible(u) :
         /\ req' = [req EXCEPT ![s] = Sent(r, u, k)]
         /\ minted' = minted \cup (IF r.op \in {"createLabel", "createComment"} THEN {r.id} ELSE {})
    /\ issued' = issued + 1
    /\ UNCHANGED <<card, tables, saved, missing, told, timeline, overtaken>>

-----------------------------------------------------------------------------
(* The events, and the card a reader builds from them.                      *)

Tell(r) ==
    CASE r.op \in {"createLabel", "updateLabel"} -> [told EXCEPT !.label[r.id] = r.to]
      [] r.op = "applyLabel" -> [told EXCEPT !.applied = @ \cup {r.id}]
      [] r.op = "removeLabel" -> [told EXCEPT !.applied = @ \ {r.id}]
      [] r.op = "createComment" -> [told EXCEPT !.comment[r.id] = r.to]
      [] r.op = "updateComment" ->
           [told EXCEPT !.comment[r.id] = IF @ = Absent THEN Absent ELSE r.to]
      [] r.op = "deleteComment" -> [told EXCEPT !.comment[r.id] = Absent]
      [] r.op = "addAssignee" -> [told EXCEPT !.assignee = @ \cup {r.id}]
      [] r.op = "removeAssignee" -> [told EXCEPT !.assignee = @ \ {r.id}]
      [] r.op = "attach" -> [told EXCEPT !.attachment = @ \cup {r.id}]
      [] r.op = "detach" -> [told EXCEPT !.attachment = @ \ {r.id}]
      [] r.op = "setField" -> [told EXCEPT !.field[r.id] = r.to]
      [] OTHER -> told

Mark(r) ==
    CASE r.op = "applyLabel" -> [timeline EXCEPT ![r.id] = @ + 1]
      [] r.op = "removeLabel" -> [timeline EXCEPT ![r.id] = @ - 1]
      [] OTHER -> timeline

\* Variant: a label's event is appended whether or not a row was inserted or deleted.
AppendsAlways(s) == TRUE

\* A label's event is appended only when a row was inserted or deleted; the
\* removal of an assignee is told in any case.
Appends(s) == s \notin missing \/ req[s].op = "removeAssignee"

-----------------------------------------------------------------------------
(* The writes, each with the rows its WHERE clause finds when it runs.  A    *)
(* write that breaks a key or a unique index cannot commit.                 *)

CreateLabel(r) ==
    /\ r.op = "createLabel"
    /\ NameFree(r.id, r.to)
    /\ label' = [label EXCEPT ![r.id] = [by |-> r.by, name |-> r.to]]
    /\ UNCHANGED <<applied, comment, assignee, attachment, field, watching>>

UpdateLabel(r) ==
    /\ r.op = "updateLabel"
    /\ NameFree(r.id, r.to)
    /\ label' = [label EXCEPT ![r.id].name = r.to]
    /\ UNCHANGED <<applied, comment, assignee, attachment, field, watching>>

ApplyLabel(r) ==
    /\ r.op = "applyLabel"
    /\ r.id \notin applied
    /\ applied' = applied \cup {r.id}
    /\ UNCHANGED <<label, comment, assignee, attachment, field, watching>>

RemoveLabel(r) ==
    /\ r.op = "removeLabel"
    /\ r.id \in applied
    /\ applied' = applied \ {r.id}
    /\ UNCHANGED <<label, comment, assignee, attachment, field, watching>>

CreateComment(r) ==
    /\ r.op = "createComment"
    /\ comment' = [comment EXCEPT ![r.id] =
                      [by |-> r.by, body |-> r.to, revision |-> 0, deleted |-> FALSE]]
    /\ watching' = watching \cup {r.by}
    /\ UNCHANGED <<label, applied, assignee, attachment, field>>

\* The revision a patch writes: that of the row the request read, plus one.
Revised(r) == r.revision + 1

UpdateComment(r) ==
    /\ r.op = "updateComment"
    /\ comment' = IF r.id \in LiveComments
                  THEN [comment EXCEPT ![r.id].body = r.to, ![r.id].revision = Revised(r)]
                  ELSE comment
    /\ UNCHANGED <<label, applied, assignee, attachment, field, watching>>

DeleteComment(r) ==
    /\ r.op = "deleteComment"
    /\ comment' = IF r.id \in LiveComments
                  THEN [comment EXCEPT ![r.id].deleted = TRUE, ![r.id].revision = Revised(r)]
                  ELSE comment
    /\ UNCHANGED <<label, applied, assignee, attachment, field, watching>>

AddAssignee(r) ==
    /\ r.op = "addAssignee"
    /\ r.id \notin assignee
    /\ assignee' = assignee \cup {r.id}
    /\ UNCHANGED <<label, applied, comment, attachment, field, watching>>

RemoveAssignee(r) ==
    /\ r.op = "removeAssignee"
    /\ r.id \in assignee
    /\ assignee' = assignee \ {r.id}
    /\ UNCHANGED <<label, applied, comment, attachment, field, watching>>

Attach(r) ==
    /\ r.op = "attach"
    /\ attachment[r.id] = Absent
    /\ attachment' = [attachment EXCEPT ![r.id] = [by |-> r.by, deleted |-> FALSE]]
    /\ UNCHANGED <<label, applied, comment, assignee, field, watching>>

Detach(r) ==
    /\ r.op = "detach"
    /\ attachment' = IF r.id \in Attached
                     THEN [attachment EXCEPT ![r.id].deleted = TRUE] ELSE attachment
    /\ UNCHANGED <<label, applied, comment, assignee, field, watching>>

\* The card is found by its identifier alone, deleted since or not.
SetColumn(r) ==
    /\ field' = [field EXCEPT ![r.id] = r.to]
    /\ UNCHANGED <<label, applied, comment, assignee, attachment, watching>>

SetDueDate(r) == r.op = "setField" /\ r.id = "dueDate" /\ SetColumn(r)
SetCover(r) == r.op = "setField" /\ r.id = "cover" /\ SetColumn(r)

NoOp(r) == r.op = "noOp" /\ UNCHANGED tables

Write(r) ==
    \/ CreateLabel(r) \/ UpdateLabel(r) \/ ApplyLabel(r) \/ RemoveLabel(r)
    \/ CreateComment(r) \/ UpdateComment(r) \/ DeleteComment(r)
    \/ AddAssignee(r) \/ RemoveAssignee(r) \/ Attach(r) \/ Detach(r)
    \/ SetDueDate(r) \/ SetCover(r) \/ NoOp(r)

\* onConflictDoNothing finds the link there, or a deletion finds it gone.  The
\* statement writes and locks nothing.
FindsNothing(r) ==
    \/ r.op = "applyLabel" /\ r.id \in applied
    \/ r.op = "removeLabel" /\ r.id \notin applied
    \/ r.op = "removeAssignee" /\ r.id \notin assignee

Miss(s) ==
    /\ Running(s)
    /\ s \notin missing
    /\ FindsNothing(req[s])
    /\ missing' = missing \cup {s}
    /\ UNCHANGED <<card, tables, minted, saved, req, issued, told, timeline, overtaken>>

\* A history for EventsTellCard.
Overtaken(s) ==
    IF s \in missing /\ req[s].op = "removeAssignee" THEN assignee \cap {req[s].id} ELSE {}

Commit(s) ==
    /\ Running(s)
    /\ req[s].key \notin saved
    /\ IF s \in missing THEN UNCHANGED tables ELSE Write(req[s])
    /\ told' = IF Appends(s) THEN Tell(req[s]) ELSE told
    /\ timeline' = IF Appends(s) THEN Mark(req[s]) ELSE timeline
    /\ overtaken' = overtaken \cup Overtaken(s)
    /\ saved' = saved \cup {req[s].key}
    /\ req' = [req EXCEPT ![s] = NoRequest]
    /\ missing' = missing \ {s}
    /\ UNCHANGED <<card, minted, issued>>

\* A unique violation, a lost connection, a crash: the transaction rolls back.
Abort(s) ==
    /\ Running(s)
    /\ req' = [req EXCEPT ![s] = NoRequest]
    /\ missing' = missing \ {s}
    /\ UNCHANGED <<card, tables, minted, saved, issued, told, timeline, overtaken>>

-----------------------------------------------------------------------------
\* deleteCard and restoreCard leave what the card carries as it is.
CardChanges ==
    /\ card' = ~card
    /\ UNCHANGED <<tables, minted, saved, req, issued, missing, told, timeline, overtaken>>

Next ==
    \/ \E s \in Slots : Admit(s) \/ Miss(s) \/ Commit(s) \/ Abort(s)
    \/ CardChanges

Spec == Init /\ [][Next]_vars

-----------------------------------------------------------------------------
(* What must hold.                                                          *)

\* A reader that applies the events in commit order sees what the tables hold,
\* also where two requests changed one row or one of them found it gone.  Only an
\* assignee may be told gone and be there: one assigned again before a removal
\* committed that had found the row gone (removeAssignee appends in any case).  In
\* the timeline a label is added and removed in turn: where two requests add or
\* remove one at once, only one of them appends an event (labels.router.ts,
\* applyToCard: "we'd duplicate the activity timeline").
EventsTellCard ==
    /\ [told EXCEPT !.assignee = assignee] = Shown
    /\ told.assignee \subseteq assignee
    /\ assignee \subseteq told.assignee \cup overtaken
    /\ \A l \in Labels : timeline[l] = IF l \in applied THEN 1 ELSE 0

Pending(op) == {s \in Slots : Running(s) /\ req[s].op = op}

\* MAX_ATTACHMENTS and MAX_ASSIGNEES_PER_CARD are checked before the insert and
\* not by it: a card passes a cap by no more than the other requests under way.
CapsPassedOnlyByRace ==
    /\ Cardinality(assignee) + Cardinality(Pending("addAssignee"))
         < MaxAssignees + Cardinality(Slots)
    /\ Cardinality(Attached) + Cardinality(Pending("attach"))
         < MaxAttachments + Cardinality(Slots)
=============================================================================
