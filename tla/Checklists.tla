----------------------------- MODULE Checklists -----------------------------
(***************************************************************************)
(* The checklists of one card and their items: the requests of             *)
(* checklists.router.ts, the rows they write and what the events they       *)
(* append tell of those rows.                                               *)
(*                                                                         *)
(* A request reads when it is admitted (the idempotency key, the checklist, *)
(* the item, the titles in use) and writes later, in the same READ          *)
(* COMMITTED transaction and without locking what it read.  The rows, the   *)
(* event and the key become visible together.                               *)
(*                                                                         *)
(* A write is one step with its commit where nothing can come between them: *)
(* a row it changes is locked until then, a row it does not find is gone    *)
(* for good, a row it inserts is seen by nobody.  Only a deletion's first    *)
(* statement is a step of its own (Sweep): a row inserted after it ran is    *)
(* not deleted.  A statement that waits for a row runs after its holder.    *)
(***************************************************************************)
EXTENDS Naturals, FiniteSets

CONSTANTS
    Users,
    Admins,       \* users whose membership role is ADMIN or OWNER
    Checklists, Items,  \* identifiers (crypto.randomUUID)
    Titles,       \* titles up to case: what LOWER(title) tells apart
    Texts,
    Keys,         \* idempotency keys the clients send
    Slots,        \* requests the server runs at a time
    MaxRequests,  \* bound: requests in a behaviour
    Absent, Same, NoRequest

ASSUME PeopleAssumption == Admins \subseteq Users /\ MaxRequests \in Nat

Done == {"open", "done"}
ChecklistRow == [title : Titles, by : Users, deleted : BOOLEAN]
ItemRow == [list : Checklists, text : Texts, done : Done]

\* A request: its identifiers and, for an update, the fields it changes.
\* A deletion whose items have been deleted goes on as "markDeleted".
Ops == {"create", "update", "delete", "markDeleted",
        "addItem", "updateItem", "removeItem", "noOp"}
Request == [op : Ops, key : Keys, by : Users,
            list : Checklists \cup {Absent}, item : Items \cup {Absent},
            title : Titles \cup {Same}, text : Texts \cup {Same}, done : Done \cup {Same}]

ASSUME MarksAssumption ==
    /\ Absent \notin ChecklistRow \cup ItemRow \cup Checklists \cup Items \cup Titles
    /\ Same \notin Titles \cup Texts \cup Done
    /\ NoRequest \notin Request

View == [title : [Checklists -> Titles \cup {Absent}], item : [Items -> ItemRow \cup {Absent}]]

VARIABLES
    card,       \* is the card live (module BoardWrites deletes it)
    checklist,  \* table checklists
    item,       \* table checklist_items
    minted,     \* identifiers handed out
    saved,      \* table idempotency_keys
    req,        \* the request each slot runs
    issued,     \* requests admitted so far (bound)
    swept,      \* items whose deletion each slot has not committed: locked
    told,       \* the checklists as the appended events describe them
    applied,    \* history: how often a key's work was committed
    beside,     \* history: items being added after each slot deleted their list's
    raced       \* history: items being added to a checklist while it was deleted

vars == <<card, checklist, item, minted, saved, req, issued, swept, told, applied, beside, raced>>

TypeOK ==
    /\ card \in BOOLEAN
    /\ checklist \in [Checklists -> ChecklistRow \cup {Absent}]
    /\ item \in [Items -> ItemRow \cup {Absent}]
    /\ minted \subseteq Checklists \cup Items
    /\ saved \subseteq Keys
    /\ req \in [Slots -> Request \cup {NoRequest}]
    /\ issued \in 0..MaxRequests
    /\ swept \in [Slots -> SUBSET Items]
    /\ told \in View
    /\ applied \in [Keys -> Nat]
    /\ beside \in [Slots -> SUBSET Items]
    /\ raced \subseteq Items

\* notDeleted: what every read of a checklist filters on.
Live(c) == checklist[c] # Absent /\ ~checklist[c].deleted
LiveChecklists == {c \in Checklists : Live(c)}
TitlesOf(cs) == {checklist[c].title : c \in cs}
Stored(i) == item[i] # Absent
ItemsOf(c) == {i \in Items : Stored(i) /\ item[i].list = c}
Running(s) == req[s] # NoRequest
Unlocked(i) == \A s \in Slots : i \notin swept[s]

Init ==
    /\ card = TRUE
    /\ checklist = [c \in Checklists |-> Absent]
    /\ item = [i \in Items |-> Absent]
    /\ minted = {}
    /\ saved = {}
    /\ req = [s \in Slots |-> NoRequest]
    /\ issued = 0
    /\ swept = [s \in Slots |-> {}]
    /\ told = [title |-> [c \in Checklists |-> Absent], item |-> [i \in Items |-> Absent]]
    /\ applied = [k \in Keys |-> 0]
    /\ beside = [s \in Slots |-> {}]
    /\ raced = {}

-----------------------------------------------------------------------------
(* Admission: the reads of a handler and the decision of its use case.  A    *)
(* request that is rejected, or whose key is saved, takes no slot.           *)

Req(op, c, i, title, text, done) ==
    [op |-> op, list |-> c, item |-> i, title |-> title, text |-> text, done |-> done]

CreateRequests ==
    IF card
    THEN {Req("create", c, Absent, t, Same, Same) :
            c \in Checklists \ minted, t \in Titles \ TitlesOf(LiveChecklists)}
    ELSE {}

Change(old, new) == IF new = old THEN Same ELSE new

\* Only the fields that differ from the row read are written and told (D12).
UpdateRequests ==
    UNION {{Req("update", c, Absent, Change(checklist[c].title, t), Same, Same) :
              t \in Titles \ TitlesOf(LiveChecklists \ {c})} : c \in LiveChecklists}

DeleteRequests(u) ==
    {Req("delete", c, Absent, Same, Same, Same) :
        c \in {c \in LiveChecklists : checklist[c].by = u \/ u \in Admins}}

AddItemRequests ==
    {Req("addItem", c, i, Same, t, Same) :
        c \in LiveChecklists, i \in Items \ minted, t \in Texts}

\* An item is reached through its checklist: the orphan of a deleted one is not found.
Reachable == {i \in Items : Stored(i) /\ Live(item[i].list)}

UpdateItemRequests ==
    UNION {{Req("updateItem", item[i].list, i, Same,
                Change(item[i].text, t), Change(item[i].done, d)) :
              t \in Texts, d \in Done} : i \in Reachable}

RemoveItemRequests ==
    {Req("removeItem", item[i].list, i, Same, Same, Same) : i \in Reachable}

\* An update that changes nothing appends nothing, and its key is saved.
Settled(r) ==
    IF r.title = Same /\ r.text = Same /\ r.done = Same
    THEN Req("noOp", r.list, r.item, Same, Same, Same) ELSE r

Admissible(u) ==
    CreateRequests \cup DeleteRequests(u) \cup AddItemRequests \cup RemoveItemRequests
    \cup {Settled(r) : r \in UpdateRequests \cup UpdateItemRequests}

Sent(r, u, k) ==
    [op |-> r.op, key |-> k, by |-> u, list |-> r.list, item |-> r.item,
     title |-> r.title, text |-> r.text, done |-> r.done]

\* A history for raced: the slots whose deletion of the item's list has been swept.
Besides(r) ==
    [s \in Slots |->
       IF r.op = "addItem" /\ Running(s) /\ req[s].op = "markDeleted" /\ req[s].list = r.list
       THEN beside[s] \cup {r.item} ELSE beside[s]]

New(r) == IF r.op = "create" THEN {r.list} ELSE IF r.op = "addItem" THEN {r.item} ELSE {}

\* withIdempotency, up to its call of save.
Admit(s) ==
    /\ ~Running(s)
    /\ issued < MaxRequests
    /\ \E u \in Users, k \in Keys \ saved : \E r \in Admissible(u) :
         /\ req' = [req EXCEPT ![s] = Sent(r, u, k)]
         /\ minted' = minted \cup New(r)
         /\ beside' = Besides(r)
    /\ issued' = issued + 1
    /\ UNCHANGED <<card, checklist, item, saved, swept, told, applied, raced>>

-----------------------------------------------------------------------------
(* The events, and the checklists a reader builds from them.                *)

\* A field of a patch that is undefined leaves the column as it is.
With(old, new) == IF new = Same THEN old ELSE new

PatchedItem(row, r) == [row EXCEPT !.text = With(row.text, r.text), !.done = With(row.done, r.done)]
NewItem(r) == [list |-> r.list, text |-> r.text, done |-> "open"]
WithoutItemsOf(items, c) ==
    [i \in Items |-> IF items[i] # Absent /\ items[i].list = c THEN Absent ELSE items[i]]

Tell(r) ==
    CASE r.op = "create" -> [told EXCEPT !.title[r.list] = r.title]
      [] r.op = "update" ->
           [told EXCEPT !.title[r.list] = IF @ = Absent THEN Absent ELSE r.title]
      [] r.op = "markDeleted" ->
           [title |-> [told.title EXCEPT ![r.list] = Absent],
            item |-> WithoutItemsOf(told.item, r.list)]
      [] r.op = "addItem" -> [told EXCEPT !.item[r.item] = NewItem(r)]
      [] r.op = "updateItem" ->
           [told EXCEPT !.item[r.item] = IF @ = Absent THEN Absent ELSE PatchedItem(@, r)]
      [] r.op = "removeItem" -> [told EXCEPT !.item[r.item] = Absent]
      [] OTHER -> told

-----------------------------------------------------------------------------
(* The writes, each with the rows its WHERE clause finds when it runs.       *)

\* Unique index on LOWER(title) of the live checklists of a card.
TitleFree(c, t) == t \notin TitlesOf(LiveChecklists \ {c})

CreateChecklist(r) ==
    /\ r.op = "create"
    /\ TitleFree(r.list, r.title)
    /\ checklist' = [checklist EXCEPT ![r.list] =
                        [title |-> r.title, by |-> r.by, deleted |-> FALSE]]
    /\ UNCHANGED <<item, raced>>

UpdateChecklist(r) ==
    /\ r.op = "update"
    /\ IF Live(r.list)
       THEN /\ TitleFree(r.list, r.title)
            /\ checklist' = [checklist EXCEPT ![r.list].title = r.title]
       ELSE UNCHANGED checklist
    /\ UNCHANGED <<item, raced>>

\* Variant: the items are left to the cascade of a row that is only marked.
HardDeleteItemsNever(c) == {}

\* hardDeleteItemsByChecklistId: the items there are when it runs.
HardDeleteItems(c) == ItemsOf(c)

Adding(c) == {req[s].item : s \in {s \in Slots :
                Running(s) /\ req[s].op = "addItem" /\ req[s].list = c}}

\* The first statement of deleteChecklist; its rows are gone when it commits.
Sweep(s) ==
    /\ Running(s)
    /\ req[s].op = "delete"
    /\ \A i \in ItemsOf(req[s].list) : Unlocked(i)
    /\ swept' = [swept EXCEPT ![s] = HardDeleteItems(req[s].list)]
    /\ beside' = [beside EXCEPT ![s] = Adding(req[s].list)]
    /\ req' = [req EXCEPT ![s].op = "markDeleted"]
    /\ UNCHANGED <<card, checklist, item, minted, saved, issued, told, applied, raced>>

\* The rest of it: softDeleteChecklist and the event.
DeleteChecklist(s) ==
    /\ req[s].op = "markDeleted"
    /\ item' = [i \in Items |-> IF i \in swept[s] THEN Absent ELSE item[i]]
    /\ checklist' = [checklist EXCEPT ![req[s].list].deleted = TRUE]
    /\ raced' = raced \cup beside[s]

\* The foreign key is satisfied by a checklist that is only marked deleted.
AddItem(r) ==
    /\ r.op = "addItem"
    /\ item[r.item] = Absent
    /\ item' = [item EXCEPT ![r.item] = NewItem(r)]
    /\ UNCHANGED <<checklist, raced>>

\* Variant: the flag is inverted where it stands instead of set.
UpdateItemToggling(r) ==
    /\ r.op = "updateItem"
    /\ Unlocked(r.item)
    /\ item' = [item EXCEPT ![r.item] =
         IF @ = Absent THEN Absent
         ELSE [@ EXCEPT !.text = With(@, r.text),
                        !.done = IF r.done = Same THEN @ ELSE IF @ = "open" THEN "done" ELSE "open"]]
    /\ UNCHANGED <<checklist, raced>>

UpdateItem(r) ==
    /\ r.op = "updateItem"
    /\ Unlocked(r.item)
    /\ item' = [item EXCEPT ![r.item] = IF @ = Absent THEN Absent ELSE PatchedItem(@, r)]
    /\ UNCHANGED <<checklist, raced>>

RemoveItem(r) ==
    /\ r.op = "removeItem"
    /\ Unlocked(r.item)
    /\ item' = [item EXCEPT ![r.item] = Absent]
    /\ UNCHANGED <<checklist, raced>>

NoOp(r) == r.op = "noOp" /\ UNCHANGED <<checklist, item, raced>>

Write(s) ==
    \/ CreateChecklist(req[s]) \/ UpdateChecklist(req[s]) \/ DeleteChecklist(s)
    \/ AddItem(req[s]) \/ UpdateItem(req[s]) \/ RemoveItem(req[s]) \/ NoOp(req[s])

\* Variant: save does nothing on conflict.
KeyFreeAlways(k) == TRUE

\* save is a plain insert: a second row of one key aborts its transaction.
KeyFree(k) == k \notin saved

\* The slot holds no locks and no history any more.
Ended(s) ==
    /\ req' = [req EXCEPT ![s] = NoRequest]
    /\ swept' = [swept EXCEPT ![s] = {}]
    /\ beside' = [beside EXCEPT ![s] = {}]

Commit(s) ==
    /\ Running(s)
    /\ KeyFree(req[s].key)
    /\ Write(s)
    /\ told' = Tell(req[s])
    /\ saved' = saved \cup {req[s].key}
    /\ applied' = [applied EXCEPT ![req[s].key] = @ + 1]
    /\ Ended(s)
    /\ UNCHANGED <<card, minted, issued>>

\* A unique violation, a lost connection, a crash: the transaction rolls back.
Abort(s) ==
    /\ Running(s)
    /\ Ended(s)
    /\ UNCHANGED <<card, checklist, item, minted, saved, issued, told, applied, raced>>

\* deleteCard and restoreCard: checklists and items are left as they are.
CardChanges ==
    /\ card' = ~card
    /\ UNCHANGED <<checklist, item, minted, saved, req, issued, swept, told, applied, beside, raced>>

Next == CardChanges \/ \E s \in Slots : Admit(s) \/ Sweep(s) \/ Commit(s) \/ Abort(s)
Spec == Init /\ [][Next]_vars

-----------------------------------------------------------------------------
(* What must hold.                                                          *)

\* No two live checklists of a card have one title, although both requests
\* found it free: the index decides (checklists.ts, idx_checklists_unique_title_per_card).
LiveTitlesDistinct ==
    \A c, d \in LiveChecklists : c # d => checklist[c].title # checklist[d].title

\* A key's work is committed at most once, however often it is sent and however
\* the copies interleave (withIdempotency).
KeyAppliedOnce == \A k \in Keys : applied[k] <= 1

\* A reader that applies the events in commit order has the live checklists and
\* the items of the live ones, also where two requests changed one item or one of
\* them found its row gone (the field masks of updateChecklist and updateItem).
\* It has no item that is not stored; what it may lack is an item that was left
\* behind by the deletion of its checklist.
EventsTellChecklists ==
    /\ told.title = [c \in Checklists |-> IF Live(c) THEN checklist[c].title ELSE Absent]
    /\ \A i \in Items :
         \/ told.item[i] = item[i]
         \/ told.item[i] = Absent /\ ~Live(item[i].list)

\* deleteChecklist leaves no item behind but those that were being added to the
\* checklist at some time between the deletion of its items and its commit.
OrphansOnlyByRace ==
    \A i \in Items : Stored(i) => Live(item[i].list) \/ i \in raced

\* A deleted checklist is not brought back and not renamed by a request that
\* read it before (notDeleted in updateChecklist).
DeletedChecklistFrozen ==
    [][\A c \in Checklists :
         checklist[c] # Absent /\ checklist[c].deleted => checklist'[c] = checklist[c]]_vars
=============================================================================
