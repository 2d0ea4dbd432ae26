------------------------- MODULE CardFeaturesProofs -------------------------
(***************************************************************************)
(* Proofs about the two halves of the card features, modules Checklists and*)
(* CardDetails.  The inductive invariant of the checklists adds what is    *)
(* known of a request between its reads and its writes: the identifier it  *)
(* creates is its own, the checklist it names has a row, the item it adds  *)
(* is in a live checklist, in the history of the race or beside a deletion *)
(* under way, and the items a deletion has swept are its own until it ends.*)
(* That of the details adds what an admitted request says of its rows and  *)
(* bounds, and that a request whose statement found nothing is of a kind   *)
(* that changes no row; it counts the requests that found room under a cap *)
(* and are not committed.                                                  *)
(***************************************************************************)
EXTENDS MCCardFeatures, FiniteSetTheorems, TLAPS

\* What an admitted request says of the rows it writes.
Aimed(r) ==
    /\ r.op \in {"create", "update", "delete", "markDeleted", "addItem"} => r.list \in Checklists
    /\ r.op \in {"create", "update"} => r.title \in Titles
    /\ r.op = "create" => r.list \in minted /\ checklist[r.list] = Absent
    /\ r.op \in {"update", "delete", "markDeleted", "addItem"} => checklist[r.list] # Absent
    /\ r.op \in {"addItem", "updateItem", "removeItem"} => r.item \in Items
    /\ r.op = "addItem" => r.text \in Texts /\ (Live(r.list) \/ r.item \in raced)

RequestsAimed == \A s \in Slots : Running(s) => Aimed(req[s])

CreatorsDiffer ==
    \A s, t \in Slots :
        Running(s) /\ Running(t) /\ req[s].op = "create" /\ req[t].op = "create"
        /\ req[s].list = req[t].list => s = t

\* What is deleted and not committed is stored, in the list of the deletion that
\* holds it, and of that list nothing else is stored but what the race left.
SweptStored ==
    \A s \in Slots : \A i \in swept[s] :
        Running(s) /\ req[s].op = "markDeleted" /\ Stored(i) /\ item[i].list = req[s].list

SweptApart == \A s, t \in Slots, i \in Items : i \in swept[s] /\ i \in swept[t] => s = t

SweptAll ==
    \A s \in Slots, i \in Items :
        Running(s) /\ req[s].op = "markDeleted" /\ Stored(i) /\ item[i].list = req[s].list
        => i \in swept[s] \cup beside[s] \cup raced

AddersBeside ==
    \A s, t \in Slots :
        Running(s) /\ req[s].op = "markDeleted" /\ Running(t) /\ req[t].op = "addItem"
        /\ req[t].list = req[s].list => req[t].item \in beside[s]

\* An item is stored in a list that has a row, deleted or not.
ItemsListed == \A i \in Items : Stored(i) => checklist[item[i].list] # Absent

SweepsInv == SweptStored /\ SweptApart /\ SweptAll /\ AddersBeside

UnmintedAbsent == \A c \in Checklists : c \notin minted => checklist[c] = Absent

AppliedWhenSaved == \A k \in Keys : applied[k] = IF k \in saved THEN 1 ELSE 0

IInv ==
    /\ TypeOK
    /\ RequestsAimed
    /\ CreatorsDiffer
    /\ SweepsInv
    /\ ItemsListed
    /\ UnmintedAbsent
    /\ AppliedWhenSaved
    /\ LiveTitlesDistinct
    /\ EventsTellChecklists
    /\ OrphansOnlyByRace

-----------------------------------------------------------------------------
USE PeopleAssumption, MarksAssumption

\* Rows are not the mark of an absent one.
LEMMA RowsPresent ==
  /\ \A t \in Titles, u \in Users, d \in BOOLEAN : [title |-> t, by |-> u, deleted |-> d] # Absent
  /\ \A c \in Checklists, t \in Texts, d \in Done : [list |-> c, text |-> t, done |-> d] # Absent
  /\ \A t \in Titles : t # Absent
<1>1. ASSUME NEW t \in Titles, NEW u \in Users, NEW d \in BOOLEAN
      PROVE  [title |-> t, by |-> u, deleted |-> d] # Absent
  <2>1. [title |-> t, by |-> u, deleted |-> d] \in ChecklistRow
    BY DEF ChecklistRow
  <2> HIDE DEF ChecklistRow
  <2> QED
    BY <2>1
<1>2. ASSUME NEW c \in Checklists, NEW t \in Texts, NEW d \in Done
      PROVE  [list |-> c, text |-> t, done |-> d] # Absent
  <2>1. [list |-> c, text |-> t, done |-> d] \in ItemRow
    BY DEF ItemRow
  <2> HIDE DEF ItemRow
  <2> QED
    BY <2>1
<1> QED
  BY <1>1, <1>2

LEMMA InitInvariant == Init => IInv
<1> SUFFICES ASSUME Init PROVE IInv
  OBVIOUS
<1>1. \A c \in Checklists : ~Live(c)
  BY DEF Init, Live
<1>2. TypeOK
  BY DEF Init, TypeOK, View
<1>3. RequestsAimed /\ CreatorsDiffer /\ SweepsInv /\ ItemsListed
  BY DEF Init, RequestsAimed, CreatorsDiffer, Running, SweepsInv, SweptStored, SweptApart, SweptAll,
         AddersBeside, ItemsListed, Stored
<1>4. LiveTitlesDistinct
  BY <1>1 DEF LiveTitlesDistinct, LiveChecklists
<1>5. EventsTellChecklists
  BY <1>1 DEF Init, EventsTellChecklists
<1>6. UnmintedAbsent /\ AppliedWhenSaved /\ OrphansOnlyByRace
  BY DEF Init, UnmintedAbsent, AppliedWhenSaved, OrphansOnlyByRace, Stored
<1> QED
  BY <1>2, <1>3, <1>4, <1>5, <1>6 DEF IInv

-----------------------------------------------------------------------------
\* What the sets of admissible requests hold.
LEMMA AdmittedForm ==
  ASSUME TypeOK, NEW u \in Users, NEW k \in Keys, NEW r \in Admissible(u)
  PROVE  /\ Sent(r, u, k) \in Request
         /\ r.op \in Ops \ {"markDeleted"}
         /\ r.op \in {"create", "update", "delete", "addItem"} => r.list \in Checklists
         /\ r.op \in {"create", "update"} => r.title \in Titles
         /\ r.op = "create" => r.list \notin minted
         /\ r.op \in {"update", "delete", "addItem"} => Live(r.list)
         /\ r.op \in {"addItem", "updateItem", "removeItem"} => r.item \in Items
         /\ r.op = "addItem" => r.text \in Texts
<1> DEFINE Goal(q) ==
         /\ q = [op |-> q.op, list |-> q.list, item |-> q.item,
                 title |-> q.title, text |-> q.text, done |-> q.done]
         /\ q.op \in Ops \ {"markDeleted"}
         /\ q.list \in Checklists \cup {Absent} /\ q.item \in Items \cup {Absent}
         /\ q.title \in Titles \cup {Same} /\ q.text \in Texts \cup {Same}
         /\ q.done \in Done \cup {Same}
         /\ q.op \in {"create", "update", "delete", "addItem"} => q.list \in Checklists
         /\ q.op = "create" => q.title \in Titles
         /\ q.op = "create" => q.list \notin minted
         /\ q.op \in {"update", "delete", "addItem"} => Live(q.list)
         /\ q.op \in {"addItem", "updateItem", "removeItem"} => q.item \in Items
         /\ q.op = "addItem" => q.text \in Texts
         /\ q.op \in {"update", "noOp"} => q.text = Same /\ q.done = Same
<1>1. ASSUME NEW q \in CreateRequests PROVE Goal(q) /\ q.op = "create"
  BY <1>1 DEF CreateRequests, Req, Ops
<1>2. ASSUME NEW q \in UpdateRequests PROVE Goal(q) /\ q.op = "update"
  <2> DEFINE Of(c) == {Req("update", c, Absent, Change(checklist[c].title, t), Same, Same) :
                         t \in Titles \ TitlesOf(LiveChecklists \ {c})}
  <2>3. PICK c \in LiveChecklists : q \in Of(c)
    <3> HIDE DEF Of
    <3>1. q \in UNION {Of(c) : c \in LiveChecklists}
      BY <1>2 DEF UpdateRequests, Of
    <3> QED
      BY <3>1
  <2>1. PICK t \in Titles :
            q = Req("update", c, Absent, Change(checklist[c].title, t), Same, Same)
    BY <2>3
  <2>2. c \in Checklists /\ Live(c) /\ Change(checklist[c].title, t) \in Titles \cup {Same}
    BY DEF LiveChecklists, Change
  <2> HIDE DEF Change, Live
  <2> QED
    BY <2>1, <2>2 DEF Req, Ops
<1>3. ASSUME NEW q \in DeleteRequests(u) PROVE Goal(q) /\ q.op = "delete"
  BY <1>3 DEF DeleteRequests, Req, Ops, LiveChecklists
<1>4. ASSUME NEW q \in AddItemRequests PROVE Goal(q) /\ q.op = "addItem"
  BY <1>4 DEF AddItemRequests, Req, Ops, LiveChecklists
<1>5. ASSUME NEW i \in Reachable PROVE item[i].list \in Checklists /\ i \in Items
  <2>1. i \in Items /\ item[i] \in ItemRow
    BY <1>5 DEF Reachable, Stored, TypeOK
  <2> QED
    BY <2>1 DEF ItemRow
<1>6. ASSUME NEW q \in UpdateItemRequests PROVE Goal(q) /\ q.op = "updateItem"
  BY <1>6, <1>5 DEF UpdateItemRequests, Req, Ops, Change
<1>7. ASSUME NEW q \in RemoveItemRequests PROVE Goal(q) /\ q.op = "removeItem"
  BY <1>7, <1>5 DEF RemoveItemRequests, Req, Ops
<1>8. ASSUME NEW q \in UpdateRequests \cup UpdateItemRequests
      PROVE  /\ Goal(Settled(q))
             /\ Settled(q).op \in {"update", "updateItem", "noOp"}
             /\ Settled(q).op = "update" => Settled(q).title \in Titles
  <2>1. Goal(q) /\ q.op \in {"update", "updateItem"}
    BY <1>2, <1>6, <1>8
  <2>2. CASE q.title = Same /\ q.text = Same /\ q.done = Same
    <3>1. Settled(q) = Req("noOp", q.list, q.item, Same, Same, Same)
      BY <2>2 DEF Settled
    <3> QED
      BY <2>1, <3>1 DEF Req, Ops
  <2>3. CASE ~(q.title = Same /\ q.text = Same /\ q.done = Same)
    <3>1. Settled(q) = q
      BY <2>3 DEF Settled
    <3> QED
      BY <2>1, <2>3, <3>1
  <2> QED
    BY <2>2, <2>3
<1>9. Goal(r) /\ (r.op = "update" => r.title \in Titles)
  BY <1>1, <1>3, <1>4, <1>7, <1>8 DEF Admissible
<1> QED
  BY <1>9 DEF Sent, Request

-----------------------------------------------------------------------------
LEMMA AdmitKeeps == ASSUME IInv, NEW s \in Slots, Admit(s) PROVE IInv'
<1>1. PICK u \in Users, k \in Keys \ saved : \E r \in Admissible(u) :
         /\ req' = [req EXCEPT ![s] = Sent(r, u, k)]
         /\ minted' = minted \cup New(r)
         /\ beside' = Besides(r)
  BY DEF Admit
<1>2. PICK r \in Admissible(u) :
         /\ req' = [req EXCEPT ![s] = Sent(r, u, k)]
         /\ minted' = minted \cup New(r)
         /\ beside' = Besides(r)
  BY <1>1
<1> DEFINE q == Sent(r, u, k)
<1>3. /\ q \in Request
      /\ q.op = r.op /\ q.list = r.list /\ q.item = r.item /\ q.title = r.title /\ q.text = r.text
      /\ q.op # "markDeleted"
      /\ q.op \in {"create", "update", "delete", "addItem"} => q.list \in Checklists
      /\ q.op \in {"create", "update"} => q.title \in Titles
      /\ q.op = "create" => q.list \notin minted
      /\ q.op \in {"update", "delete", "addItem"} => Live(q.list)
      /\ q.op \in {"addItem", "updateItem", "removeItem"} => q.item \in Items
      /\ q.op = "addItem" => q.text \in Texts
  <2>1. TypeOK /\ k \in Keys
    BY DEF IInv
  <2>2. q.op = r.op /\ q.list = r.list /\ q.item = r.item /\ q.title = r.title /\ q.text = r.text
    BY DEF Sent
  <2> HIDE DEF q
  <2> QED
    BY <2>1, <2>2, AdmittedForm DEF q
<1>4. UNCHANGED <<card, checklist, item, saved, swept, told, applied, raced>> /\ issued < MaxRequests
      /\ issued' = issued + 1 /\ ~Running(s)
  BY DEF Admit
<1>5. New(r) \subseteq Checklists \cup Items /\ (q.op = "create" => q.list \in minted')
  BY <1>2, <1>3 DEF New
<1>6. \A t \in Slots : Running(t)' => (t = s /\ req'[t] = q) \/ (t # s /\ Running(t) /\ req'[t] = req[t])
  BY <1>2, <1>4 DEF IInv, TypeOK, Running
<1>13. /\ beside' \in [Slots -> SUBSET Items]
       /\ \A t \in Slots : beside[t] \subseteq beside'[t]
       /\ \A t \in Slots : q.op = "addItem" /\ Running(t) /\ req[t].op = "markDeleted"
                         /\ req[t].list = q.list => q.item \in beside'[t]
  <2>1. \A t \in Slots : beside[t] \subseteq Items
    BY DEF IInv, TypeOK
  <2>2. r.op = "addItem" => r.item \in Items
    BY <1>3
  <2> HIDE DEF q
  <2> QED
    BY <1>2, <1>3, <2>1, <2>2 DEF Besides
<1> HIDE DEF q
<1>7. TypeOK'
  <2>1. req' \in [Slots -> Request \cup {NoRequest}] /\ minted' \subseteq Checklists \cup Items
    BY <1>2, <1>3, <1>5 DEF q, IInv, TypeOK
  <2> QED
    BY <1>4, <1>13, <2>1 DEF IInv, TypeOK
<1>8. Aimed(q)'
  BY <1>3, <1>4, <1>5 DEF Aimed, IInv, UnmintedAbsent, Live
<1>9. RequestsAimed'
  <2> SUFFICES ASSUME NEW t \in Slots, Running(t)', t # s, Running(t), req'[t] = req[t] PROVE Aimed(req[t])'
    BY <1>6, <1>8 DEF RequestsAimed
  <2>1. Aimed(req[t]) /\ minted \subseteq minted'
    BY <1>2 DEF IInv, RequestsAimed
  <2> QED
    BY <2>1, <1>4 DEF Aimed, Live
<1>10. CreatorsDiffer'
  <2>1. \A t \in Slots : Running(t) /\ req[t].op = "create" => req[t].list \in minted
    BY DEF IInv, RequestsAimed, Aimed
  <2>2. CreatorsDiffer
    BY DEF IInv
  <2> QED
    BY <2>1, <2>2, <1>3, <1>6 DEF CreatorsDiffer
<1>15. ItemsListed'
  BY <1>4 DEF IInv, ItemsListed, Stored
<1>14. SweepsInv'
  <2>1. SweptStored' /\ SweptApart'
    <3>1. \A t \in Slots : \A i \in swept[t] : t # s
      BY <1>4 DEF IInv, SweepsInv, SweptStored
    <3>2. \A t \in Slots : t # s => req'[t] = req[t]
      BY <1>2 DEF IInv, TypeOK
    <3> QED
      BY <1>4, <3>1, <3>2 DEF IInv, SweepsInv, SweptStored, SweptApart, Running, Stored
  <2>2. SweptAll'
    <3> SUFFICES ASSUME NEW t \in Slots, Running(t)', req'[t].op = "markDeleted",
                        NEW i \in Items, Stored(i)', item'[i].list = req'[t].list
                 PROVE  (i \in swept[t] \cup beside[t] \cup raced)'
      BY DEF SweptAll
    <3>1. t # s /\ Running(t) /\ req'[t] = req[t]
      BY <1>3, <1>6
    <3> QED
      BY <1>4, <1>13, <3>1 DEF IInv, SweepsInv, SweptAll, Stored
  <2>3. AddersBeside'
    <3> SUFFICES ASSUME NEW t \in Slots, Running(t)', req'[t].op = "markDeleted",
                        NEW v \in Slots, Running(v)', req'[v].op = "addItem",
                        req'[v].list = req'[t].list
                 PROVE  req'[v].item \in beside'[t]
      BY DEF AddersBeside
    <3>1. t # s /\ Running(t) /\ req'[t] = req[t]
      BY <1>3, <1>6
    <3> QED
      BY <1>6, <1>13, <3>1 DEF IInv, SweepsInv, AddersBeside
  <2> QED
    BY <2>1, <2>2, <2>3 DEF SweepsInv
<1>11. UnmintedAbsent' /\ AppliedWhenSaved'
  BY <1>2, <1>4 DEF IInv, UnmintedAbsent, AppliedWhenSaved
<1>12. LiveTitlesDistinct' /\ EventsTellChecklists' /\ OrphansOnlyByRace'
  BY <1>4 DEF IInv, LiveTitlesDistinct, EventsTellChecklists, OrphansOnlyByRace, LiveChecklists, Live, Stored
<1> QED
  BY <1>7, <1>9, <1>10, <1>11, <1>12, <1>14, <1>15 DEF IInv

\* A slot that has ended its request holds nothing, the others what they held.
LEMMA SlotsEnd ==
  ASSUME IInv, NEW s \in Slots, Ended(s)
  PROVE  /\ req' \in [Slots -> Request \cup {NoRequest}]
         /\ swept' \in [Slots -> SUBSET Items] /\ beside' \in [Slots -> SUBSET Items]
         /\ swept'[s] = {}
         /\ \A t \in Slots : Running(t)' => t # s /\ Running(t)
         /\ \A t \in Slots : t # s => req'[t] = req[t] /\ swept'[t] = swept[t] /\ beside'[t] = beside[t]
BY DEF Ended, IInv, TypeOK, Running

LEMMA AbortKeeps == ASSUME IInv, NEW s \in Slots, Abort(s) PROVE IInv'
<1>1. UNCHANGED <<card, checklist, item, minted, saved, issued, told, applied, raced>> /\ Ended(s)
  BY DEF Abort
<1>2. \A t \in Slots : Running(t)' => Running(t) /\ req'[t] = req[t] /\ t # s
  BY <1>1, SlotsEnd
<1>3. TypeOK'
  BY <1>1, SlotsEnd DEF IInv, TypeOK
<1>4. RequestsAimed' /\ CreatorsDiffer'
  BY <1>1, <1>2 DEF IInv, RequestsAimed, CreatorsDiffer, Aimed, Live
<1>5. UnmintedAbsent' /\ AppliedWhenSaved' /\ LiveTitlesDistinct' /\ EventsTellChecklists' /\ OrphansOnlyByRace'
  BY <1>1 DEF IInv, UnmintedAbsent, AppliedWhenSaved, LiveTitlesDistinct, EventsTellChecklists,
              OrphansOnlyByRace, LiveChecklists, Live, Stored
<1>8. ItemsListed'
  BY <1>1 DEF IInv, ItemsListed, Stored
<1>6. SweptStored' /\ SweptApart'
  <2>1. \A t \in Slots : \A i \in swept'[t] : t # s /\ i \in swept[t] /\ req'[t] = req[t]
    BY <1>1, SlotsEnd
  <2> QED
    BY <1>1, <2>1 DEF IInv, SweepsInv, SweptStored, SweptApart, Running, Stored
<1>7. SweptAll' /\ AddersBeside'
  <2>1. \A t \in Slots : Running(t)' => swept'[t] = swept[t] /\ beside'[t] = beside[t]
    BY <1>1, <1>2, SlotsEnd
  <2> QED
    BY <1>1, <1>2, <2>1 DEF IInv, SweepsInv, SweptAll, AddersBeside, Stored
<1> QED
  BY <1>3, <1>4, <1>5, <1>6, <1>7, <1>8 DEF IInv, SweepsInv

\* A sweep takes every item of its list that is stored: none of them is another's.
LEMMA SweepKeeps == ASSUME IInv, NEW s \in Slots, Sweep(s) PROVE IInv'
<1> DEFINE c == req[s].list
           q == [req[s] EXCEPT !.op = "markDeleted"]
<1>1. /\ Running(s) /\ req[s].op = "delete" /\ \A i \in ItemsOf(c) : Unlocked(i)
      /\ swept' = [swept EXCEPT ![s] = ItemsOf(c)] /\ beside' = [beside EXCEPT ![s] = Adding(c)]
      /\ UNCHANGED <<card, checklist, item, minted, saved, issued, told, applied, raced>>
  BY DEF Sweep, HardDeleteItems
<1>2. /\ req[s] \in Request /\ q \in Request /\ q.op = "markDeleted" /\ q.list = c
      /\ req' = [req EXCEPT ![s] = q]
  BY <1>1 DEF Sweep, IInv, TypeOK, Running, Request, Ops
<1>3. Aimed(req[s]) /\ c \in Checklists /\ checklist[c] # Absent
  BY <1>1 DEF IInv, RequestsAimed, Aimed
<1>4. ItemsOf(c) \subseteq Items /\ Adding(c) \subseteq Items
  BY DEF ItemsOf, Adding, IInv, RequestsAimed, Aimed
<1> HIDE DEF c, q
<1>5. /\ req'[s] = q /\ swept'[s] = ItemsOf(c) /\ beside'[s] = Adding(c)
      /\ \A t \in Slots : t # s => req'[t] = req[t] /\ swept'[t] = swept[t] /\ beside'[t] = beside[t]
      /\ \A t \in Slots : t # s => (Running(t)' <=> Running(t))
  BY <1>1, <1>2 DEF IInv, TypeOK, Running
<1>6. TypeOK'
  BY <1>1, <1>2, <1>4 DEF IInv, TypeOK
<1>7. RequestsAimed'
  <2>1. Aimed(req[s])'
    BY <1>1, <1>2, <1>3, <1>5 DEF Aimed
  <2>2. ASSUME NEW t \in Slots, Running(t)', t # s PROVE Aimed(req[t])'
    <3>1. Aimed(req[t]) /\ req'[t] = req[t]
      BY <1>5, <2>2 DEF IInv, RequestsAimed
    <3> QED
      BY <1>1, <3>1 DEF Aimed, Live
  <2>3. ASSUME NEW t \in Slots, Running(t)' PROVE Aimed(req[t])'
    BY <2>1, <2>2, <2>3
  <2> QED
    BY <2>3 DEF RequestsAimed
<1>8. CreatorsDiffer'
  BY <1>2, <1>5 DEF IInv, CreatorsDiffer
<1>9. UnmintedAbsent' /\ AppliedWhenSaved' /\ LiveTitlesDistinct' /\ EventsTellChecklists' /\ OrphansOnlyByRace'
  BY <1>1 DEF IInv, UnmintedAbsent, AppliedWhenSaved, LiveTitlesDistinct, EventsTellChecklists,
              OrphansOnlyByRace, LiveChecklists, Live, Stored
<1>15. ItemsListed'
  BY <1>1 DEF IInv, ItemsListed, Stored
<1>10. Running(s)'
  BY <1>2, <1>5 DEF Running
<1>11. SweptStored'
  <2>1. ASSUME NEW t \in Slots, NEW i \in swept'[t], t # s
        PROVE  Running(t)' /\ req'[t].op = "markDeleted" /\ Stored(i)' /\ item'[i].list = req'[t].list
    BY <1>1, <1>5, <2>1 DEF IInv, SweepsInv, SweptStored, Stored
  <2>2. ASSUME NEW i \in swept'[s]
        PROVE  Running(s)' /\ req'[s].op = "markDeleted" /\ Stored(i)' /\ item'[i].list = req'[s].list
    BY <1>1, <1>2, <1>5, <1>10, <2>2 DEF ItemsOf, Stored
  <2> QED
    BY <2>1, <2>2 DEF SweptStored
<1>12. SweptApart'
  <2>1. \A t \in Slots, i \in Items : t # s /\ i \in swept'[t] => i \notin swept'[s]
    BY <1>1, <1>5 DEF Unlocked
  <2> QED
    BY <1>5, <2>1 DEF IInv, SweepsInv, SweptApart
<1>13. SweptAll'
  <2>1. ASSUME NEW t \in Slots, NEW i \in Items, Running(t)', req'[t].op = "markDeleted",
               Stored(i)', item'[i].list = req'[t].list
        PROVE  (i \in swept[t] \cup beside[t] \cup raced)'
    <3>1. CASE t = s
      BY <1>1, <1>2, <1>5, <2>1, <3>1 DEF ItemsOf, Stored
    <3>2. CASE t # s
      BY <1>1, <1>5, <2>1, <3>2 DEF IInv, SweepsInv, SweptAll, Stored
    <3> QED
      BY <3>1, <3>2
  <2> QED
    BY <2>1 DEF SweptAll
<1>14. AddersBeside'
  <2>1. ASSUME NEW t \in Slots, NEW v \in Slots, Running(t)', req'[t].op = "markDeleted",
               Running(v)', req'[v].op = "addItem", req'[v].list = req'[t].list
        PROVE  req'[v].item \in beside'[t]
    <3>1. v # s /\ Running(v) /\ req'[v] = req[v]
      BY <1>2, <1>5, <2>1
    <3>2. CASE t = s
      BY <1>2, <1>5, <2>1, <3>1, <3>2 DEF Adding
    <3>3. CASE t # s
      BY <1>5, <2>1, <3>1, <3>3 DEF IInv, SweepsInv, AddersBeside
    <3> QED
      BY <3>2, <3>3
  <2> QED
    BY <2>1 DEF AddersBeside
<1> QED
  BY <1>6, <1>7, <1>8, <1>9, <1>11, <1>12, <1>13, <1>14, <1>15 DEF IInv, SweepsInv

\* Steps that leave every row, request and event as they are: the card's own
\* deletion or restoration, and stuttering.
LEMMA CardKeeps ==
  ASSUME IInv, card' \in BOOLEAN,
         UNCHANGED <<checklist, item, minted, saved, req, issued, swept, told, applied, beside, raced>>
  PROVE  IInv'
<1>1. TypeOK'
  BY DEF IInv, TypeOK
<1>2. RequestsAimed' /\ CreatorsDiffer'
  BY DEF IInv, RequestsAimed, CreatorsDiffer, Aimed, Live, Running
<1>4. SweepsInv' /\ ItemsListed'
  BY DEF IInv, SweepsInv, SweptStored, SweptApart, SweptAll, AddersBeside, Running, Stored, ItemsListed
<1>3. UnmintedAbsent' /\ AppliedWhenSaved' /\ LiveTitlesDistinct' /\ EventsTellChecklists' /\ OrphansOnlyByRace'
  BY DEF IInv, UnmintedAbsent, AppliedWhenSaved, LiveTitlesDistinct, EventsTellChecklists,
         OrphansOnlyByRace, LiveChecklists, Live, Stored
<1> QED
  BY <1>1, <1>2, <1>3, <1>4 DEF IInv

-----------------------------------------------------------------------------
\* What a write leaves to be shown of one operation: what it may do to the rows
\* that other requests read.
Undisturbed(s) ==
    /\ checklist' \in [Checklists -> ChecklistRow \cup {Absent}]
    /\ item' \in [Items -> ItemRow \cup {Absent}]
    /\ told' \in View
    /\ raced' \subseteq Items /\ raced \subseteq raced'
    /\ \A c \in Checklists : checklist[c] # Absent => checklist'[c] # Absent
    /\ \A c \in Checklists :
         checklist'[c] # Absent => checklist[c] # Absent \/ (req[s].op = "create" /\ c = req[s].list)
    /\ \A t \in Slots, c \in Checklists :
         Running(t) /\ req[t].op = "addItem" /\ req[t].list = c /\ Live(c)
           => Live(c)' \/ req[t].item \in raced'
    /\ \A t \in Slots : t # s => \A i \in swept[t] : item'[i] = item[i]
    /\ \A i \in Items : item'[i] # Absent =>
         \/ item[i] # Absent /\ item'[i].list = item[i].list
         \/ req[s].op = "addItem" /\ i = req[s].item /\ item'[i].list = req[s].list

LEMMA CommitKeeps ==
  ASSUME IInv, NEW s \in Slots, Commit(s), Undisturbed(s)
  PROVE  TypeOK' /\ RequestsAimed' /\ CreatorsDiffer' /\ SweepsInv' /\ ItemsListed'
         /\ UnmintedAbsent' /\ AppliedWhenSaved'
<1>1. /\ Running(s) /\ req[s].key \notin saved
      /\ saved' = saved \cup {req[s].key}
      /\ applied' = [applied EXCEPT ![req[s].key] = @ + 1]
      /\ Ended(s)
      /\ UNCHANGED <<card, minted, issued>>
  BY DEF Commit, KeyFree
<1>2. req[s].key \in Keys
  BY <1>1 DEF IInv, TypeOK, Running, Request
<1>3. \A t \in Slots : Running(t)' => t # s /\ Running(t) /\ req'[t] = req[t]
  BY <1>1, SlotsEnd
<1>4. TypeOK'
  <2>1. /\ req' \in [Slots -> Request \cup {NoRequest}]
        /\ swept' \in [Slots -> SUBSET Items] /\ beside' \in [Slots -> SUBSET Items]
    BY <1>1, SlotsEnd
  <2>2. applied' \in [Keys -> Nat]
    BY <1>1, <1>2 DEF IInv, TypeOK
  <2> QED
    BY <1>1, <1>2, <2>1, <2>2 DEF IInv, TypeOK, Undisturbed
<1>5. RequestsAimed'
  <2> SUFFICES ASSUME NEW t \in Slots, t # s, Running(t), req'[t] = req[t] PROVE Aimed(req[t])'
    BY <1>3 DEF RequestsAimed
  <2>1. Aimed(req[t]) /\ Aimed(req[s])
    BY <1>1 DEF IInv, RequestsAimed
  <2>2. req[t].op = "create" /\ req[s].op = "create" => req[t].list # req[s].list
    BY <1>1 DEF IInv, CreatorsDiffer
  <2>3. req[t].op = "create" => req[t].list \in minted' /\ checklist'[req[t].list] = Absent
    BY <1>1, <2>1, <2>2 DEF Aimed, Undisturbed
  <2>4. req[t].op = "addItem" => Live(req[t].list)' \/ req[t].item \in raced'
    BY <2>1 DEF Aimed, Undisturbed
  <2>5. req[t].op \in {"update", "delete", "markDeleted", "addItem"} => checklist'[req[t].list] # Absent
    BY <2>1 DEF Aimed, Undisturbed
  <2> QED
    BY <2>1, <2>3, <2>4, <2>5 DEF Aimed
<1>6. CreatorsDiffer'
  BY <1>3 DEF IInv, CreatorsDiffer
<1>7. UnmintedAbsent'
  BY <1>1 DEF IInv, UnmintedAbsent, RequestsAimed, Aimed, Undisturbed
<1>8. AppliedWhenSaved'
  BY <1>1, <1>2 DEF IInv, AppliedWhenSaved, TypeOK
<1>12. ItemsListed'
  <2> SUFFICES ASSUME NEW i \in Items, item'[i] # Absent PROVE checklist'[item'[i].list] # Absent
    BY DEF ItemsListed, Stored
  <2>1. CASE item[i] # Absent /\ item'[i].list = item[i].list
    <3>1. checklist[item[i].list] # Absent /\ item[i].list \in Checklists
      BY <2>1 DEF IInv, ItemsListed, Stored, TypeOK, ItemRow
    <3> QED
      BY <2>1, <3>1 DEF Undisturbed
  <2>2. CASE req[s].op = "addItem" /\ i = req[s].item /\ item'[i].list = req[s].list
    <3>1. req[s].list \in Checklists /\ checklist[req[s].list] # Absent
      BY <1>1, <2>2 DEF IInv, RequestsAimed, Aimed
    <3> QED
      BY <2>2, <3>1 DEF Undisturbed
  <2> QED
    BY <2>1, <2>2 DEF Undisturbed
<1>9. SweptStored' /\ SweptApart'
  <2>1. \A t \in Slots : \A i \in swept'[t] :
           t # s /\ i \in swept[t] /\ req'[t] = req[t] /\ item'[i] = item[i]
    BY <1>1, SlotsEnd DEF Undisturbed
  <2> QED
    BY <2>1 DEF IInv, SweepsInv, SweptStored, SweptApart, Running, Stored
<1>10. SweptAll'
  <2> SUFFICES ASSUME NEW t \in Slots, NEW i \in Items, Running(t)', req'[t].op = "markDeleted",
                      item'[i] # Absent, item'[i].list = req'[t].list
               PROVE  i \in swept'[t] \cup beside'[t] \cup raced'
    BY DEF SweptAll, Stored
  <2>1. /\ t # s /\ Running(t) /\ req'[t] = req[t]
        /\ swept'[t] = swept[t] /\ beside'[t] = beside[t] /\ raced \subseteq raced'
    BY <1>1, <1>3, SlotsEnd DEF Undisturbed
  <2>2. CASE item[i] # Absent /\ item'[i].list = item[i].list
    BY <2>1, <2>2 DEF IInv, SweepsInv, SweptAll, Stored
  <2>3. CASE req[s].op = "addItem" /\ i = req[s].item /\ item'[i].list = req[s].list
    BY <1>1, <2>1, <2>3 DEF IInv, SweepsInv, AddersBeside
  <2> QED
    BY <2>2, <2>3 DEF Undisturbed
<1>11. AddersBeside'
  <2>1. \A t \in Slots : Running(t)' => beside'[t] = beside[t]
    BY <1>1, <1>3, SlotsEnd
  <2> QED
    BY <1>3, <2>1 DEF IInv, SweepsInv, AddersBeside
<1> QED
  BY <1>4, <1>5, <1>6, <1>7, <1>8, <1>9, <1>10, <1>11, <1>12 DEF SweepsInv

\* A committed request is well formed and aims at rows that are there.
LEMMA RequestCommitted ==
  ASSUME IInv, NEW s \in Slots, Commit(s)
  PROVE  /\ req[s] \in Request /\ Aimed(req[s])
         /\ Write(s) /\ told' = Tell(req[s])
<1>1. Running(s) /\ Write(s) /\ told' = Tell(req[s])
  BY DEF Commit
<1>2. Aimed(req[s])
  BY <1>1 DEF IInv, RequestsAimed
<1>3. req[s] \in Request
  BY <1>1 DEF IInv, TypeOK, Running
<1> QED
  BY <1>1, <1>2, <1>3

\* What the events tell of one checklist or one item is the row it has, but for
\* an item that was left behind.
LEMMA ToldNow ==
  ASSUME IInv
  PROVE  /\ told = [title |-> told.title, item |-> told.item]
         /\ item \in [Items -> ItemRow \cup {Absent}] /\ told.item \in [Items -> ItemRow \cup {Absent}]
         /\ told.title \in [Checklists -> Titles \cup {Absent}]
         /\ \A c \in Checklists : told.title[c] = IF Live(c) THEN checklist[c].title ELSE Absent
         /\ \A i \in Items : \/ told.item[i] = item[i]
                             \/ told.item[i] = Absent /\ ~Live(item[i].list)
<1>1. told \in View /\ item \in [Items -> ItemRow \cup {Absent}]
  BY DEF IInv, TypeOK
<1>2. told.title = [c \in Checklists |-> IF Live(c) THEN checklist[c].title ELSE Absent]
  BY DEF IInv, EventsTellChecklists
<1>3. \A i \in Items : \/ told.item[i] = item[i]
                       \/ told.item[i] = Absent /\ ~Live(item[i].list)
  BY DEF IInv, EventsTellChecklists
<1> QED
  BY <1>1, <1>2, <1>3 DEF View

\* The items are told as before where the step leaves them alone: no deleted
\* checklist comes back.
LEMMA ItemsToldStill ==
  ASSUME IInv, item' = item, told'.item = told.item,
         \A c \in Checklists : checklist[c] # Absent /\ ~Live(c) => ~Live(c)'
  PROVE  \A i \in Items : \/ told'.item[i] = item'[i]
                          \/ told'.item[i] = Absent /\ ~(Live(item[i].list)')
<1> SUFFICES ASSUME NEW i \in Items, told.item[i] # item[i]
             PROVE  told.item[i] = Absent /\ ~(Live(item[i].list)')
  OBVIOUS
<1>1. told.item[i] = Absent /\ ~Live(item[i].list)
  BY ToldNow
<1>2. item[i].list \in Checklists /\ checklist[item[i].list] # Absent
  BY <1>1, ToldNow DEF IInv, ItemsListed, Stored, ItemRow
<1> QED
  BY <1>1, <1>2

-----------------------------------------------------------------------------
LEMMA CreateKeeps ==
  ASSUME IInv, NEW s \in Slots, Commit(s), CreateChecklist(req[s]) PROVE IInv'
<1> DEFINE r == req[s]
           row == [title |-> r.title, by |-> r.by, deleted |-> FALSE]
<1>1. /\ r \in Request /\ r.op = "create" /\ r.list \in Checklists /\ r.title \in Titles /\ r.by \in Users
      /\ checklist[r.list] = Absent /\ told' = Tell(r)
  BY RequestCommitted DEF CreateChecklist, Aimed, Request
<1>2. /\ checklist' = [checklist EXCEPT ![r.list] = row] /\ TitleFree(r.list, r.title)
      /\ UNCHANGED <<item, raced>>
  BY DEF CreateChecklist
<1>3. row \in ChecklistRow /\ row # Absent /\ row.title = r.title /\ ~row.deleted
  BY <1>1, RowsPresent DEF ChecklistRow
<1> HIDE DEF r, row
<1>4. checklist \in [Checklists -> ChecklistRow \cup {Absent}]
  BY DEF IInv, TypeOK
<1>5. \A c \in Checklists : checklist'[c] = IF c = r.list THEN row ELSE checklist[c]
  BY <1>1, <1>2, <1>4
<1>6. \A c \in Checklists : Live(c)' <=> c = r.list \/ Live(c)
  BY <1>3, <1>5 DEF Live
<1>7. told' = [title |-> [told.title EXCEPT ![r.list] = r.title], item |-> told.item]
  <2>1. told' = [told EXCEPT !.title[r.list] = r.title]
    BY <1>1 DEF Tell
  <2>2. told = [title |-> told.title, item |-> told.item]
    BY ToldNow
  <2> QED
    BY <2>1, <2>2
<1>8. Undisturbed(s)
  <2>1. told' \in View
    BY <1>1, <1>7, ToldNow DEF View
  <2>2. checklist' \in [Checklists -> ChecklistRow \cup {Absent}]
    BY <1>1, <1>2, <1>3, <1>4
  <2>3. \A t \in Slots : Running(t) /\ req[t].op = "addItem" => req[t].list \in Checklists
    BY DEF IInv, RequestsAimed, Aimed
  <2>4. /\ \A c \in Checklists : checklist[c] # Absent => checklist'[c] # Absent
        /\ \A c \in Checklists : checklist'[c] # Absent => checklist[c] # Absent \/ c = r.list
    BY <1>1, <1>5, <1>3
  <2> QED
    BY <1>1, <1>2, <1>6, <2>1, <2>2, <2>3, <2>4 DEF Undisturbed, IInv, TypeOK, r
<1>9. LiveTitlesDistinct'
  <2> SUFFICES ASSUME NEW c \in Checklists, NEW d \in Checklists, Live(c)', Live(d)', c # d
               PROVE  checklist'[c].title # checklist'[d].title
    BY DEF LiveTitlesDistinct, LiveChecklists
  <2>1. \A e \in Checklists : Live(e) /\ e # r.list => checklist[e].title # r.title
    BY <1>2 DEF TitleFree, TitlesOf, LiveChecklists
  <2>2. \A e \in Checklists : Live(e) => e # r.list
    BY <1>1 DEF Live
  <2>3. Live(c) /\ Live(d) => checklist[c].title # checklist[d].title
    BY DEF IInv, LiveTitlesDistinct, LiveChecklists
  <2> QED
    BY <1>3, <1>5, <1>6, <2>1, <2>2, <2>3
<1>10. EventsTellChecklists'
  <2>1. \A c \in Checklists : told'.title[c] = IF Live(c)' THEN checklist'[c].title ELSE Absent
    BY <1>1, <1>3, <1>5, <1>6, <1>7, ToldNow
  <2>2. told'.title \in [Checklists -> Titles \cup {Absent}]
    BY <1>8 DEF Undisturbed, View
  <2>3. told'.title = [c \in Checklists |-> IF Live(c)' THEN checklist'[c].title ELSE Absent]
    BY <2>1, <2>2
  <2>4. \A i \in Items : \/ told'.item[i] = item'[i]
                         \/ told'.item[i] = Absent /\ ~(Live(item[i].list)')
    <3>1. \A c \in Checklists : checklist[c] # Absent /\ ~Live(c) => ~Live(c)'
      BY <1>1, <1>6
    <3>2. item' = item /\ told'.item = told.item
      BY <1>2, <1>7
    <3> QED
      BY <3>1, <3>2, ItemsToldStill
  <2> QED
    BY <1>2, <2>3, <2>4 DEF EventsTellChecklists, Live
<1>11. OrphansOnlyByRace'
  <2>1. \A i \in Items : item[i] # Absent => item[i].list \in Checklists
    BY DEF IInv, TypeOK, ItemRow
  <2> QED
    BY <1>2, <1>6, <2>1 DEF IInv, OrphansOnlyByRace, Stored
<1> QED
  BY <1>8, <1>9, <1>10, <1>11, CommitKeeps DEF IInv

LEMMA UpdateKeeps ==
  ASSUME IInv, NEW s \in Slots, Commit(s), UpdateChecklist(req[s]) PROVE IInv'
<1> DEFINE r == req[s]
           row == [title |-> r.title, by |-> checklist[r.list].by, deleted |-> checklist[r.list].deleted]
<1>1. /\ r \in Request /\ r.op = "update" /\ r.list \in Checklists /\ r.title \in Titles
      /\ checklist[r.list] # Absent /\ told' = Tell(r)
  BY RequestCommitted DEF UpdateChecklist, Aimed
<1>2. UNCHANGED <<item, raced>>
  BY DEF UpdateChecklist
<1>4. checklist \in [Checklists -> ChecklistRow \cup {Absent}]
  BY DEF IInv, TypeOK
<1>5. told' = [title |-> [told.title EXCEPT ![r.list] = IF @ = Absent THEN Absent ELSE r.title],
               item |-> told.item]
  <2>1. told' = [told EXCEPT !.title[r.list] = IF @ = Absent THEN Absent ELSE r.title]
    BY <1>1 DEF Tell
  <2>2. told = [title |-> told.title, item |-> told.item]
    BY ToldNow
  <2> QED
    BY <2>1, <2>2
<1>6. \A i \in Items : item[i] # Absent => item[i].list \in Checklists
  BY DEF IInv, TypeOK, ItemRow
<1>7. \A t \in Slots : Running(t) /\ req[t].op = "addItem" => req[t].list \in Checklists
  BY DEF IInv, RequestsAimed, Aimed
<1>8. CASE Live(r.list)
  <2>1. /\ checklist' = [checklist EXCEPT ![r.list].title = r.title]
        /\ TitleFree(r.list, r.title)
    BY <1>8 DEF UpdateChecklist
  <2>2. /\ row \in ChecklistRow /\ row # Absent /\ row.title = r.title /\ ~row.deleted
        /\ checklist' = [checklist EXCEPT ![r.list] = row]
    <3>1. checklist[r.list] \in ChecklistRow /\ ~checklist[r.list].deleted
      BY <1>1, <1>4, <1>8 DEF Live
    <3>2. row \in ChecklistRow
      BY <1>1, <3>1 DEF ChecklistRow
    <3>3. [checklist[r.list] EXCEPT !.title = r.title] = row
      <4>1. checklist[r.list] = [title |-> checklist[r.list].title, by |-> checklist[r.list].by,
                                 deleted |-> checklist[r.list].deleted]
        BY <3>1 DEF ChecklistRow
      <4> QED
        BY <4>1
    <3>4. row # Absent
      BY <1>1, <3>1, RowsPresent DEF ChecklistRow
    <3>5. checklist' = [checklist EXCEPT ![r.list] = [checklist[r.list] EXCEPT !.title = r.title]]
      BY <2>1
    <3> QED
      BY <3>1, <3>2, <3>3, <3>4, <3>5
  <2> HIDE DEF r, row
  <2>3. \A c \in Checklists : checklist'[c] = IF c = r.list THEN row ELSE checklist[c]
    BY <1>1, <1>4, <2>2
  <2>4. \A c \in Checklists : Live(c)' <=> Live(c)
    BY <1>8, <2>2, <2>3 DEF Live
  <2>5. told'.title = [told.title EXCEPT ![r.list] = r.title] /\ told'.item = told.item
    <3>1. told.title[r.list] # Absent
      <4>1. told.title[r.list] = checklist[r.list].title
        BY <1>1, <1>8, ToldNow
      <4>2. checklist[r.list] \in ChecklistRow
        BY <1>1, <1>4
      <4> QED
        BY <4>1, <4>2, RowsPresent DEF ChecklistRow
    <3> QED
      BY <1>5, <3>1
  <2>6. told' \in View
    BY <1>1, <1>5, <2>5, ToldNow DEF View
  <2>7. Undisturbed(s)
    <3>1. checklist' \in [Checklists -> ChecklistRow \cup {Absent}]
      BY <1>1, <1>4, <2>2
    <3>2. \A c \in Checklists : checklist[c] # Absent <=> checklist'[c] # Absent
      BY <1>1, <2>2, <2>3
    <3> QED
      BY <1>2, <1>7, <2>4, <2>6, <3>1, <3>2 DEF Undisturbed, IInv, TypeOK
  <2>8. LiveTitlesDistinct'
    <3> SUFFICES ASSUME NEW c \in Checklists, NEW d \in Checklists, Live(c), Live(d), c # d
                 PROVE  checklist'[c].title # checklist'[d].title
      BY <2>4 DEF LiveTitlesDistinct, LiveChecklists
    <3>1. \A e \in Checklists : Live(e) /\ e # r.list => checklist[e].title # r.title
      BY <2>1 DEF TitleFree, TitlesOf, LiveChecklists
    <3>2. checklist[c].title # checklist[d].title
      BY DEF IInv, LiveTitlesDistinct, LiveChecklists
    <3> QED
      BY <2>2, <2>3, <3>1, <3>2
  <2>9. EventsTellChecklists'
    <3>1. \A c \in Checklists : told'.title[c] = IF Live(c)' THEN checklist'[c].title ELSE Absent
      BY <1>1, <1>8, <2>2, <2>3, <2>4, <2>5, ToldNow
    <3>2. told'.title \in [Checklists -> Titles \cup {Absent}]
      BY <2>6 DEF View
    <3>3. told'.title = [c \in Checklists |-> IF Live(c)' THEN checklist'[c].title ELSE Absent]
      BY <3>1, <3>2
    <3>4. \A i \in Items : \/ told'.item[i] = item'[i]
                           \/ told'.item[i] = Absent /\ ~(Live(item[i].list)')
      BY <1>2, <2>4, <2>5, ItemsToldStill
    <3> QED
      BY <1>2, <3>3, <3>4 DEF EventsTellChecklists, Live
  <2>10. OrphansOnlyByRace'
    BY <1>2, <1>6, <2>4 DEF IInv, OrphansOnlyByRace, Stored
  <2> QED
    BY <2>7, <2>8, <2>9, <2>10, CommitKeeps DEF IInv
<1>9. CASE ~Live(r.list)
  <2>1. checklist' = checklist
    BY <1>9 DEF UpdateChecklist
  <2>2. told' = told
    <3>1. told.title[r.list] = Absent
      BY <1>1, <1>9, ToldNow
    <3>2. [told.title EXCEPT ![r.list] = IF @ = Absent THEN Absent ELSE r.title] = told.title
      BY <3>1, ToldNow
    <3> QED
      BY <1>5, <3>2, ToldNow
  <2>3. Undisturbed(s)
    BY <1>2, <2>1, <2>2 DEF Undisturbed, IInv, TypeOK, Live
  <2>4. LiveTitlesDistinct' /\ EventsTellChecklists' /\ OrphansOnlyByRace'
    BY <1>2, <2>1, <2>2 DEF IInv, LiveTitlesDistinct, EventsTellChecklists, OrphansOnlyByRace,
                            LiveChecklists, Live, Stored
  <2> QED
    BY <2>3, <2>4, CommitKeeps DEF IInv
<1> QED
  BY <1>8, <1>9

\* A marked row is no longer live and what was swept is no longer stored; every
\* other checklist and item is as it was.
LEMMA DeleteKeeps ==
  ASSUME IInv, NEW s \in Slots, Commit(s), DeleteChecklist(s) PROVE IInv'
<1> DEFINE r == req[s]
           row == [checklist[r.list] EXCEPT !.deleted = TRUE]
<1>1. /\ Running(s) /\ r \in Request /\ r.op = "markDeleted" /\ r.list \in Checklists
      /\ checklist[r.list] # Absent /\ told' = Tell(r)
  BY RequestCommitted DEF DeleteChecklist, Aimed, Commit
<1>2. item' = [i \in Items |-> IF i \in swept[s] THEN Absent ELSE item[i]] /\ raced' = raced \cup beside[s]
  BY DEF DeleteChecklist
<1>3. checklist \in [Checklists -> ChecklistRow \cup {Absent}] /\ raced \subseteq Items /\ beside[s] \subseteq Items
  BY DEF IInv, TypeOK
<1>4. row \in ChecklistRow /\ row # Absent /\ row.deleted /\ checklist' = [checklist EXCEPT ![r.list] = row]
  <2>1. checklist[r.list] \in ChecklistRow
    BY <1>1, <1>3
  <2>2. row \in ChecklistRow /\ row.deleted
    BY <2>1 DEF ChecklistRow
  <2>3. row # Absent
    BY <2>2
  <2>4. checklist' = [checklist EXCEPT ![r.list] = [checklist[r.list] EXCEPT !.deleted = TRUE]]
    BY DEF DeleteChecklist
  <2> QED
    BY <2>2, <2>3, <2>4
<1>5. \A t \in Slots : Running(t) /\ req[t].op = "addItem" /\ req[t].list = r.list => req[t].item \in beside[s]
  BY <1>1 DEF IInv, SweepsInv, AddersBeside
<1>6. \A i \in swept[s] : i \in Items /\ item[i] # Absent /\ item[i].list = r.list
  BY DEF IInv, SweepsInv, SweptStored, Stored, TypeOK
<1>16. \A i \in Items : item[i] # Absent /\ item[i].list = r.list => i \in swept[s] \cup beside[s] \cup raced
  BY <1>1 DEF IInv, SweepsInv, SweptAll, Stored
<1>17. \A t \in Slots : t # s => \A i \in swept[t] : i \in Items /\ i \notin swept[s]
  BY DEF IInv, SweepsInv, SweptApart, TypeOK
<1> HIDE DEF r, row
<1>7. \A c \in Checklists : checklist'[c] = IF c = r.list THEN row ELSE checklist[c]
  BY <1>1, <1>3, <1>4
<1>8. \A c \in Checklists : Live(c)' <=> Live(c) /\ c # r.list
  BY <1>4, <1>7 DEF Live
<1>9. \A i \in Items : item'[i] = IF i \in swept[s] THEN Absent ELSE item[i]
  BY <1>2
<1>10. item' \in [Items -> ItemRow \cup {Absent}]
  BY <1>2, ToldNow
<1>11. told' = [title |-> [told.title EXCEPT ![r.list] = Absent], item |-> WithoutItemsOf(told.item, r.list)]
  BY <1>1 DEF Tell
<1>12. Undisturbed(s)
  <2>1. checklist' \in [Checklists -> ChecklistRow \cup {Absent}]
    BY <1>1, <1>3, <1>4
  <2>2. told' \in View
    <3>1. WithoutItemsOf(told.item, r.list) \in [Items -> ItemRow \cup {Absent}]
      BY ToldNow DEF WithoutItemsOf
    <3>2. [told.title EXCEPT ![r.list] = Absent] \in [Checklists -> Titles \cup {Absent}]
      BY ToldNow
    <3> QED
      BY <1>11, <3>1, <3>2 DEF View
  <2>3. \A c \in Checklists : checklist[c] # Absent <=> checklist'[c] # Absent
    BY <1>1, <1>4, <1>7
  <2>4. raced' \subseteq Items /\ raced \subseteq raced'
    BY <1>2, <1>3
  <2>5. \A t \in Slots, c \in Checklists :
          Running(t) /\ req[t].op = "addItem" /\ req[t].list = c /\ Live(c)
            => Live(c)' \/ req[t].item \in raced'
    BY <1>2, <1>5, <1>8
  <2>6. \A t \in Slots : t # s => \A i \in swept[t] : item'[i] = item[i]
    BY <1>9, <1>17
  <2>7. \A i \in Items : item'[i] # Absent => item[i] # Absent /\ item'[i].list = item[i].list
    BY <1>9
  <2> QED
    BY <1>10, <2>1, <2>2, <2>3, <2>4, <2>5, <2>6, <2>7 DEF Undisturbed
<1>13. LiveTitlesDistinct'
  <2> SUFFICES ASSUME NEW c \in Checklists, NEW d \in Checklists, Live(c)', Live(d)', c # d
               PROVE  checklist'[c].title # checklist'[d].title
    BY DEF LiveTitlesDistinct, LiveChecklists
  <2>1. Live(c) /\ Live(d) /\ c # r.list /\ d # r.list
    BY <1>8
  <2>2. checklist[c].title # checklist[d].title
    BY <2>1 DEF IInv, LiveTitlesDistinct, LiveChecklists
  <2> QED
    BY <1>7, <2>1, <2>2
<1>14. EventsTellChecklists'
  <2>1. \A c \in Checklists : told'.title[c] = IF Live(c)' THEN checklist'[c].title ELSE Absent
    BY <1>1, <1>7, <1>8, <1>11, ToldNow
  <2>2. told'.title \in [Checklists -> Titles \cup {Absent}]
    BY <1>12 DEF Undisturbed, View
  <2>3. told'.title = [c \in Checklists |-> IF Live(c)' THEN checklist'[c].title ELSE Absent]
    BY <2>1, <2>2
  <2>4. ASSUME NEW i \in Items
        PROVE  \/ told'.item[i] = item'[i]
               \/ told'.item[i] = Absent /\ ~Live(item[i].list)' /\ item'[i] = item[i]
    <3>1. told'.item[i] = IF told.item[i] # Absent /\ told.item[i].list = r.list
                          THEN Absent ELSE told.item[i]
      BY <1>11 DEF WithoutItemsOf
    <3>2. told.item[i] = item[i] \/ (told.item[i] = Absent /\ ~Live(item[i].list))
      BY ToldNow
    <3>3. CASE i \in swept[s]
      BY <1>6, <1>9, <3>1, <3>2, <3>3
    <3>4. CASE i \notin swept[s] /\ told.item[i] = item[i]
      BY <1>1, <1>8, <1>9, <3>1, <3>4
    <3>5. CASE i \notin swept[s] /\ told.item[i] # item[i]
      <4>1. item[i].list \in Checklists
        BY <3>2, <3>5, ToldNow DEF ItemRow
      <4> QED
        BY <1>8, <1>9, <3>1, <3>2, <3>5, <4>1
    <3> QED
      BY <3>3, <3>4, <3>5
  <2>5. \A i \in Items : \/ told'.item[i] = item'[i]
                         \/ told'.item[i] = Absent /\ ~(Live(item[i].list)') /\ item'[i] = item[i]
    BY <2>4
  <2> QED
    BY <2>3, <2>5 DEF EventsTellChecklists, Live
<1>15. OrphansOnlyByRace'
  <2> SUFFICES ASSUME NEW i \in Items, item'[i] # Absent PROVE (Live(item[i].list) \/ i \in raced)'
    BY DEF OrphansOnlyByRace, Stored
  <2>1. item'[i] = item[i] /\ item[i] # Absent /\ i \notin swept[s]
    BY <1>9
  <2>2. item[i].list \in Checklists
    BY <2>1, ToldNow DEF ItemRow
  <2>3. Live(item[i].list) \/ i \in raced
    BY <2>1 DEF IInv, OrphansOnlyByRace, Stored
  <2>4. item[i].list = r.list => i \in raced'
    BY <1>2, <1>16, <2>1
  <2> QED
    BY <1>2, <1>8, <2>1, <2>2, <2>3, <2>4
<1> QED
  BY <1>12, <1>13, <1>14, <1>15, CommitKeeps DEF IInv

\* A write of one item that no deletion holds: no checklist changes, and the event
\* tells the new row or, as before, that of an item left behind.
LEMMA ItemWritten ==
  ASSUME IInv, NEW s \in Slots, Commit(s), UNCHANGED <<checklist, raced>>,
         NEW i \in Items, NEW row \in ItemRow \cup {Absent}, NEW toldRow \in ItemRow \cup {Absent},
         item' = [item EXCEPT ![i] = row],
         told' = [title |-> told.title, item |-> [told.item EXCEPT ![i] = toldRow]],
         toldRow = row \/ (toldRow = Absent /\ ~Live(row.list)),
         row # Absent => Live(row.list) \/ i \in raced,
         row # Absent => \/ item[i] # Absent /\ row.list = item[i].list
                         \/ req[s].op = "addItem" /\ i = req[s].item /\ row.list = req[s].list,
         \A t \in Slots : i \notin swept[t]
  PROVE  IInv'
<1>1. \A j \in Items : item'[j] = IF j = i THEN row ELSE item[j]
  BY ToldNow
<1>2. \A c : Live(c)' <=> Live(c)
  BY DEF Live
<1>3. Undisturbed(s)
  <2>1. item' \in [Items -> ItemRow \cup {Absent}] /\ told' \in View
    BY ToldNow DEF View
  <2>2. \A t \in Slots : t # s => \A j \in swept[t] : item'[j] = item[j]
    BY <1>1 DEF IInv, TypeOK
  <2>3. \A j \in Items : item'[j] # Absent =>
          \/ item[j] # Absent /\ item'[j].list = item[j].list
          \/ req[s].op = "addItem" /\ j = req[s].item /\ item'[j].list = req[s].list
    BY <1>1
  <2> QED
    BY <1>2, <2>1, <2>2, <2>3 DEF Undisturbed, IInv, TypeOK
<1>4. LiveTitlesDistinct' /\ EventsTellChecklists'
  <2>1. LiveTitlesDistinct'
    BY DEF IInv, LiveTitlesDistinct, LiveChecklists, Live
  <2>2. EventsTellChecklists'
    <3>1. told'.title = told.title
      BY ToldNow
    <3>2. told.title = [c \in Checklists |-> IF Live(c) THEN checklist[c].title ELSE Absent]
      BY DEF IInv, EventsTellChecklists
    <3>3. ASSUME NEW j \in Items
          PROVE  \/ told'.item[j] = item'[j]
                 \/ told'.item[j] = Absent /\ ~Live(item'[j].list)
      <4>1. told'.item[j] = IF j = i THEN toldRow ELSE told.item[j]
        BY ToldNow
      <4>2. CASE j = i
        BY <1>1, <4>1, <4>2
      <4>3. CASE j # i
        BY <1>1, <4>1, <4>3, ToldNow
      <4> QED
        BY <4>2, <4>3
    <3> QED
      BY <3>1, <3>2, <3>3 DEF EventsTellChecklists, Live
  <2> QED
    BY <2>1, <2>2
<1>5. OrphansOnlyByRace'
  <2> SUFFICES ASSUME NEW j \in Items, item'[j] # Absent PROVE (Live(item[j].list) \/ j \in raced)'
    BY DEF OrphansOnlyByRace, Stored
  <2>1. CASE j = i
    <3>1. Live(row.list) \/ i \in raced
      BY <1>1, <2>1
    <3> QED
      BY <1>1, <2>1, <3>1 DEF Live
  <2>2. CASE j # i
    <3>1. Live(item[j].list) \/ j \in raced
      BY <1>1, <2>2 DEF IInv, OrphansOnlyByRace, Stored
    <3> QED
      BY <1>1, <2>2, <3>1 DEF Live
  <2> QED
    BY <2>1, <2>2
<1> QED
  BY <1>3, <1>4, <1>5, CommitKeeps DEF IInv

LEMMA AddItemKeeps ==
  ASSUME IInv, NEW s \in Slots, Commit(s), AddItem(req[s]) PROVE IInv'
<1> DEFINE r == req[s]
           row == NewItem(r)
<1>1. /\ r \in Request /\ r.op = "addItem" /\ r.list \in Checklists /\ r.item \in Items /\ r.text \in Texts
      /\ Live(r.list) \/ r.item \in raced
      /\ told' = Tell(r) /\ item' = [item EXCEPT ![r.item] = row] /\ UNCHANGED <<checklist, raced>>
      /\ item[r.item] = Absent
  BY RequestCommitted DEF AddItem, Aimed
<1>2. row \in ItemRow /\ row.list = r.list
  BY <1>1 DEF NewItem, ItemRow, Done
<1>3. told' = [title |-> told.title, item |-> [told.item EXCEPT ![r.item] = row]]
  <2>1. told' = [told EXCEPT !.item[r.item] = row]
    BY <1>1 DEF Tell
  <2>2. told = [title |-> told.title, item |-> told.item]
    BY ToldNow
  <2> HIDE DEF row, r
  <2> QED
    BY <2>1, <2>2
<1>4. \A t \in Slots : r.item \notin swept[t]
  BY <1>1 DEF IInv, SweepsInv, SweptStored, Stored
<1>5. \/ item[r.item] # Absent /\ row.list = item[r.item].list
      \/ req[s].op = "addItem" /\ r.item = req[s].item /\ row.list = req[s].list
  BY <1>1, <1>2
<1> HIDE DEF row, r
<1> QED
  BY <1>1, <1>2, <1>3, <1>4, <1>5, ItemWritten

LEMMA UpdateItemKeeps ==
  ASSUME IInv, NEW s \in Slots, Commit(s), UpdateItem(req[s]) PROVE IInv'
<1> DEFINE r == req[s]
           Patch(old) == IF old = Absent THEN Absent ELSE PatchedItem(old, r)
           row == Patch(item[r.item])
           toldRow == Patch(told.item[r.item])
<1>1. /\ r \in Request /\ r.op = "updateItem" /\ r.item \in Items /\ Unlocked(r.item)
      /\ told' = Tell(r) /\ item' = [item EXCEPT ![r.item] = row] /\ UNCHANGED <<checklist, raced>>
  BY RequestCommitted DEF UpdateItem, Aimed
<1>2. ASSUME NEW old \in ItemRow \cup {Absent}
      PROVE  Patch(old) \in ItemRow \cup {Absent} /\ (old = Absent => Patch(old) = Absent)
             /\ (Patch(old) # Absent => old # Absent /\ Patch(old).list = old.list)
  <2>1. CASE old # Absent
    <3>1. old \in ItemRow
      BY <2>1
    <3>2. Patch(old) = PatchedItem(old, r)
      BY <2>1
    <3>3. With(old.text, r.text) \in Texts /\ With(old.done, r.done) \in Done
      BY <1>1, <3>1 DEF With, ItemRow, Request
    <3> HIDE DEF Patch, r
    <3>4. PatchedItem(old, r) \in ItemRow /\ PatchedItem(old, r).list = old.list
      BY <3>1, <3>3 DEF PatchedItem, ItemRow
    <3> QED
      BY <2>1, <3>2, <3>4
  <2>2. CASE old = Absent
    BY <2>2
  <2> QED
    BY <2>1, <2>2
<1>3. told' = [title |-> told.title, item |-> [told.item EXCEPT ![r.item] = toldRow]]
  <2>1. told' = [told EXCEPT !.item[r.item] = IF @ = Absent THEN Absent ELSE PatchedItem(@, r)]
    BY <1>1 DEF Tell
  <2>2. told = [title |-> told.title, item |-> told.item]
    BY ToldNow
  <2> QED
    BY <2>1, <2>2
<1> HIDE DEF Patch, r
<1>4. /\ row \in ItemRow \cup {Absent} /\ toldRow \in ItemRow \cup {Absent}
      /\ row # Absent => item[r.item] # Absent /\ row.list = item[r.item].list
  BY <1>1, <1>2, ToldNow
<1>5. row # Absent => Live(row.list) \/ r.item \in raced
  BY <1>1, <1>4 DEF IInv, OrphansOnlyByRace, Stored
<1>6. toldRow = row \/ (toldRow = Absent /\ ~Live(row.list))
  <2>1. CASE told.item[r.item] = item[r.item]
    BY <2>1
  <2>2. CASE told.item[r.item] = Absent /\ ~Live(item[r.item].list)
    <3>1. toldRow = Absent
      BY <1>2, <2>2
    <3> QED
      BY <1>4, <2>2, <3>1
  <2> QED
    BY <1>1, <2>1, <2>2, ToldNow
<1>7. \A t \in Slots : r.item \notin swept[t]
  BY <1>1 DEF Unlocked
<1> HIDE DEF row, toldRow
<1> QED
  BY <1>1, <1>3, <1>4, <1>5, <1>6, <1>7, ItemWritten

LEMMA RemoveItemKeeps ==
  ASSUME IInv, NEW s \in Slots, Commit(s), RemoveItem(req[s]) PROVE IInv'
<1> DEFINE r == req[s]
<1>1. /\ r \in Request /\ r.op = "removeItem" /\ r.item \in Items /\ \A t \in Slots : r.item \notin swept[t]
      /\ told' = Tell(r) /\ item' = [item EXCEPT ![r.item] = Absent] /\ UNCHANGED <<checklist, raced>>
  BY RequestCommitted DEF RemoveItem, Aimed, Unlocked
<1>2. told' = [title |-> told.title, item |-> [told.item EXCEPT ![r.item] = Absent]]
  <2>1. told' = [told EXCEPT !.item[r.item] = Absent]
    BY <1>1 DEF Tell
  <2>2. told = [title |-> told.title, item |-> told.item]
    BY ToldNow
  <2> QED
    BY <2>1, <2>2
<1> HIDE DEF r
<1> QED
  BY <1>1, <1>2, ItemWritten

LEMMA NoOpKeeps ==
  ASSUME IInv, NEW s \in Slots, Commit(s), NoOp(req[s]) PROVE IInv'
<1>1. UNCHANGED <<checklist, item, raced>> /\ req[s].op = "noOp" /\ told' = Tell(req[s])
  BY RequestCommitted DEF NoOp
<1>2. told' = told
  BY <1>1 DEF Tell
<1>3. Undisturbed(s)
  BY <1>1, <1>2 DEF Undisturbed, IInv, TypeOK, Live
<1>4. LiveTitlesDistinct' /\ EventsTellChecklists' /\ OrphansOnlyByRace'
  BY <1>1, <1>2 DEF IInv, LiveTitlesDistinct, EventsTellChecklists, OrphansOnlyByRace,
                    LiveChecklists, Live, Stored
<1> QED
  BY <1>3, <1>4, CommitKeeps DEF IInv

LEMMA NextKeeps == IInv /\ [Next]_vars => IInv'
<1> SUFFICES ASSUME IInv, [Next]_vars PROVE IInv'
  OBVIOUS
<1>1. CASE UNCHANGED vars
  BY <1>1, CardKeeps DEF vars, IInv, TypeOK
<1>2. CASE CardChanges
  BY <1>2, CardKeeps DEF CardChanges
<1>3. ASSUME NEW s \in Slots, Admit(s) PROVE IInv'
  BY <1>3, AdmitKeeps
<1>6. ASSUME NEW s \in Slots, Sweep(s) PROVE IInv'
  BY <1>6, SweepKeeps
<1>4. ASSUME NEW s \in Slots, Commit(s) PROVE IInv'
  <2>1. Write(s)
    BY <1>4, RequestCommitted
  <2> QED
    BY <1>4, <2>1, CreateKeeps, UpdateKeeps, DeleteKeeps, AddItemKeeps, UpdateItemKeeps,
       RemoveItemKeeps, NoOpKeeps DEF Write
<1>5. ASSUME NEW s \in Slots, Abort(s) PROVE IInv'
  BY <1>5, AbortKeeps
<1> QED
  BY <1>1, <1>2, <1>3, <1>4, <1>5, <1>6 DEF Next

LEMMA Invariance == Spec => []IInv
BY InitInvariant, NextKeeps, PTL DEF Spec

-----------------------------------------------------------------------------
\* The rows, requests, events and counters keep their types (checklists.router.ts).
THEOREM TypeCorrect == Spec => []TypeOK
<1>1. IInv => TypeOK
  BY DEF IInv
<1> QED
  BY <1>1, Invariance, PTL

\* Two live checklists of a card never have one title, for any number of
\* requests in flight (idx_checklists_unique_title_per_card).
THEOREM TitlesDistinct == Spec => []LiveTitlesDistinct
<1>1. IInv => LiveTitlesDistinct
  BY DEF IInv
<1> QED
  BY <1>1, Invariance, PTL

\* However many copies of a request run, one of them is applied (withIdempotency).
THEOREM KeysAppliedOnce == Spec => []KeyAppliedOnce
<1>1. IInv => KeyAppliedOnce
  BY DEF IInv, AppliedWhenSaved, KeyAppliedOnce
<1> QED
  BY <1>1, Invariance, PTL

\* A reader that applies the events in commit order has the live checklists, their
\* items and no item that is not stored; what it may lack is an item left behind by
\* the deletion of its checklist (toOutboxEvent, deleteChecklist).
THEOREM EventsTell == Spec => []EventsTellChecklists
<1>1. IInv => EventsTellChecklists
  BY DEF IInv
<1> QED
  BY <1>1, Invariance, PTL

\* An item outlives its checklist only if it was being added between the deletion
\* of the checklist's items and its commit (hardDeleteItemsByChecklistId).
THEOREM OrphansByRace == Spec => []OrphansOnlyByRace
<1>1. IInv => OrphansOnlyByRace
  BY DEF IInv
<1> QED
  BY <1>1, Invariance, PTL

\* No request renames or restores a deleted checklist (notDeleted).
THEOREM FrozenChecklists == Spec => DeletedChecklistFrozen
<1>1. ASSUME IInv, [Next]_vars, NEW c \in Checklists, checklist[c] # Absent, checklist[c].deleted
      PROVE  checklist'[c] = checklist[c]
  <2>1. checklist \in [Checklists -> ChecklistRow \cup {Absent}] /\ checklist[c] \in ChecklistRow
    BY <1>1 DEF IInv, TypeOK
  <2>2. CASE UNCHANGED checklist
    BY <2>2
  <2>3. ASSUME NEW s \in Slots, Commit(s) PROVE checklist'[c] = checklist[c]
    <3>1. req[s] \in Request /\ Aimed(req[s]) /\ Write(s)
      BY <1>1, <2>3, RequestCommitted
    <3>2. CASE CreateChecklist(req[s])
      <4>1. req[s].list # c
        BY <1>1, <3>1, <3>2 DEF CreateChecklist, Aimed
      <4> QED
        BY <2>1, <3>2, <4>1 DEF CreateChecklist
    <3>3. CASE UpdateChecklist(req[s])
      <4>1. CASE req[s].list = c
        BY <1>1, <3>3, <4>1 DEF UpdateChecklist, Live
      <4>2. CASE req[s].list # c
        BY <2>1, <3>3, <4>2 DEF UpdateChecklist
      <4> QED
        BY <4>1, <4>2
    <3>4. CASE DeleteChecklist(s)
      <4>1. checklist' = [checklist EXCEPT ![req[s].list] = [checklist[req[s].list] EXCEPT !.deleted = TRUE]]
        BY <3>4 DEF DeleteChecklist
      <4>2. [checklist[c] EXCEPT !.deleted = TRUE] = checklist[c]
        BY <1>1, <2>1 DEF ChecklistRow
      <4> QED
        BY <2>1, <4>1, <4>2
    <3> QED
      BY <3>1, <3>2, <3>3, <3>4 DEF Write, AddItem, UpdateItem, RemoveItem, NoOp
  <2> QED
    BY <1>1, <2>2, <2>3 DEF Next, vars, CardChanges, Admit, Sweep, Abort
<1>2. IInv /\ [Next]_vars =>
        [\A c \in Checklists :
            checklist[c] # Absent /\ checklist[c].deleted => checklist'[c] = checklist[c]]_vars
  BY <1>1
<1> QED
  BY <1>2, Invariance, PTL DEF Spec, DeletedChecklistFrozen

-----------------------------------------------------------------------------
(* The details of a card.                                                   *)

\* What an admitted request says of the rows it writes.
Apt(r) ==
    /\ r.op \in {"createLabel", "updateLabel"} => r.id \in Labels /\ r.to \in Names
    /\ r.op = "updateLabel" => label[r.id] # Absent
    /\ r.op \in {"applyLabel", "removeLabel"} => r.id \in Labels
    /\ r.op \in {"createComment", "updateComment"} => r.id \in Comments /\ r.to \in Bodies
    /\ r.op = "deleteComment" => r.id \in Comments
    /\ r.op \in {"addAssignee", "removeAssignee"} => r.id \in Users
    /\ r.op \in {"attach", "detach"} => r.id \in Attachments
    /\ r.op = "setField" => r.id \in D!Fields /\ r.to \in Values \cup {Absent}

RequestsApt == \A s \in Slots : D!Running(s) => Apt(detailReq[s])

RowsTyped ==
    /\ label \in [Labels -> D!Label \cup {Absent}]
    /\ labelled \subseteq Labels
    /\ comment \in [Comments -> D!Comment \cup {Absent}]
    /\ assignee \subseteq Users
    /\ attachment \in [Attachments -> D!Attachment \cup {Absent}]
    /\ field \in [D!Fields -> Values \cup {Absent}]
    /\ watching \subseteq Users

\* The caps, and that what they count is finite.
CapsInv == /\ IsFiniteSet(assignee) /\ IsFiniteSet(D!Attached)
           /\ D!CapsPassedOnlyByRace

\* What has found nothing to do is the link of a label or of an assignee.
MissesApt ==
    \A s \in missing : D!Running(s) /\ detailReq[s].op \in {"applyLabel", "removeLabel", "removeAssignee"}

DetailsInv == D!TypeOK /\ RequestsApt /\ MissesApt /\ D!EventsTellCard /\ CapsInv

\* The details count with their own copy of the finite sets' operators.
LEMMA CountsAgree == \A S : /\ D!Cardinality(S) = Cardinality(S)
                            /\ D!IsFiniteSet(S) <=> IsFiniteSet(S)
  BY DEF D!Cardinality, Cardinality, D!IsFiniteSet, IsFiniteSet

\* No row, and nothing that a reader is shown, is the mark of an absent one.
LEMMA DetailsPresent ==
  /\ \A u \in Users, n \in Names : [by |-> u, name |-> n] \in D!Label /\ [by |-> u, name |-> n] # Absent
  /\ \A u \in Users, b \in Bodies, n \in Nat, d \in BOOLEAN :
        /\ [by |-> u, body |-> b, revision |-> n, deleted |-> d] \in D!Comment
        /\ [by |-> u, body |-> b, revision |-> n, deleted |-> d] # Absent
  /\ \A u \in Users, d \in BOOLEAN :
        [by |-> u, deleted |-> d] \in D!Attachment /\ [by |-> u, deleted |-> d] # Absent
  /\ Absent \notin Names /\ Absent \notin Bodies
<1>1. /\ Absent \notin D!Label /\ Absent \notin D!Comment /\ Absent \notin D!Attachment
      /\ Absent \notin Names /\ Absent \notin Bodies
  BY DetailsAssumption DEF D!DetailsAssumption
<1>2. /\ \A u \in Users, n \in Names : [by |-> u, name |-> n] \in D!Label
      /\ \A u \in Users, b \in Bodies, n \in Nat, d \in BOOLEAN :
            [by |-> u, body |-> b, revision |-> n, deleted |-> d] \in D!Comment
      /\ \A u \in Users, d \in BOOLEAN : [by |-> u, deleted |-> d] \in D!Attachment
  BY DEF D!Label, D!Comment, D!Attachment
<1> QED
  BY <1>1, <1>2

-----------------------------------------------------------------------------
\* What the sets of admissible requests hold; a request that adds to a capped
\* table found room there.
LEMMA DetailsAdmitted ==
  ASSUME D!TypeOK, NEW u \in Users, NEW k \in DetailKeys, NEW r \in D!Admissible(u)
  PROVE  /\ D!Sent(r, u, k) \in D!Request /\ Apt(r)
         /\ r.op \in {"createLabel", "createComment"} => r.id \in Labels \cup Comments
         /\ r.op = "addAssignee" => Cardinality(assignee) < MaxAssignees
         /\ r.op = "attach" => D!RoomForAttachment
<1> DEFINE Goal(q) ==
         /\ q = [op |-> q.op, id |-> q.id, to |-> q.to, revision |-> q.revision]
         /\ q.op \in D!Ops /\ q.id \in D!Ids /\ q.to \in D!Contents /\ q.revision \in Nat
         /\ Apt(q)
         /\ q.op = "addAssignee" => Cardinality(assignee) < MaxAssignees
         /\ q.op = "attach" => D!RoomForAttachment
<1>1. ASSUME NEW o \in D!Ops, NEW i, NEW c
      PROVE  LET q == D!Req(o, i, c) IN
             /\ q = [op |-> o, id |-> i, to |-> c, revision |-> 0]
             /\ q.op = o /\ q.id = i /\ q.to = c /\ q.revision = 0
  BY DEF D!Req
<1>2. ASSUME NEW q \in D!LabelRequests(u) PROVE Goal(q)
  <2>1. CASE q \in {D!Req("createLabel", l, n) : l \in Labels \ detailMinted, n \in Names \ D!NamesOf(D!Stored)}
    <3>1. PICK l \in Labels, n \in Names : q = D!Req("createLabel", l, n)
      BY <2>1
    <3> QED
      BY <3>1 DEF D!Req, D!Ops, D!Ids, D!Contents, Apt
  <2>2. CASE q \in UNION {{D!Req(IF label[l].name = n THEN "noOp" ELSE "updateLabel", l, n) :
              n \in Names \ D!NamesOf(D!Stored \ {l})} : l \in {l \in D!Stored : label[l].by = u}}
    <3>0. PICK l \in {l \in D!Stored : label[l].by = u} :
            q \in {D!Req(IF label[l].name = n THEN "noOp" ELSE "updateLabel", l, n) :
                      n \in Names \ D!NamesOf(D!Stored \ {l})}
      BY <2>2
    <3>1. PICK n \in Names :
            q = D!Req(IF label[l].name = n THEN "noOp" ELSE "updateLabel", l, n)
      BY <3>0
    <3>2. l \in Labels /\ label[l] # Absent
      BY DEF D!Stored
    <3>3. q = D!Req("noOp", l, n) \/ q = D!Req("updateLabel", l, n)
      BY <3>1
    <3> QED
      BY <3>2, <3>3 DEF D!Req, D!Ops, D!Ids, D!Contents, Apt
  <2> QED
    BY <1>2, <2>1, <2>2 DEF D!LabelRequests
<1>3. ASSUME NEW q \in D!LabelLinkRequests PROVE Goal(q)
  <2>1. \E l \in Labels : \E o \in {"noOp", "applyLabel", "removeLabel"} : q = D!Req(o, l, Absent)
    BY <1>3 DEF D!LabelLinkRequests, D!OnLiveCard, D!Stored
  <2> QED
    BY <2>1 DEF D!Req, D!Ops, D!Ids, D!Contents, Apt
<1>4. ASSUME NEW q \in D!CommentRequests(u) PROVE Goal(q)
  <2>1. CASE q \in D!OnLiveCard({D!Req("createComment", c, b) : c \in Comments \ detailMinted, b \in Bodies})
    <3>1. PICK c \in Comments, b \in Bodies : q = D!Req("createComment", c, b)
      BY <2>1 DEF D!OnLiveCard
    <3> QED
      BY <3>1 DEF D!Req, D!Ops, D!Ids, D!Contents, Apt
  <2>2. ASSUME NEW c \in D!LiveComments PROVE c \in Comments /\ comment[c].revision \in Nat
    <3>1. comment[c] \in D!Comment
      BY <2>2 DEF D!LiveComments, D!TypeOK
    <3> QED
      BY <2>2, <3>1 DEF D!LiveComments, D!Comment
  <2>3. CASE q \in {[D!Req(IF comment[c].body = b THEN "noOp" ELSE "updateComment", c, b)
                        EXCEPT !.revision = comment[c].revision] :
                     c \in {c \in D!LiveComments : comment[c].by = u}, b \in Bodies}
    <3>1. PICK c \in D!LiveComments, b \in Bodies :
            q = [D!Req(IF comment[c].body = b THEN "noOp" ELSE "updateComment", c, b)
                   EXCEPT !.revision = comment[c].revision]
      BY <2>3
    <3>2. \/ q = [op |-> "noOp", id |-> c, to |-> b, revision |-> comment[c].revision]
          \/ q = [op |-> "updateComment", id |-> c, to |-> b, revision |-> comment[c].revision]
      BY <3>1 DEF D!Req
    <3> QED
      BY <2>2, <3>2 DEF D!Ops, D!Ids, D!Contents, Apt
  <2>4. CASE q \in {[D!Req("deleteComment", c, Absent) EXCEPT !.revision = comment[c].revision] :
                     c \in {c \in D!LiveComments : u \in D!Deleters(comment[c].by)}}
    <3>1. PICK c \in D!LiveComments :
            q = [D!Req("deleteComment", c, Absent) EXCEPT !.revision = comment[c].revision]
      BY <2>4
    <3>2. q = [op |-> "deleteComment", id |-> c, to |-> Absent, revision |-> comment[c].revision]
      BY <3>1 DEF D!Req
    <3> QED
      BY <2>2, <3>2 DEF D!Ops, D!Ids, D!Contents, Apt
  <2> QED
    BY <1>4, <2>1, <2>3, <2>4 DEF D!CommentRequests
<1>5. ASSUME NEW q \in D!AssigneeRequests PROVE Goal(q)
  <2>1. \E v \in Users : \/ q = D!Req("removeAssignee", v, Absent)
                         \/ q = D!Req("addAssignee", v, Absent) /\ Cardinality(assignee) < MaxAssignees
    BY <1>5, CountsAgree DEF D!AssigneeRequests, D!OnLiveCard, D!TypeOK
  <2> QED
    BY <2>1 DEF D!Req, D!Ops, D!Ids, D!Contents, Apt
<1>6. ASSUME NEW q \in D!UploadRequests \cup D!AttachRequests PROVE Goal(q)
  <2>1. D!RoomForAttachment /\ \E a \in Attachments : q = D!Req("noOp", a, Absent) \/ q = D!Req("attach", a, Absent)
    BY <1>6 DEF D!UploadRequests, D!AttachRequests
  <2> QED
    BY <2>1 DEF D!Req, D!Ops, D!Ids, D!Contents, Apt
<1>7. ASSUME NEW q \in D!DetachRequests(u) PROVE Goal(q)
  <2>1. \E a \in Attachments : q = D!Req("detach", a, Absent)
    BY <1>7 DEF D!DetachRequests, D!Attached
  <2> QED
    BY <2>1 DEF D!Req, D!Ops, D!Ids, D!Contents, Apt
<1>8. ASSUME NEW q \in D!FieldRequests PROVE Goal(q)
  <2>1. \E f \in D!Fields, v \in Values \cup {Absent} : \E o \in {"noOp", "setField"} : q = D!Req(o, f, v)
    BY <1>8 DEF D!FieldRequests, D!OnLiveCard
  <2> QED
    BY <2>1 DEF D!Req, D!Ops, D!Ids, D!Contents, Apt
<1>9. Goal(r)
  <2> HIDE DEF Goal
  <2> QED
    BY <1>2, <1>3, <1>4, <1>5, <1>6, <1>7, <1>8 DEF D!Admissible, D!OnLiveCard
<1>10. D!Sent(r, u, k) \in D!Request
  BY <1>9 DEF D!Sent, D!Request
<1> QED
  BY <1>9, <1>10 DEF Apt

-----------------------------------------------------------------------------
\* A view is given by its components,
LEMMA ViewParts ==
  ASSUME NEW v \in D!View, NEW w, NEW ls, NEW cs, NEW us, NEW as, NEW ats, NEW fs,
         w = [label |-> ls, applied |-> as, comment |-> cs, assignee |-> us,
              attachment |-> ats, field |-> fs]
  PROVE  v = w <=> /\ v.label = ls /\ v.comment = cs
                   /\ v.applied = as /\ v.assignee = us /\ v.attachment = ats /\ v.field = fs
<1>1. v = [label |-> v.label, applied |-> v.applied, comment |-> v.comment,
           assignee |-> v.assignee, attachment |-> v.attachment, field |-> v.field]
  BY DEF D!View
<1>2. ASSUME v = w
      PROVE  /\ v.label = ls /\ v.comment = cs /\ v.applied = as /\ v.assignee = us
             /\ v.attachment = ats /\ v.field = fs
  BY <1>2
<1>3. ASSUME v.label = ls, v.comment = cs, v.applied = as, v.assignee = us,
             v.attachment = ats, v.field = fs
      PROVE  v = w
  BY <1>1, <1>3
<1> QED
  BY <1>2, <1>3

LabelsShown == [l \in Labels |-> IF label[l] = Absent THEN Absent ELSE label[l].name]
CommentsShown == [c \in Comments |-> IF c \in D!LiveComments THEN comment[c].body ELSE Absent]

\* An assignee that is told is there, and one that is there is told or was missed.
AssigneesTold(v) == v.assignee \subseteq assignee /\ assignee \subseteq v.assignee \cup overtaken

\* so it is the one shown, but for assignees that were missed, exactly if they are.
ShowsRows(v) == /\ v.label = LabelsShown /\ v.comment = CommentsShown
                /\ v.applied = labelled /\ AssigneesTold(v)
                /\ v.attachment = D!Attached /\ v.field = field

LEMMA ShownNow ==
  ASSUME NEW v \in D!View, assignee \subseteq Users
  PROVE  [v EXCEPT !.assignee = assignee] = D!Shown /\ AssigneesTold(v) <=> ShowsRows(v)
<1>1. D!Shown = [label |-> LabelsShown, applied |-> labelled, comment |-> CommentsShown,
               assignee |-> assignee, attachment |-> D!Attached, field |-> field]
  BY DEF D!Shown, LabelsShown, CommentsShown
<1> DEFINE w == [v EXCEPT !.assignee = assignee]
<1>2. /\ w \in D!View /\ w.assignee = assignee
      /\ w.label = v.label /\ w.comment = v.comment /\ w.applied = v.applied
      /\ w.attachment = v.attachment /\ w.field = v.field
  BY DEF D!View
<1> HIDE DEF w
<1>3. w = D!Shown <=> /\ w.label = LabelsShown /\ w.comment = CommentsShown /\ w.applied = labelled
                      /\ w.assignee = assignee /\ w.attachment = D!Attached /\ w.field = field
  BY <1>1, <1>2, ViewParts
<1>4. w = D!Shown <=> /\ v.label = LabelsShown /\ v.comment = CommentsShown /\ v.applied = labelled
                      /\ v.attachment = D!Attached /\ v.field = field
  BY <1>2, <1>3
<1> QED
  BY <1>4 DEF ShowsRows, w

LEMMA ShownNext ==
  ASSUME NEW v \in D!View, assignee' \subseteq Users
  PROVE  [v EXCEPT !.assignee = assignee'] = D!Shown' /\ AssigneesTold(v)' <=> ShowsRows(v)'
<1>1. D!Shown' = [label |-> LabelsShown', applied |-> labelled', comment |-> CommentsShown',
                assignee |-> assignee', attachment |-> D!Attached', field |-> field']
  BY DEF D!Shown, LabelsShown, CommentsShown
<1> DEFINE w == [v EXCEPT !.assignee = assignee']
<1>2. /\ w \in D!View /\ w.assignee = assignee'
      /\ w.label = v.label /\ w.comment = v.comment /\ w.applied = v.applied
      /\ w.attachment = v.attachment /\ w.field = v.field
  BY DEF D!View
<1> HIDE DEF w
<1>3. w = D!Shown' <=> /\ w.label = LabelsShown' /\ w.comment = CommentsShown' /\ w.applied = labelled'
                       /\ w.assignee = assignee' /\ w.attachment = D!Attached' /\ w.field = field'
  BY <1>1, <1>2, ViewParts
<1>4. w = D!Shown' <=> /\ v.label = LabelsShown' /\ v.comment = CommentsShown' /\ v.applied = labelled'
                       /\ v.attachment = D!Attached' /\ v.field = field'
  BY <1>2, <1>3
<1> QED
  BY <1>4 DEF ShowsRows, w

-----------------------------------------------------------------------------
\* What is known when a request writes, and what is to be shown of the rows and
\* of the event.
Writes(r) == /\ RowsTyped /\ detailTold \in D!View /\ ShowsRows(detailTold)
             /\ r \in D!Request /\ Apt(r) /\ detailTold' = D!Tell(r) /\ overtaken' = overtaken
Agreed == /\ RowsTyped' /\ detailTold' \in D!View /\ ShowsRows(detailTold)'
          /\ \A l \in Labels : label[l] # Absent => label'[l] # Absent

\* A label is created or renamed as the event says.
LEMMA LabelWrites == ASSUME NEW r, Writes(r), D!CreateLabel(r) \/ D!UpdateLabel(r) PROVE Agreed
<1>1. r.id \in Labels /\ r.to \in Names /\ r.by \in Users /\ r.op \in {"createLabel", "updateLabel"}
  BY DEF Writes, D!CreateLabel, D!UpdateLabel, Apt, D!Request
<1>2. PICK row \in D!Label : row.name = r.to /\ label' = [label EXCEPT ![r.id] = row]
  <2>1. CASE D!CreateLabel(r)
    BY <1>1, <2>1 DEF D!CreateLabel, D!Label
  <2>2. CASE D!UpdateLabel(r)
    <3>1. label[r.id] \in D!Label /\ label \in [Labels -> D!Label \cup {Absent}]
      BY <1>1, <2>2 DEF Writes, RowsTyped, Apt, D!UpdateLabel
    <3>2. label' = [label EXCEPT ![r.id] = [label[r.id] EXCEPT !.name = r.to]]
      BY <2>2, <3>1 DEF D!UpdateLabel
    <3>3. [label[r.id] EXCEPT !.name = r.to] \in D!Label /\ [label[r.id] EXCEPT !.name = r.to].name = r.to
      BY <1>1, <3>1 DEF D!Label
    <3> QED
      BY <3>2, <3>3
  <2> QED
    BY <2>1, <2>2
<1>3. row # Absent /\ UNCHANGED <<labelled, comment, assignee, attachment, field, watching>>
  BY DetailsAssumption DEF D!DetailsAssumption, D!CreateLabel, D!UpdateLabel
<1>4. /\ detailTold' = [detailTold EXCEPT !.label[r.id] = r.to] /\ detailTold \in D!View
      /\ detailTold.label = LabelsShown /\ detailTold.comment = CommentsShown /\ detailTold.applied = labelled
      /\ AssigneesTold(detailTold) /\ detailTold.attachment = D!Attached /\ detailTold.field = field
      /\ overtaken' = overtaken /\ label \in [Labels -> D!Label \cup {Absent}]
  BY <1>1 DEF Writes, D!Tell, ShowsRows, RowsTyped
<1>5. /\ detailTold' \in D!View /\ detailTold'.label = [detailTold.label EXCEPT ![r.id] = r.to]
      /\ detailTold'.comment = detailTold.comment /\ detailTold'.applied = detailTold.applied
      /\ detailTold'.assignee = detailTold.assignee /\ detailTold'.attachment = detailTold.attachment
      /\ detailTold'.field = detailTold.field
  BY <1>1, <1>4 DEF D!View
<1>6. LabelsShown' = [LabelsShown EXCEPT ![r.id] = r.to]
  BY <1>1, <1>2, <1>3, <1>4 DEF LabelsShown
<1>7. CommentsShown' = CommentsShown /\ D!Attached' = D!Attached
  BY <1>3 DEF CommentsShown, D!LiveComments, D!Attached
<1>8. ShowsRows(detailTold)'
  BY <1>3, <1>4, <1>5, <1>6, <1>7 DEF ShowsRows, AssigneesTold
<1>9. RowsTyped' /\ \A l \in Labels : label[l] # Absent => label'[l] # Absent
  BY <1>1, <1>2, <1>3, <1>4 DEF Writes, RowsTyped
<1> QED
  BY <1>5, <1>8, <1>9 DEF Agreed

\* A label is put on the card or taken off it.
LEMMA LinkWrites == ASSUME NEW r, Writes(r), D!ApplyLabel(r) \/ D!RemoveLabel(r) PROVE Agreed
<1>1. /\ r.id \in Labels /\ detailTold \in D!View /\ ShowsRows(detailTold) /\ RowsTyped
      /\ detailTold' = [detailTold EXCEPT !.applied = labelled'] /\ labelled' \subseteq Labels
      /\ overtaken' = overtaken
  BY DEF Writes, D!ApplyLabel, D!RemoveLabel, Apt, D!Tell, ShowsRows, RowsTyped
<1>2. UNCHANGED <<label, comment, assignee, attachment, field, watching>>
  BY DEF D!ApplyLabel, D!RemoveLabel
<1>3. /\ detailTold' \in D!View /\ detailTold'.applied = labelled' /\ detailTold'.label = detailTold.label
      /\ detailTold'.comment = detailTold.comment /\ detailTold'.assignee = detailTold.assignee
      /\ detailTold'.attachment = detailTold.attachment /\ detailTold'.field = detailTold.field
  BY <1>1 DEF D!View
<1>4. LabelsShown' = LabelsShown /\ CommentsShown' = CommentsShown /\ D!Attached' = D!Attached
  BY <1>2 DEF LabelsShown, CommentsShown, D!LiveComments, D!Attached
<1> QED
  BY <1>1, <1>2, <1>3, <1>4 DEF Agreed, ShowsRows, AssigneesTold, RowsTyped

\* A comment's row and the comment that is told become b, whatever either was.
LEMMA CommentBecomes ==
  ASSUME NEW r, Writes(r), r.id \in Comments, NEW row \in D!Comment, NEW b \in Bodies \cup {Absent},
         b = IF row.deleted THEN Absent ELSE row.body,
         comment' = [comment EXCEPT ![r.id] = row], watching' \subseteq Users,
         detailTold' = [detailTold EXCEPT !.comment[r.id] = b],
         UNCHANGED <<label, labelled, assignee, attachment, field>>
  PROVE  Agreed
<1>1. /\ detailTold \in D!View /\ RowsTyped
      /\ detailTold.label = LabelsShown /\ detailTold.comment = CommentsShown /\ detailTold.applied = labelled
      /\ AssigneesTold(detailTold) /\ detailTold.attachment = D!Attached /\ detailTold.field = field
      /\ overtaken' = overtaken
  BY DEF Writes, ShowsRows
<1>2. /\ detailTold' \in D!View /\ detailTold'.comment = [detailTold.comment EXCEPT ![r.id] = b]
      /\ detailTold'.label = detailTold.label /\ detailTold'.applied = detailTold.applied
      /\ detailTold'.assignee = detailTold.assignee /\ detailTold'.attachment = detailTold.attachment
      /\ detailTold'.field = detailTold.field
  BY <1>1 DEF D!View
<1>3. comment' \in [Comments -> D!Comment \cup {Absent}] /\ comment'[r.id] = row /\ row # Absent
      /\ \A c \in Comments : c # r.id => comment'[c] = comment[c]
  BY <1>1, DetailsAssumption DEF RowsTyped, D!DetailsAssumption
<1>4. CommentsShown' = [CommentsShown EXCEPT ![r.id] = b]
  <2>1. \A c \in Comments : CommentsShown'[c] = [CommentsShown EXCEPT ![r.id] = b][c]
    BY <1>3 DEF CommentsShown, D!LiveComments
  <2> QED
    BY <2>1 DEF CommentsShown
<1>5. LabelsShown' = LabelsShown /\ D!Attached' = D!Attached
  BY DEF LabelsShown, D!Attached
<1>6. ShowsRows(detailTold)'
  BY <1>1, <1>2, <1>4, <1>5 DEF ShowsRows, AssigneesTold
<1>7. RowsTyped'
  BY <1>1, <1>3 DEF RowsTyped
<1> QED
  BY <1>2, <1>6, <1>7 DEF Agreed

\* Where nothing is written, nothing that is told may change.
LEMMA NothingWritten == ASSUME NEW r, Writes(r), UNCHANGED D!tables, detailTold' = detailTold PROVE Agreed
  BY DEF Writes, Agreed, D!tables, RowsTyped, ShowsRows, AssigneesTold, LabelsShown, CommentsShown,
         D!LiveComments, D!Attached

\* A comment is written, or patched if it is live when the patch runs.
LEMMA CommentWrites ==
  ASSUME NEW r, Writes(r), D!CreateComment(r) \/ D!UpdateComment(r) \/ D!DeleteComment(r) PROVE Agreed
<1>1. /\ r.id \in Comments /\ r.by \in Users /\ r.revision \in Nat
      /\ r.op \in {"createComment", "updateComment"} => r.to \in Bodies
  BY DEF Writes, D!CreateComment, D!UpdateComment, D!DeleteComment, Apt, D!Request
<1>2. /\ detailTold \in D!View /\ RowsTyped /\ detailTold.comment = CommentsShown /\ detailTold' = D!Tell(r)
      /\ comment[r.id] \in D!Comment \cup {Absent} /\ watching \subseteq Users
      /\ comment \in [Comments -> D!Comment \cup {Absent}]
  BY <1>1 DEF Writes, ShowsRows, RowsTyped
<1>3. CASE D!CreateComment(r)
  <2> DEFINE row == [by |-> r.by, body |-> r.to, revision |-> 0, deleted |-> FALSE]
  <2>1. row \in D!Comment /\ row.body = r.to /\ ~row.deleted /\ r.op = "createComment"
    BY <1>1, <1>3 DEF D!Comment, D!CreateComment
  <2>2. /\ comment' = [comment EXCEPT ![r.id] = row] /\ watching' \subseteq Users
        /\ detailTold' = [detailTold EXCEPT !.comment[r.id] = r.to]
        /\ UNCHANGED <<label, labelled, assignee, attachment, field>>
    BY <1>1, <1>2, <1>3 DEF D!CreateComment, D!Tell
  <2> HIDE DEF row
  <2> QED
    BY <1>1, <2>1, <2>2, CommentBecomes
<1>4. CASE r.id \in D!LiveComments /\ (D!UpdateComment(r) \/ D!DeleteComment(r))
  <2>1. /\ comment[r.id] \in D!Comment /\ comment[r.id] # Absent /\ comment[r.id].body \in Bodies
        /\ detailTold.comment[r.id] = comment[r.id].body
    BY <1>1, <1>2, <1>4 DEF D!LiveComments, CommentsShown, D!Comment
  <2>2. detailTold.comment[r.id] # Absent
    BY <2>1, DetailsAssumption DEF D!DetailsAssumption
  <2>3. CASE D!UpdateComment(r)
    <3> DEFINE row == [comment[r.id] EXCEPT !.body = r.to, !.revision = D!Revised(r)]
    <3>1. row \in D!Comment /\ row.body = r.to /\ row.deleted = comment[r.id].deleted
      <4>1. D!Revised(r) \in Nat
        BY <1>1 DEF D!Revised
      <4> QED
        BY <1>1, <2>1, <2>3, <4>1 DEF D!Comment, D!UpdateComment
    <3>2. /\ comment' = [comment EXCEPT ![r.id] = row]
          /\ detailTold' = [detailTold EXCEPT !.comment[r.id] = r.to] /\ r.to \in Bodies
          /\ UNCHANGED <<label, labelled, assignee, attachment, field, watching>>
      BY <1>1, <1>2, <1>4, <2>2, <2>3 DEF D!UpdateComment, D!Tell
    <3>3. ~comment[r.id].deleted
      BY <1>4 DEF D!LiveComments
    <3> HIDE DEF row
    <3> QED
      BY <1>1, <1>2, <3>1, <3>2, <3>3, CommentBecomes
  <2>4. CASE D!DeleteComment(r)
    <3> DEFINE row == [comment[r.id] EXCEPT !.deleted = TRUE, !.revision = D!Revised(r)]
    <3>1. row \in D!Comment /\ row.deleted
      <4>1. D!Revised(r) \in Nat
        BY <1>1 DEF D!Revised
      <4> QED
        BY <2>1, <4>1 DEF D!Comment
    <3>2. /\ comment' = [comment EXCEPT ![r.id] = row]
          /\ detailTold' = [detailTold EXCEPT !.comment[r.id] = Absent]
          /\ UNCHANGED <<label, labelled, assignee, attachment, field, watching>>
      BY <1>1, <1>2, <1>4, <2>4 DEF D!DeleteComment, D!Tell
    <3> HIDE DEF row
    <3> QED
      BY <1>1, <1>2, <3>1, <3>2, CommentBecomes
  <2> QED
    BY <1>4, <2>3, <2>4
<1>5. CASE r.id \notin D!LiveComments /\ (D!UpdateComment(r) \/ D!DeleteComment(r))
  <2>1. detailTold.comment[r.id] = Absent /\ detailTold.comment \in [Comments -> Bodies \cup {Absent}]
    BY <1>1, <1>2, <1>5 DEF CommentsShown, D!View
  <2>2. detailTold' = [detailTold EXCEPT !.comment = [detailTold.comment EXCEPT ![r.id] = Absent]]
    BY <1>2, <1>5, <2>1 DEF D!UpdateComment, D!DeleteComment, D!Tell
  <2>3. [detailTold.comment EXCEPT ![r.id] = Absent] = detailTold.comment
    BY <2>1
  <2>4. detailTold' = detailTold
    BY <1>2, <2>2, <2>3 DEF D!View
  <2>5. UNCHANGED D!tables
    BY <1>5 DEF D!UpdateComment, D!DeleteComment, D!tables
  <2> QED
    BY <2>4, <2>5, NothingWritten
<1> QED
  BY <1>3, <1>4, <1>5

\* A user is assigned or taken off.
LEMMA AssigneeWrites == ASSUME NEW r, Writes(r), D!AddAssignee(r) \/ D!RemoveAssignee(r) PROVE Agreed
<1>1. /\ r.id \in Users /\ detailTold \in D!View /\ ShowsRows(detailTold) /\ RowsTyped
      /\ assignee' \subseteq Users /\ overtaken' = overtaken
  BY DEF Writes, D!AddAssignee, D!RemoveAssignee, Apt, RowsTyped
<1>2. UNCHANGED <<label, labelled, comment, attachment, field, watching>>
  BY DEF D!AddAssignee, D!RemoveAssignee
<1>3. /\ detailTold' \in D!View /\ AssigneesTold(detailTold)' /\ detailTold'.label = detailTold.label
      /\ detailTold'.comment = detailTold.comment /\ detailTold'.applied = detailTold.applied
      /\ detailTold'.attachment = detailTold.attachment /\ detailTold'.field = detailTold.field
  <2>1. AssigneesTold(detailTold)
    BY <1>1 DEF ShowsRows
  <2>2. CASE D!AddAssignee(r)
    <3>1. /\ detailTold' = [detailTold EXCEPT !.assignee = @ \cup {r.id}]
          /\ assignee' = assignee \cup {r.id}
      BY <2>2 DEF Writes, D!AddAssignee, D!Tell
    <3> QED
      BY <1>1, <2>1, <3>1 DEF D!View, AssigneesTold
  <2>3. CASE D!RemoveAssignee(r)
    <3>1. /\ detailTold' = [detailTold EXCEPT !.assignee = @ \ {r.id}]
          /\ assignee' = assignee \ {r.id}
      BY <2>3 DEF Writes, D!RemoveAssignee, D!Tell
    <3> QED
      BY <1>1, <2>1, <3>1 DEF D!View, AssigneesTold
  <2> QED
    BY <2>2, <2>3
<1>4. LabelsShown' = LabelsShown /\ CommentsShown' = CommentsShown /\ D!Attached' = D!Attached
  BY <1>2 DEF LabelsShown, CommentsShown, D!LiveComments, D!Attached
<1> QED
  BY <1>1, <1>2, <1>3, <1>4 DEF Agreed, ShowsRows, RowsTyped

\* A file or a link is attached, or detached if it is there when that runs.
LEMMA AttachmentWrites ==
  ASSUME NEW r, Writes(r), D!Attach(r) \/ D!Detach(r)
  PROVE  /\ Agreed
         /\ D!Attach(r) => D!Attached' = D!Attached \cup {r.id} /\ r.id \notin D!Attached
         /\ D!Detach(r) => D!Attached' \subseteq D!Attached
<1>1. /\ r.id \in Attachments /\ r.by \in Users /\ detailTold \in D!View /\ ShowsRows(detailTold) /\ RowsTyped
      /\ attachment \in [Attachments -> D!Attachment \cup {Absent}] /\ overtaken' = overtaken
  BY DEF Writes, D!Attach, D!Detach, Apt, D!Request, RowsTyped
<1>2. UNCHANGED <<label, labelled, comment, assignee, field, watching>>
  BY DEF D!Attach, D!Detach
<1>3. ASSUME D!Attach(r)
      PROVE  /\ attachment' \in [Attachments -> D!Attachment \cup {Absent}]
             /\ D!Attached' = D!Attached \cup {r.id} /\ r.id \notin D!Attached
             /\ detailTold' = [detailTold EXCEPT !.attachment = D!Attached']
  <2> DEFINE row == [by |-> r.by, deleted |-> FALSE]
  <2>1. row \in D!Attachment /\ row # Absent /\ ~row.deleted
    <3>1. row \in D!Attachment /\ ~row.deleted
      BY <1>1 DEF D!Attachment
    <3> QED
      BY <3>1, DetailsAssumption DEF D!DetailsAssumption
  <2>2. attachment' = [attachment EXCEPT ![r.id] = row] /\ attachment[r.id] = Absent
    BY <1>3 DEF D!Attach
  <2> HIDE DEF row
  <2>3. attachment' \in [Attachments -> D!Attachment \cup {Absent}]
    BY <1>1, <2>1, <2>2
  <2>4. D!Attached' = D!Attached \cup {r.id} /\ r.id \notin D!Attached
    BY <1>1, <2>1, <2>2 DEF D!Attached
  <2>5. detailTold' = [detailTold EXCEPT !.attachment = D!Attached']
    BY <1>1, <1>3, <2>4 DEF Writes, D!Attach, D!Tell, ShowsRows
  <2> QED
    BY <2>3, <2>4, <2>5
<1>4. ASSUME D!Detach(r)
      PROVE  /\ attachment' \in [Attachments -> D!Attachment \cup {Absent}]
             /\ D!Attached' = D!Attached \ {r.id}
             /\ detailTold' = [detailTold EXCEPT !.attachment = D!Attached']
  <2>1. attachment' \in [Attachments -> D!Attachment \cup {Absent}]
        /\ D!Attached' = D!Attached \ {r.id}
    <3>1. CASE r.id \in D!Attached
      <4> DEFINE row == [attachment[r.id] EXCEPT !.deleted = TRUE]
      <4>1. row \in D!Attachment /\ row.deleted
        BY <1>1, <3>1 DEF D!Attachment, D!Attached
      <4>2. attachment' = [attachment EXCEPT ![r.id] = row]
        BY <1>1, <1>4, <3>1 DEF D!Detach
      <4> HIDE DEF row
      <4> QED
        BY <1>1, <4>1, <4>2 DEF D!Attached
    <3>2. CASE r.id \notin D!Attached
      BY <1>1, <1>4, <3>2 DEF D!Detach, D!Attached
    <3> QED
      BY <3>1, <3>2
  <2>2. detailTold' = [detailTold EXCEPT !.attachment = D!Attached']
    BY <1>1, <1>4, <2>1 DEF Writes, D!Detach, D!Tell, ShowsRows
  <2> QED
    BY <2>1, <2>2
<1>5. attachment' \in [Attachments -> D!Attachment \cup {Absent}] /\ D!Attached' \subseteq Attachments
      /\ detailTold' = [detailTold EXCEPT !.attachment = D!Attached']
  BY <1>3, <1>4 DEF D!Attached
<1>6. /\ detailTold' \in D!View /\ detailTold'.attachment = D!Attached' /\ detailTold'.label = detailTold.label
      /\ detailTold'.comment = detailTold.comment /\ detailTold'.applied = detailTold.applied
      /\ detailTold'.assignee = detailTold.assignee /\ detailTold'.field = detailTold.field
  BY <1>1, <1>5 DEF D!View
<1>7. LabelsShown' = LabelsShown /\ CommentsShown' = CommentsShown
  BY <1>2 DEF LabelsShown, CommentsShown, D!LiveComments
<1>8. Agreed
  BY <1>1, <1>2, <1>5, <1>6, <1>7 DEF Agreed, ShowsRows, AssigneesTold, RowsTyped
<1> QED
  BY <1>3, <1>4, <1>8

\* A column of the card is set.
LEMMA FieldWrites == ASSUME NEW r, Writes(r), D!SetDueDate(r) \/ D!SetCover(r) PROVE Agreed
<1>1. /\ r.id \in D!Fields /\ r.to \in Values \cup {Absent} /\ r.op = "setField"
      /\ detailTold \in D!View /\ ShowsRows(detailTold) /\ RowsTyped
      /\ field' = [field EXCEPT ![r.id] = r.to]
      /\ UNCHANGED <<label, labelled, comment, assignee, attachment, watching, overtaken>>
  BY DEF Writes, D!SetDueDate, D!SetCover, D!SetColumn, Apt
<1>2. detailTold' = [detailTold EXCEPT !.field = field'] /\ field' \in [D!Fields -> Values \cup {Absent}]
  BY <1>1 DEF Writes, D!Tell, ShowsRows, RowsTyped, D!View
<1>3. /\ detailTold' \in D!View /\ detailTold'.field = field' /\ detailTold'.label = detailTold.label
      /\ detailTold'.comment = detailTold.comment /\ detailTold'.applied = detailTold.applied
      /\ detailTold'.assignee = detailTold.assignee /\ detailTold'.attachment = detailTold.attachment
  BY <1>1, <1>2 DEF D!View
<1>4. LabelsShown' = LabelsShown /\ CommentsShown' = CommentsShown /\ D!Attached' = D!Attached
  BY <1>1 DEF LabelsShown, CommentsShown, D!LiveComments, D!Attached
<1> QED
  BY <1>1, <1>2, <1>3, <1>4 DEF Agreed, ShowsRows, AssigneesTold, RowsTyped

\* Whatever a request writes, its event says so, and the timeline of its label
\* goes up and down with the link.
LEMMA WritesAgree ==
  ASSUME NEW r, Writes(r), D!Write(r), timeline \in [Labels -> Int], timeline' = D!Mark(r),
         \A l \in Labels : timeline[l] = IF l \in labelled THEN 1 ELSE 0
  PROVE  /\ Agreed /\ timeline' \in [Labels -> Int]
         /\ \A l \in Labels : timeline'[l] = IF l \in labelled' THEN 1 ELSE 0
<1>1. Agreed
  <2>1. CASE D!NoOp(r)
    <3>1. detailTold' = detailTold
      BY <2>1 DEF D!NoOp, Writes, D!Tell
    <3> QED
      BY <2>1, <3>1, NothingWritten DEF D!NoOp
  <2> QED
    BY <2>1, LabelWrites, LinkWrites, CommentWrites, AssigneeWrites, AttachmentWrites,
       FieldWrites DEF D!Write
<1>2. CASE D!ApplyLabel(r) \/ D!RemoveLabel(r)
  <2>1. r.id \in Labels
    BY <1>2 DEF Writes, Apt, D!ApplyLabel, D!RemoveLabel
  <2>2. CASE D!ApplyLabel(r)
    BY <2>1, <2>2, <1>1 DEF D!ApplyLabel, D!Mark
  <2>3. CASE D!RemoveLabel(r)
    BY <2>1, <2>3, <1>1 DEF D!RemoveLabel, D!Mark
  <2> QED
    BY <1>1, <1>2, <2>2, <2>3
<1>3. CASE ~(D!ApplyLabel(r) \/ D!RemoveLabel(r))
  <2>1. labelled' = labelled /\ r.op \notin {"applyLabel", "removeLabel"}
    BY <1>3 DEF D!Write, D!CreateLabel, D!UpdateLabel, D!CreateComment, D!UpdateComment, D!DeleteComment,
       D!AddAssignee, D!RemoveAssignee, D!Attach, D!Detach, D!SetDueDate, D!SetCover, D!SetColumn, D!NoOp, D!tables
  <2> QED
    BY <1>1, <2>1 DEF D!Mark
<1> QED
  BY <1>2, <1>3

\* A request that found nothing to do leaves the rows alone; if it tells of the
\* removal of an assignee all the same, the user was not there or was missed.
LEMMA MissAgrees ==
  ASSUME DetailsInv, NEW s \in missing, D!Commit(s)
  PROVE  /\ UNCHANGED D!tables /\ timeline' = timeline
         /\ detailTold' \in D!View /\ ShowsRows(detailTold)'
<1> DEFINE r == detailReq[s]
<1>1. /\ UNCHANGED D!tables /\ missing \subseteq Slots /\ overtaken' = overtaken \cup D!Overtaken(s)
      /\ detailTold \in D!View /\ assignee \subseteq Users
      /\ r.op \in {"applyLabel", "removeLabel", "removeAssignee"}
  BY DEF D!Commit, DetailsInv, D!TypeOK, MissesApt
<1>2. ShowsRows(detailTold) /\ AssigneesTold(detailTold)
  BY <1>1, ShownNow DEF DetailsInv, D!EventsTellCard, AssigneesTold
<1>3. CASE r.op = "removeAssignee"
  <2>1. timeline' = timeline /\ detailTold' = [detailTold EXCEPT !.assignee = @ \ {r.id}]
    BY <1>3 DEF D!Commit, D!Appends, D!Tell, D!Mark
  <2>2. overtaken' = overtaken \cup (assignee \cap {r.id})
    BY <1>1, <1>3 DEF D!Overtaken
  <2>3. /\ detailTold' \in D!View /\ detailTold'.assignee = detailTold.assignee \ {r.id}
        /\ detailTold'.label = detailTold.label /\ detailTold'.comment = detailTold.comment
        /\ detailTold'.applied = detailTold.applied /\ detailTold'.attachment = detailTold.attachment
        /\ detailTold'.field = detailTold.field
    BY <1>1, <2>1 DEF D!View
  <2>4. AssigneesTold(detailTold)'
    BY <1>1, <1>2, <2>2, <2>3 DEF AssigneesTold, D!tables
  <2>5. LabelsShown' = LabelsShown /\ CommentsShown' = CommentsShown /\ D!Attached' = D!Attached
    BY <1>1 DEF LabelsShown, CommentsShown, D!LiveComments, D!Attached, D!tables
  <2> QED
    BY <1>1, <1>2, <2>1, <2>3, <2>4, <2>5 DEF ShowsRows, D!tables
<1>4. CASE r.op # "removeAssignee"
  <2>1. timeline' = timeline /\ detailTold' = detailTold /\ overtaken' = overtaken
    BY <1>1, <1>4 DEF D!Commit, D!Appends, D!Overtaken
  <2> QED
    BY <1>1, <1>2, <2>1 DEF ShowsRows, AssigneesTold, LabelsShown, CommentsShown, D!LiveComments,
                            D!Attached, D!tables
<1> QED
  BY <1>3, <1>4

-----------------------------------------------------------------------------
LEMMA DetailsInitial == D!Init => DetailsInv
<1> SUFFICES ASSUME D!Init PROVE DetailsInv
  OBVIOUS
<1> USE DetailsAssumption DEF D!DetailsAssumption
<1>1. D!Shown \in D!View
  <2>1. \A l \in Labels : label[l] # Absent => label[l].name \in Names
    BY DEF D!Init, D!Label
  <2>2. D!LiveComments = {} /\ D!Attached = {}
    BY DEF D!Init, D!LiveComments, D!Attached
  <2>3. LabelsShown \in [Labels -> Names \cup {Absent}]
        /\ CommentsShown \in [Comments -> Bodies \cup {Absent}]
    BY <2>1, <2>2 DEF LabelsShown, CommentsShown
  <2>4. D!Shown = [label |-> LabelsShown, applied |-> labelled, comment |-> CommentsShown,
                 assignee |-> assignee, attachment |-> D!Attached, field |-> field]
    BY DEF D!Shown, LabelsShown, CommentsShown
  <2> QED
    BY <2>2, <2>3, <2>4 DEF D!Init, D!View
<1>2. D!TypeOK
  BY <1>1 DEF D!Init, D!TypeOK, D!Stored
<1>3. RequestsApt /\ MissesApt
  BY DEF D!Init, RequestsApt, MissesApt, D!Running
<1>4. D!EventsTellCard
  <2>1. detailTold = D!Shown /\ detailTold.assignee = assignee
    BY DEF D!Init, D!Shown
  <2>2. [detailTold EXCEPT !.assignee = assignee] = detailTold
    BY <1>1, <2>1 DEF D!View
  <2> QED
    BY <2>1, <2>2 DEF D!Init, D!EventsTellCard
<1>5. D!Attached = {} /\ \A op : D!Pending(op) = {}
  BY DEF D!Init, D!Attached, D!Pending, D!Running
<1>6. CapsInv
  <2>1. IsFiniteSet({}) /\ Cardinality({}) = 0
    BY FS_EmptySet
  <2>2. Cardinality(Slots) \in Nat /\ Cardinality(Slots) # 0
    BY FS_CardinalityType, FS_EmptySet, DetailsAssumption, CountsAgree DEF D!DetailsAssumption
  <2>3. IsFiniteSet(assignee) /\ Cardinality(assignee) \in Nat /\ Cardinality(assignee) <= MaxAssignees
    BY FS_CardinalityType, CountsAgree DEF D!Init
  <2>4. MaxAssignees \in Nat /\ MaxAttachments \in Nat \ {0}
    BY DetailsAssumption DEF D!DetailsAssumption
  <2>5. Cardinality(assignee) + 0 < MaxAssignees + Cardinality(Slots)
        /\ 0 + 0 < MaxAttachments + Cardinality(Slots)
    BY <2>2, <2>3, <2>4
  <2> QED
    BY <1>5, <2>1, <2>3, <2>5, CountsAgree DEF CapsInv, D!CapsPassedOnlyByRace
<1> QED
  BY <1>2, <1>3, <1>4, <1>6 DEF DetailsInv

\* A slot that takes up a request, or ends one, changes the requests under way by
\* itself alone.
LEMMA PendingChange ==
  ASSUME NEW s \in Slots, detailReq \in [Slots -> D!Request \cup {NoRequest}], NEW op,
         NEW q, detailReq' = [detailReq EXCEPT ![s] = q]
  PROVE  /\ IsFiniteSet(D!Pending(op)) /\ IsFiniteSet(D!Pending(op)')
         /\ Cardinality(D!Pending(op)) \in Nat /\ Cardinality(D!Pending(op)') \in Nat
         /\ Cardinality(D!Pending(op)') <= Cardinality(Slots) /\ Cardinality(Slots) \in Nat
         /\ (q = NoRequest \/ q.op # op) => Cardinality(D!Pending(op)') <= Cardinality(D!Pending(op))
         /\ (q = NoRequest /\ s \in D!Pending(op))
              => Cardinality(D!Pending(op)') + 1 = Cardinality(D!Pending(op))
<1>1. IsFiniteSet(Slots) /\ Cardinality(Slots) \in Nat
  BY DetailsAssumption, FS_CardinalityType, CountsAgree DEF D!DetailsAssumption
<1>2. D!Pending(op) \subseteq Slots /\ D!Pending(op)' \subseteq Slots
  BY DEF D!Pending
<1>3. /\ IsFiniteSet(D!Pending(op)) /\ IsFiniteSet(D!Pending(op)')
      /\ Cardinality(D!Pending(op)') <= Cardinality(Slots)
  BY <1>1, <1>2, FS_Subset
<1>4. Cardinality(D!Pending(op)) \in Nat /\ Cardinality(D!Pending(op)') \in Nat
  BY <1>3, FS_CardinalityType
<1>5. ASSUME q = NoRequest \/ q.op # op
      PROVE  D!Pending(op)' = D!Pending(op) \ {s}
  BY <1>5 DEF D!Pending, D!Running
<1>6. ASSUME q = NoRequest \/ q.op # op
      PROVE  Cardinality(D!Pending(op)') <= Cardinality(D!Pending(op))
  BY <1>3, <1>5, <1>6, FS_Subset
<1>7. ASSUME q = NoRequest, s \in D!Pending(op)
      PROVE  Cardinality(D!Pending(op)') + 1 = Cardinality(D!Pending(op))
  <2>1. Cardinality(D!Pending(op) \ {s}) = Cardinality(D!Pending(op)) - 1
    BY <1>3, <1>7, FS_RemoveElement
  <2>2. Cardinality(D!Pending(op)') = Cardinality(D!Pending(op) \ {s})
    BY <1>5, <1>7
  <2> QED
    BY <1>4, <2>1, <2>2
<1> QED
  BY <1>1, <1>3, <1>4, <1>6, <1>7

\* A request is admitted to a capped table only while there is room, and there are
\* no more requests under way than slots.
LEMMA DetailsAdmit == ASSUME DetailsInv, NEW s \in Slots, D!Admit(s) PROVE DetailsInv'
<1>0. PICK u \in Users, k \in DetailKeys \ detailSaved : \E r \in D!Admissible(u) :
        /\ detailReq' = [detailReq EXCEPT ![s] = D!Sent(r, u, k)]
        /\ detailMinted' = detailMinted \cup (IF r.op \in {"createLabel", "createComment"} THEN {r.id} ELSE {})
  BY DEF D!Admit
<1>1. PICK r \in D!Admissible(u) :
        /\ detailReq' = [detailReq EXCEPT ![s] = D!Sent(r, u, k)]
        /\ detailMinted' = detailMinted \cup (IF r.op \in {"createLabel", "createComment"} THEN {r.id} ELSE {})
  BY <1>0
<1>2. /\ D!Sent(r, u, k) \in D!Request /\ Apt(r)
      /\ r.op \in {"createLabel", "createComment"} => r.id \in Labels \cup Comments
      /\ r.op = "addAssignee" => Cardinality(assignee) < MaxAssignees
      /\ r.op = "attach" => Cardinality(D!Attached) < MaxAttachments
  BY DetailsAdmitted, CountsAgree DEF DetailsInv, D!RoomForAttachment
<1>3. /\ detailIssued < MaxDetailRequests /\ detailIssued' = detailIssued + 1 /\ MaxDetailRequests \in Nat
      /\ UNCHANGED <<card, label, labelled, comment, assignee, attachment, field, watching,
                     detailSaved, missing, detailTold, timeline, overtaken>> /\ ~D!Running(s)
  BY DetailsAssumption DEF D!Admit, D!tables, D!DetailsAssumption
<1>4. D!TypeOK'
  BY <1>1, <1>2, <1>3 DEF DetailsInv, D!TypeOK
<1>5. /\ D!Sent(r, u, k) # NoRequest
      /\ D!Sent(r, u, k).op = r.op /\ D!Sent(r, u, k).id = r.id /\ D!Sent(r, u, k).to = r.to
  <2>1. D!Sent(r, u, k) # NoRequest
    BY <1>2, DetailsAssumption DEF D!DetailsAssumption
  <2> QED
    BY <2>1 DEF D!Sent
<1>6. RequestsApt'
  <2> SUFFICES ASSUME NEW t \in Slots, D!Running(t)' PROVE Apt(detailReq[t])'
    BY DEF RequestsApt
  <2>1. CASE t = s
    <3>1. detailReq'[t] = D!Sent(r, u, k)
      BY <1>1, <2>1 DEF DetailsInv, D!TypeOK
    <3> QED
      BY <1>2, <1>3, <1>5, <3>1 DEF Apt
  <2>2. CASE t # s
    <3>1. detailReq'[t] = detailReq[t] /\ D!Running(t)
      BY <1>1, <2>2 DEF DetailsInv, D!TypeOK, D!Running
    <3> QED
      BY <1>3, <3>1 DEF DetailsInv, RequestsApt, Apt
  <2> QED
    BY <2>1, <2>2
<1>9. MissesApt'
  <2>1. \A t \in missing : t # s /\ t \in Slots
    BY <1>3 DEF DetailsInv, MissesApt, D!TypeOK
  <2>2. \A t \in missing : detailReq'[t] = detailReq[t]
    BY <1>1, <2>1 DEF DetailsInv, D!TypeOK
  <2> QED
    BY <1>3, <2>2 DEF DetailsInv, MissesApt, D!Running
<1>7. D!EventsTellCard'
  BY <1>3 DEF DetailsInv, D!EventsTellCard, D!Shown, D!LiveComments, D!Attached
<1>8. CapsInv'
  <2>1. /\ IsFiniteSet(assignee) /\ IsFiniteSet(D!Attached)
        /\ D!Attached' = D!Attached /\ assignee' = assignee
    BY <1>3 DEF DetailsInv, CapsInv, D!Attached
  <2>2. Cardinality(assignee) \in Nat /\ Cardinality(D!Attached) \in Nat
    BY <2>1, FS_CardinalityType
  <2>3. MaxAssignees \in Nat /\ MaxAttachments \in Nat
    BY DetailsAssumption DEF D!DetailsAssumption
  <2>4. detailReq \in [Slots -> D!Request \cup {NoRequest}]
    BY DEF DetailsInv, D!TypeOK
  <2> DEFINE P(op) == /\ Cardinality(D!Pending(op)) \in Nat /\ Cardinality(D!Pending(op)') \in Nat
                      /\ Cardinality(D!Pending(op)') <= Cardinality(Slots)
                      /\ Cardinality(Slots) \in Nat
                      /\ r.op # op => Cardinality(D!Pending(op)') <= Cardinality(D!Pending(op))
  <2>5. P("addAssignee") /\ P("attach")
    BY <1>1, <1>5, <2>4, PendingChange
  <2>6. /\ Cardinality(assignee) + Cardinality(D!Pending("addAssignee"))
             < MaxAssignees + Cardinality(Slots)
        /\ Cardinality(D!Attached) + Cardinality(D!Pending("attach"))
             < MaxAttachments + Cardinality(Slots)
    BY CountsAgree DEF DetailsInv, CapsInv, D!CapsPassedOnlyByRace
  <2>7. Cardinality(assignee) + Cardinality(D!Pending("addAssignee")')
             < MaxAssignees + Cardinality(Slots)
    BY <1>2, <2>2, <2>3, <2>5, <2>6
  <2>8. Cardinality(D!Attached) + Cardinality(D!Pending("attach")')
             < MaxAttachments + Cardinality(Slots)
    BY <1>2, <2>2, <2>3, <2>5, <2>6
  <2> QED
    BY <2>1, <2>7, <2>8, CountsAgree DEF CapsInv, D!CapsPassedOnlyByRace
<1> QED
  BY <1>4, <1>6, <1>7, <1>8, <1>9 DEF DetailsInv

\* Ending a request leaves the ones still under way as they were.
LEMMA OthersApt ==
  ASSUME DetailsInv, NEW s \in Slots, detailReq' = [detailReq EXCEPT ![s] = NoRequest],
         missing' = missing \ {s},
         \A l \in Labels : label[l] # Absent => label'[l] # Absent
  PROVE  RequestsApt' /\ MissesApt' /\ detailReq' \in [Slots -> D!Request \cup {NoRequest}]
<1>1. detailReq \in [Slots -> D!Request \cup {NoRequest}]
  BY DEF DetailsInv, D!TypeOK
<1>2. ASSUME NEW t \in Slots, D!Running(t)' PROVE Apt(detailReq[t])'
  <2>1. t # s /\ detailReq'[t] = detailReq[t] /\ D!Running(t)
    BY <1>1, <1>2 DEF D!Running
  <2>2. Apt(detailReq[t])
    BY <2>1 DEF DetailsInv, RequestsApt
  <2> QED
    BY <2>1, <2>2 DEF Apt
<1>3. MissesApt'
  <2>1. \A t \in missing' : t \in missing /\ detailReq'[t] = detailReq[t]
    BY <1>1 DEF DetailsInv, D!TypeOK
  <2> QED
    BY <2>1 DEF DetailsInv, MissesApt, D!Running
<1> QED
  BY <1>1, <1>2, <1>3 DEF RequestsApt

\* A commit makes what is told and what is shown change alike; of the capped
\* tables it fills only the one whose request it ends.
LEMMA DetailsCommit == ASSUME DetailsInv, NEW s \in Slots, D!Commit(s) PROVE DetailsInv'
<1> DEFINE r == detailReq[s]
<1>1. /\ D!Running(s)
      /\ s \notin missing => D!Write(r)
      /\ detailSaved' = detailSaved \cup {r.key} /\ detailReq' = [detailReq EXCEPT ![s] = NoRequest]
      /\ missing' = missing \ {s} /\ UNCHANGED <<card, detailMinted, detailIssued>>
  BY DEF D!Commit
<1>2. /\ r \in D!Request /\ r # NoRequest /\ Apt(r) /\ r.key \in DetailKeys
      /\ detailReq \in [Slots -> D!Request \cup {NoRequest}]
  BY <1>1 DEF DetailsInv, D!TypeOK, RequestsApt, D!Running, D!Request
<1>10. RowsTyped /\ detailTold \in D!View /\ ShowsRows(detailTold)
  <2>1. RowsTyped /\ detailTold \in D!View
    BY DEF DetailsInv, D!TypeOK, RowsTyped
  <2> QED
    BY <2>1, ShownNow DEF RowsTyped, DetailsInv, D!EventsTellCard, AssigneesTold
<1>3. ASSUME s \notin missing PROVE Writes(r) /\ timeline' = D!Mark(r)
  <2>1. detailTold' = D!Tell(r) /\ timeline' = D!Mark(r) /\ overtaken' = overtaken
    BY <1>3 DEF D!Commit, D!Appends, D!Overtaken
  <2> QED
    BY <1>2, <1>10, <2>1 DEF Writes
<1>4. /\ Agreed /\ timeline' \in [Labels -> Int]
      /\ \A l \in Labels : timeline'[l] = IF l \in labelled' THEN 1 ELSE 0
  <2>1. CASE s \notin missing
    BY <1>1, <1>3, <2>1, WritesAgree DEF DetailsInv, D!TypeOK, D!EventsTellCard
  <2>2. CASE s \in missing
    <3>1. /\ UNCHANGED D!tables /\ timeline' = timeline
          /\ detailTold' \in D!View /\ ShowsRows(detailTold)'
      BY <2>2, MissAgrees
    <3> QED
      BY <1>10, <3>1 DEF Agreed, RowsTyped, D!tables, DetailsInv, D!TypeOK, D!EventsTellCard
  <2> QED
    BY <2>1, <2>2
<1>5. [detailTold' EXCEPT !.assignee = assignee'] = D!Shown' /\ AssigneesTold(detailTold)'
  BY <1>4, ShownNext DEF Agreed, RowsTyped
<1>6. D!EventsTellCard'
  BY <1>4, <1>5 DEF D!EventsTellCard, AssigneesTold
<1>7. RequestsApt' /\ MissesApt' /\ detailReq' \in [Slots -> D!Request \cup {NoRequest}]
  BY <1>1, <1>4, OthersApt DEF Agreed
<1>11. overtaken' \subseteq Users
  BY DEF D!Commit, D!Overtaken, DetailsInv, D!TypeOK
<1>8. D!TypeOK'
  BY <1>1, <1>2, <1>4, <1>7, <1>11 DEF DetailsInv, D!TypeOK, Agreed, RowsTyped
<1>12. s \in missing => UNCHANGED D!tables
  BY DEF D!Commit
<1>9. CapsInv'
  <2>1. /\ IsFiniteSet(assignee) /\ IsFiniteSet(D!Attached)
        /\ Cardinality(assignee) \in Nat /\ Cardinality(D!Attached) \in Nat
    BY FS_CardinalityType DEF DetailsInv, CapsInv
  <2>2. MaxAssignees \in Nat /\ MaxAttachments \in Nat
    BY DetailsAssumption DEF D!DetailsAssumption
  <2> DEFINE P(op) == /\ Cardinality(D!Pending(op)) \in Nat /\ Cardinality(D!Pending(op)') \in Nat
                      /\ Cardinality(Slots) \in Nat
                      /\ Cardinality(D!Pending(op)') <= Cardinality(D!Pending(op))
                      /\ s \in D!Pending(op)
                           => Cardinality(D!Pending(op)') + 1 = Cardinality(D!Pending(op))
  <2>3. P("addAssignee") /\ P("attach")
    BY <1>1, <1>2, PendingChange
  <2>4. /\ Cardinality(assignee) + Cardinality(D!Pending("addAssignee"))
             < MaxAssignees + Cardinality(Slots)
        /\ Cardinality(D!Attached) + Cardinality(D!Pending("attach"))
             < MaxAttachments + Cardinality(Slots)
    BY CountsAgree DEF DetailsInv, CapsInv, D!CapsPassedOnlyByRace
  <2>5. /\ IsFiniteSet(assignee')
        /\ Cardinality(assignee') + Cardinality(D!Pending("addAssignee")')
             < MaxAssignees + Cardinality(Slots)
    <3>1. CASE D!AddAssignee(r)
      <4>1. assignee' = assignee \cup {r.id} /\ r.id \notin assignee /\ s \in D!Pending("addAssignee")
        BY <1>1, <3>1 DEF D!AddAssignee, D!Pending
      <4>2. IsFiniteSet(assignee') /\ Cardinality(assignee') = Cardinality(assignee) + 1
        BY <2>1, <4>1, FS_AddElement
      <4> QED
        BY <2>1, <2>2, <2>3, <2>4, <4>1, <4>2
    <3>2. CASE ~D!AddAssignee(r)
      <4>1. assignee' \subseteq assignee
        BY <1>1, <1>12, <3>2 DEF D!Write, D!CreateLabel, D!UpdateLabel, D!ApplyLabel, D!RemoveLabel, D!CreateComment,
           D!UpdateComment, D!DeleteComment, D!RemoveAssignee, D!Attach, D!Detach, D!SetDueDate, D!SetCover,
           D!SetColumn, D!NoOp, D!tables
      <4>2. /\ IsFiniteSet(assignee') /\ Cardinality(assignee') <= Cardinality(assignee)
            /\ Cardinality(assignee') \in Nat
        BY <2>1, <4>1, FS_Subset, FS_CardinalityType
      <4> QED
        BY <2>1, <2>2, <2>3, <2>4, <4>2
    <3> QED
      BY <3>1, <3>2
  <2>6. /\ IsFiniteSet(D!Attached')
        /\ Cardinality(D!Attached') + Cardinality(D!Pending("attach")')
             < MaxAttachments + Cardinality(Slots)
    <3>1. CASE s \notin missing /\ D!Attach(r)
      <4>1. D!Attached' = D!Attached \cup {r.id} /\ r.id \notin D!Attached
        BY <1>3, <3>1, AttachmentWrites
      <4>2. s \in D!Pending("attach")
        BY <1>1, <3>1 DEF D!Attach, D!Pending
      <4>3. IsFiniteSet(D!Attached') /\ Cardinality(D!Attached') = Cardinality(D!Attached) + 1
        BY <2>1, <4>1, FS_AddElement
      <4> QED
        BY <2>1, <2>2, <2>3, <2>4, <4>2, <4>3
    <3>2. CASE ~(s \notin missing /\ D!Attach(r))
      <4>1. D!Attached' \subseteq D!Attached
        <5>1. CASE s \notin missing /\ D!Detach(r)
          BY <1>3, <5>1, AttachmentWrites
        <5>2. CASE ~(s \notin missing /\ D!Detach(r))
          <6>1. attachment' = attachment
            BY <1>1, <1>12, <3>2, <5>2 DEF D!Write, D!CreateLabel, D!UpdateLabel, D!ApplyLabel, D!RemoveLabel,
               D!CreateComment, D!UpdateComment, D!DeleteComment, D!AddAssignee, D!RemoveAssignee,
               D!SetDueDate, D!SetCover, D!SetColumn, D!NoOp, D!tables
          <6> QED
            BY <6>1 DEF D!Attached
        <5> QED
          BY <5>1, <5>2
      <4>2. /\ IsFiniteSet(D!Attached') /\ Cardinality(D!Attached') <= Cardinality(D!Attached)
            /\ Cardinality(D!Attached') \in Nat
        BY <2>1, <4>1, FS_Subset, FS_CardinalityType
      <4> QED
        BY <2>1, <2>2, <2>3, <2>4, <4>2
    <3> QED
      BY <3>1, <3>2
  <2> QED
    BY <2>5, <2>6, CountsAgree DEF CapsInv, D!CapsPassedOnlyByRace
<1> QED
  BY <1>6, <1>7, <1>8, <1>9 DEF DetailsInv

\* A request that is rolled back, and the card's own deletion and return, change
\* none of the rows.
LEMMA DetailsAbort == ASSUME DetailsInv, NEW s \in Slots, D!Abort(s) PROVE DetailsInv'
<1>1. /\ detailReq' = [detailReq EXCEPT ![s] = NoRequest] /\ detailReq \in [Slots -> D!Request \cup {NoRequest}]
      /\ UNCHANGED <<card, label, labelled, comment, assignee, attachment, field, watching,
                     detailMinted, detailSaved, detailIssued, detailTold, timeline, overtaken>>
      /\ missing' = missing \ {s}
  BY DEF D!Abort, D!tables, DetailsInv, D!TypeOK
<1>2. RequestsApt' /\ MissesApt' /\ detailReq' \in [Slots -> D!Request \cup {NoRequest}]
  BY <1>1, OthersApt
<1>3. D!TypeOK'
  BY <1>1, <1>2 DEF DetailsInv, D!TypeOK
<1>4. D!EventsTellCard'
  BY <1>1 DEF DetailsInv, D!EventsTellCard, D!Shown, D!LiveComments, D!Attached
<1>5. CapsInv'
  <2>1. /\ IsFiniteSet(assignee) /\ IsFiniteSet(D!Attached)
        /\ Cardinality(assignee) \in Nat /\ Cardinality(D!Attached) \in Nat
    BY FS_CardinalityType DEF DetailsInv, CapsInv
  <2>2. MaxAssignees \in Nat /\ MaxAttachments \in Nat
    BY DetailsAssumption DEF D!DetailsAssumption
  <2> DEFINE P(op) == /\ Cardinality(D!Pending(op)) \in Nat /\ Cardinality(D!Pending(op)') \in Nat
                      /\ Cardinality(Slots) \in Nat
                      /\ Cardinality(D!Pending(op)') <= Cardinality(D!Pending(op))
  <2>3. P("addAssignee") /\ P("attach")
    BY <1>1, PendingChange
  <2>4. assignee' = assignee /\ D!Attached' = D!Attached
    BY <1>1 DEF D!Attached
  <2> QED
    BY <2>1, <2>2, <2>3, <2>4, CountsAgree DEF DetailsInv, CapsInv, D!CapsPassedOnlyByRace
<1> QED
  BY <1>2, <1>3, <1>4, <1>5 DEF DetailsInv

\* A statement that finds nothing to do changes nothing that is counted or told.
LEMMA DetailsMiss == ASSUME DetailsInv, NEW s \in Slots, D!Miss(s) PROVE DetailsInv'
<1>1. /\ missing' = missing \cup {s} /\ D!Running(s)
      /\ detailReq[s].op \in {"applyLabel", "removeLabel", "removeAssignee"}
      /\ UNCHANGED <<card, D!tables, detailMinted, detailSaved, detailReq, detailIssued,
                     detailTold, timeline, overtaken>>
  BY DEF D!Miss, D!FindsNothing
<1>2. D!TypeOK'
  BY <1>1 DEF DetailsInv, D!TypeOK, D!tables
<1>3. RequestsApt' /\ MissesApt'
  BY <1>1 DEF DetailsInv, RequestsApt, MissesApt, Apt, D!Running, D!tables
<1>4. D!EventsTellCard'
  BY <1>1 DEF DetailsInv, D!EventsTellCard, D!Shown, D!LiveComments, D!Attached, D!tables
<1>5. CapsInv'
  BY <1>1, CountsAgree DEF DetailsInv, CapsInv, D!CapsPassedOnlyByRace, D!Pending, D!Running, D!Attached, D!tables
<1> QED
  BY <1>2, <1>3, <1>4, <1>5 DEF DetailsInv

LEMMA DetailsInductive == DetailsInv /\ [D!Next]_D!vars => DetailsInv'
<1> SUFFICES ASSUME DetailsInv, [D!Next]_D!vars PROVE DetailsInv'
  OBVIOUS
<1>1. ASSUME card' \in BOOLEAN,
             UNCHANGED <<D!tables, detailMinted, detailSaved, detailReq, detailIssued,
                         missing, detailTold, timeline, overtaken>>
      PROVE  DetailsInv'
  <2>1. D!TypeOK'
    BY <1>1 DEF DetailsInv, D!TypeOK, D!tables
  <2>2. RequestsApt' /\ MissesApt'
    BY <1>1 DEF DetailsInv, RequestsApt, MissesApt, Apt, D!Running, D!tables
  <2>3. D!EventsTellCard'
    BY <1>1 DEF DetailsInv, D!EventsTellCard, D!Shown, D!LiveComments, D!Attached, D!tables
  <2>4. CapsInv'
    BY <1>1, CountsAgree DEF DetailsInv, CapsInv, D!CapsPassedOnlyByRace, D!Pending, D!Running, D!Attached, D!tables
  <2> QED
    BY <2>1, <2>2, <2>3, <2>4 DEF DetailsInv
<1>2. CASE D!CardChanges
  BY <1>1, <1>2 DEF D!CardChanges, DetailsInv, D!TypeOK
<1>3. CASE UNCHANGED D!vars
  BY <1>1, <1>3 DEF D!vars, DetailsInv, D!TypeOK
<1> QED
  BY <1>2, <1>3, DetailsAdmit, DetailsMiss, DetailsCommit, DetailsAbort DEF D!Next

-----------------------------------------------------------------------------
\* A step of the composition is a step of the details, or one of the checklists,
\* which leaves the details alone but may delete or restore the card.
LEMMA DetailsStep == [FeaturesNext]_<<vars, part, details>> => [D!Next]_D!vars
<1> SUFFICES ASSUME [FeaturesNext]_<<vars, part, details>> PROVE [D!Next]_D!vars
  OBVIOUS
<1>1. CASE D!Next
  BY <1>1
<1>2. CASE Next /\ UNCHANGED details
  <2>1. card' = card \/ card' = ~card
    BY <1>2 DEF Next, Admit, Sweep, Commit, Abort, CardChanges
  <2>2. CASE card' = card
    BY <1>2, <2>2 DEF details, D!vars, D!tables
  <2>3. CASE card' = ~card
    BY <1>2, <2>3 DEF details, D!Next, D!CardChanges, D!tables
  <2> QED
    BY <2>1, <2>2, <2>3
<1>3. CASE UNCHANGED <<vars, part, details>>
  BY <1>3 DEF vars, details, D!vars, D!tables
<1> QED
  BY <1>1, <1>2, <1>3 DEF FeaturesNext

THEOREM DetailsInvariant == FeaturesSpec => []DetailsInv
<1>1. FeaturesInit => D!Init
  BY DEF FeaturesInit
<1> QED
  BY <1>1, DetailsStep, DetailsInitial, DetailsInductive, PTL DEF FeaturesSpec

\* A reader that applies a card's events in the order of their commits has the
\* labels, comments, attachments and columns of the tables, for any number of
\* concurrent requests, though each decides on rows it does not lock; of the
\* assignees it may lack those who were assigned again before a removal committed
\* that had not found them (removeAssignee).
THEOREM EventsTellDetails == FeaturesSpec => []EventsTellCard
<1>1. DetailsInv => EventsTellCard
  BY DEF DetailsInv, EventsTellCard
<1> QED
  BY <1>1, DetailsInvariant, PTL

\* However many requests find room at once, a card has fewer assignees and
\* attachments than the cap and the slots of the server together.
THEOREM CapsHold == FeaturesSpec => []CapsPassedOnlyByRace
<1>1. DetailsInv => CapsPassedOnlyByRace
  BY DEF DetailsInv, CapsInv, CapsPassedOnlyByRace
<1> QED
  BY <1>1, DetailsInvariant, PTL
=============================================================================
