----------------------------- MODULE TitleEditors -----------------------------
(***************************************************************************)
(* The title of a card and the two editors of a board page that write it:   *)
(* the one of the card modal, which saves as the user types and when it is   *)
(* left (useFieldSync in CardModal.tsx), and the one on the card itself      *)
(* (CardItem.tsx).  Both change the store at once, send a server action and  *)
(* put an older title back when it fails.  The modal is opened, changed to   *)
(* another card and closed by navigations, which may bring a page that the   *)
(* server rendered a while ago.                                             *)
(*                                                                         *)
(* Other users' titles reach the store by a page only: the server's          *)
(* card.updated has no "changes", on which the reducer throws (applyCardUpdated). *)
(***************************************************************************)
EXTENDS Naturals, Sequences, FiniteSets

CONSTANTS
    Cards, Titles,
    Gone, None,
    MaxTyped, MaxSaves, MaxNavigations, MaxRemote    \* bounds

EditorsAssumption ==
    /\ Gone \notin Titles /\ None \notin Titles \cup Cards \cup {Gone}
    /\ {MaxTyped, MaxSaves, MaxNavigations, MaxRemote} \subseteq Nat

VARIABLES
    title,     \* table cards: the title of each live card
    shown,     \* store.cards: the title the board shows
    page,      \* the navigation under way, with the titles its page shows
    modal,     \* the editor of the modal
    text,      \* the text in each card's own editor, if it is open
    saving,    \* isSavingRef of each card
    calls,     \* updateCardAction calls that have not ended, oldest first
    used,      \* bounds: texts typed, saves, navigations, other users' changes
    drifted,   \* history: cards whose store and server went apart
    carried,   \* history: the modal changed its card with text it had not saved
    lost       \* history: a text left the modal's editor and was never sent

vars == <<title, shown, page, modal, text, saving, calls, used, drifted, carried, lost>>

\* of: the card its text was typed for; unsent: typed since the last save;
\* cut: an answer has reset isDirtyRef since.
Closed == [card |-> None, value |-> None, dirty |-> FALSE, timer |-> None,
           of |-> None, unsent |-> FALSE, cut |-> FALSE]

Live(c) == shown[c] # Gone

\* The editor as it is mounted, by the page's ?card=.
Opened(c, sh) == [Closed EXCEPT !.card = c, !.value = sh[c]]

Call == [from : {"modal", "card"}, card : Cards, of : Cards, title : Titles, old : Titles,
         heard : BOOLEAN, free : BOOLEAN, applied : BOOLEAN]

TypeOK ==
    /\ title \in [Cards -> Titles \cup {Gone}] /\ shown \in [Cards -> Titles \cup {Gone}]
    /\ page = None \/ page.to \in Cards \cup {None}
    /\ modal.card \in Cards \cup {None} /\ modal.value \in Titles \cup {None}
    /\ modal.timer \in Titles \cup {None}
    /\ text \in [Cards -> Titles \cup {None}] /\ saving \in [Cards -> BOOLEAN]
    /\ calls \in Seq(Call)
    /\ drifted \subseteq Cards /\ carried \in BOOLEAN /\ lost \in BOOLEAN

Init ==
    /\ title \in [Cards -> Titles \cup {Gone}] /\ shown = title
    /\ page = None
    /\ modal \in {Closed} \cup {Opened(c, shown) : c \in {d \in Cards : Live(d)}}
    /\ text = [c \in Cards |-> None] /\ saving = [c \in Cards |-> FALSE]
    /\ calls = <<>>
    /\ used = [typed |-> 0, saves |-> 0, navigations |-> 0, remote |-> 0]
    /\ drifted = {} /\ carried = FALSE /\ lost = FALSE

Within(f, max) == used[f] < max
Count(f) == used' = [used EXCEPT ![f] = @ + 1]
-----------------------------------------------------------------------------
(* The store and what its editors make of a change.                          *)

\* updateCard of the store: the reducer of an optimistic card.updated.
Show(c, t) == shown' = [shown EXCEPT ![c] = t]

\* External Sync: an editor that is not dirty takes the title shown.
Follow(m, sh) ==
    IF m.card # None /\ ~m.dirty /\ sh[m.card] # shown[m.card] THEN [m EXCEPT !.value = sh[m.card]] ELSE m

\* A save is answered to its caller only while no later one, no other card and
\* no other instance of the editor came after it (saveVersionRef, isMountedRef).
Superseded(cs) == [i \in DOMAIN cs |-> IF cs[i].from = "modal" THEN [cs[i] EXCEPT !.heard = FALSE] ELSE cs[i]]

NewCall(from, c, of, t, heard) ==
    [from |-> from, card |-> c, of |-> of, title |-> t, old |-> shown[c],
     heard |-> heard, free |-> FALSE, applied |-> FALSE]
-----------------------------------------------------------------------------
(* The modal's editor.                                                       *)

\* handleChange
Type ==
    /\ modal.card # None
    /\ Within("typed", MaxTyped) /\ Count("typed")
    /\ \E t \in Titles \ {modal.value} :
         modal' = [modal EXCEPT !.value = t, !.dirty = TRUE, !.timer = t,
                                !.of = modal.card, !.unsent = TRUE, !.cut = FALSE]
    /\ UNCHANGED <<title, shown, page, text, saving, calls, drifted, carried, lost>>

\* saveToNetwork, called with the editor in state m.
SaveToNetwork(m, t) ==
    IF t = shown[m.card]
    THEN /\ modal' = [m EXCEPT !.dirty = FALSE, !.unsent = FALSE]
         /\ UNCHANGED <<shown, calls, used>>
    ELSE /\ Within("saves", MaxSaves) /\ Count("saves")
         /\ Show(m.card, t)
         /\ modal' = Follow([m EXCEPT !.unsent = FALSE], shown')
         /\ calls' = Append(Superseded(calls), NewCall("modal", m.card, m.of, t, TRUE))

\* The debounce timer, 800 ms after the last key.
TimerFires ==
    /\ modal.timer # None
    /\ SaveToNetwork([modal EXCEPT !.timer = None], modal.timer)
    /\ UNCHANGED <<title, page, text, saving, drifted, carried, lost>>

\* handleBlur
Blur ==
    /\ modal.card # None
    /\ LET m == [modal EXCEPT !.timer = None] IN
       IF modal.dirty THEN SaveToNetwork(m, modal.value)
       ELSE modal' = m /\ UNCHANGED <<shown, calls, used>>
    /\ UNCHANGED <<title, page, text, saving, drifted, carried, lost>>

\* Variant: the cleanup only clears the timers.
SentByTimerOnly(m) == FALSE

\* The cleanup of useFieldSync: what is dirty is sent, and nothing shows it.
Sent(m) == m.dirty
AfterCleanup(m) ==
    IF Sent(m) THEN Append(Superseded(calls), NewCall("modal", m.card, m.of, m.value, FALSE))
    ELSE Superseded(calls)
HiddenBy(m) == IF Sent(m) /\ m.value # shown[m.card] THEN {m.card} ELSE {}

\* The editor leaves its card: it is unmounted, or shows card c from now on.
\* The same instance goes on, and with it isDirtyRef and the text.
LeaveFor(c, sh) ==
    /\ calls' = AfterCleanup(modal)
    /\ lost' = (lost \/ (modal.unsent /\ ~modal.cut /\ ~Sent(modal)))
    /\ carried' = (carried \/ (c # None /\ modal.dirty))
    /\ modal' = IF c = None THEN Closed
                ELSE [modal EXCEPT !.card = c, !.timer = None, !.unsent = FALSE,
                                   !.value = IF modal.dirty THEN @ ELSE sh[c]]
-----------------------------------------------------------------------------
(* The editor on the card.                                                   *)

\* The modal covers the board; a field left is saved before another is entered.
StartEdit ==
    /\ modal.card = None
    /\ \E c \in Cards :
         /\ Live(c) /\ text[c] = None
         /\ \A d \in Cards : text[d] = None \/ saving[d]
         /\ text' = [text EXCEPT ![c] = shown[c]]
    /\ UNCHANGED <<title, shown, page, modal, saving, calls, used, drifted, carried, lost>>

TypeOnCard ==
    /\ modal.card = None
    /\ Within("typed", MaxTyped) /\ Count("typed")
    /\ \E c \in Cards : \E t \in Titles \ {text[c]} :
         text[c] # None /\ text' = [text EXCEPT ![c] = t]
    /\ UNCHANGED <<title, shown, page, modal, saving, calls, drifted, carried, lost>>

Escape(c) ==
    /\ text[c] # None
    /\ text' = [text EXCEPT ![c] = None]
    /\ UNCHANGED <<title, shown, page, modal, saving, calls, used, drifted, carried, lost>>

\* handleSave, of Enter or of leaving the field.
SaveOnCard(c) ==
    /\ text[c] # None /\ ~saving[c]
    /\ IF text[c] = shown[c]
       THEN text' = [text EXCEPT ![c] = None] /\ UNCHANGED <<shown, modal, saving, calls, used>>
       ELSE /\ Within("saves", MaxSaves) /\ Count("saves")
            /\ Show(c, text[c]) /\ modal' = Follow(modal, shown')
            /\ saving' = [saving EXCEPT ![c] = TRUE]
            /\ calls' = Append(calls, NewCall("card", c, c, text[c], TRUE))
            /\ UNCHANGED text
    /\ UNCHANGED <<title, page, drifted, carried, lost>>

\* The card is shown in another list: a new instance of its editor.
CardRemounts(c) ==
    /\ text[c] # None \/ saving[c]
    /\ text' = [text EXCEPT ![c] = None] /\ saving' = [saving EXCEPT ![c] = FALSE]
    /\ calls' = [i \in DOMAIN calls |-> IF calls[i].from = "card" /\ calls[i].card = c
                                        THEN [calls[i] EXCEPT !.heard = FALSE] ELSE calls[i]]
    /\ UNCHANGED <<title, shown, page, modal, used, drifted, carried, lost>>
-----------------------------------------------------------------------------
(* The calls.  The client runs its server actions one at a time; a navigation *)
(* lets the next overtake the one under way.                                 *)

Waiting(c) == {i \in DOMAIN calls : calls[i].card = c /\ ~calls[i].applied}
Without(i) == SubSeq(calls, 1, i - 1) \o SubSeq(calls, i + 1, Len(calls))

\* updateCard of the server: the last write wins, no revision is sent.
Apply(i) ==
    LET r == calls[i] IN
    /\ ~r.applied /\ \A j \in 1..(i - 1) : calls[j].free
    /\ title[r.card] # Gone
    /\ title' = [title EXCEPT ![r.card] = r.title]
    /\ calls' = [calls EXCEPT ![i].applied = TRUE]
    /\ drifted' = IF \E j \in Waiting(r.card) : j < i THEN drifted \cup {r.card} ELSE drifted
    /\ UNCHANGED <<shown, page, modal, text, saving, used, carried, lost>>

\* resetEditState, of the instance that called.
Reset(r) ==
    IF r.from = "card" /\ r.heard
    THEN text' = [text EXCEPT ![r.card] = None] /\ saving' = [saving EXCEPT ![r.card] = FALSE]
    ELSE UNCHANGED <<text, saving>>

\* The answer resets isDirtyRef, also of a text typed since the call.
Succeed(i) ==
    LET r == calls[i] IN
    /\ r.applied
    /\ calls' = Without(i)
    /\ modal' = IF r.from = "modal" /\ r.heard THEN [modal EXCEPT !.dirty = FALSE, !.cut = TRUE] ELSE modal
    /\ Reset(r)
    /\ UNCHANGED <<title, shown, page, used, drifted, carried, lost>>

\* Variant: the editor on the card does not roll back.
RollsBackInModalOnly(r) == r.from = "modal" /\ r.heard

\* The card's editor rolls back whatever came after; the modal's, its last save.
RollsBack(r) == r.from = "card" \/ r.heard

\* The call is refused, or lost: before it arrived, after it was applied, or on
\* its way, to be applied later.
Fail(i) ==
    LET r == calls[i]
        back == RollsBack(r) /\ Live(r.card) IN
    /\ r.applied \/ \A j \in 1..(i - 1) : calls[j].free
    /\ shown' = IF back THEN [shown EXCEPT ![r.card] = r.old] ELSE shown
    /\ modal' = IF r.from = "modal" /\ r.heard
                THEN [modal EXCEPT !.value = r.old, !.dirty = FALSE, !.cut = TRUE]
                ELSE Follow(modal, shown')
    /\ Reset(r)
    /\ \E late \in BOOLEAN :
         /\ late => ~r.applied /\ title[r.card] # Gone
         /\ calls' = IF late THEN [calls EXCEPT ![i].free = TRUE, ![i].heard = FALSE, ![i].from = "modal"]
                     ELSE Without(i)
         /\ drifted' = IF \/ r.from = "card" \/ r.heard
                       THEN IF r.applied \/ late \/ Waiting(r.card) \ {i} # {}
                            THEN drifted \cup {r.card} ELSE drifted
                       ELSE IF r.applied \/ late THEN drifted ELSE drifted \cup {r.card}
    /\ UNCHANGED <<title, page, used, carried, lost>>
-----------------------------------------------------------------------------
(* Navigations, and the other users.                                         *)

\* A link, the modal's close or the browser's back.
Navigate ==
    /\ Within("navigations", MaxNavigations) /\ Count("navigations")
    /\ \E c \in Cards \cup {None} : c # modal.card /\ page' = [to |-> c, titles |-> None]
    /\ calls' = IF calls = <<>> THEN calls ELSE [calls EXCEPT ![1].free = TRUE]
    /\ UNCHANGED <<title, shown, modal, text, saving, drifted, carried, lost>>

\* getBoardData
Render ==
    /\ page # None /\ page.titles = None
    /\ page' = [page EXCEPT !.titles = title]
    /\ UNCHANGED <<title, shown, modal, text, saving, calls, used, drifted, carried, lost>>

\* The page arrives.  Only if its lists have other cards than the page before
\* is the store replaced (useHydrateBoard), whatever else has been saved since.
Arrive ==
    /\ page # None /\ page.titles # None
    /\ \E sh \in {shown, page.titles} :
         LET stays == page.to # None /\ sh[page.to] # Gone
             c == IF stays THEN page.to ELSE None IN
         /\ shown' = sh
         /\ IF modal.card = None
            THEN /\ modal' = IF c = None THEN Closed ELSE Opened(c, sh)
                 /\ UNCHANGED <<calls, carried, lost>>
            ELSE IF modal.card # c THEN LeaveFor(c, sh)
            ELSE modal' = Follow(modal, sh) /\ UNCHANGED <<calls, carried, lost>>
         /\ text' = [d \in Cards |-> IF sh[d] = Gone THEN None ELSE text[d]]
         /\ saving' = [d \in Cards |-> saving[d] /\ sh[d] # Gone]
         /\ drifted' = LET hidden == IF modal.card \notin {None, c} THEN HiddenBy(modal) ELSE {} IN
              IF sh = shown /\ sh # page.titles THEN drifted \cup hidden
              ELSE {d \in Cards : sh[d] # title[d] \/ \E i \in DOMAIN calls' : calls'[i].card = d}
    /\ page' = None
    /\ UNCHANGED <<title, used>>

RemoteChange ==
    /\ Within("remote", MaxRemote) /\ Count("remote")
    /\ \E c \in Cards, t \in Titles \cup {Gone} :
         /\ title[c] \notin {Gone, t}
         /\ title' = [title EXCEPT ![c] = t]
         /\ drifted' = drifted \cup {c}
    /\ UNCHANGED <<shown, page, modal, text, saving, calls, carried, lost>>

\* A card.deleted that the reducer does not skip as older than the card shown.
DeletionArrives(c) ==
    /\ title[c] = Gone /\ Live(c)
    /\ Show(c, Gone)
    /\ text' = [text EXCEPT ![c] = None] /\ saving' = [saving EXCEPT ![c] = FALSE]
    /\ IF modal.card = c THEN LeaveFor(None, shown') ELSE UNCHANGED <<modal, calls, carried, lost>>
    /\ UNCHANGED <<title, page, used, drifted>>

Next ==
    \/ Type \/ TimerFires \/ Blur
    \/ StartEdit \/ TypeOnCard
    \/ \E c \in Cards : Escape(c) \/ SaveOnCard(c) \/ CardRemounts(c) \/ DeletionArrives(c)
    \/ \E i \in DOMAIN calls : Apply(i) \/ Succeed(i) \/ Fail(i)
    \/ Navigate \/ Render \/ Arrive
    \/ RemoteChange

Spec == Init /\ [][Next]_vars
-----------------------------------------------------------------------------
(* What must hold.                                                           *)

\* What a card's title will be once the calls under way have been applied.
Final(c) == IF Waiting(c) = {} THEN title[c]
            ELSE LET last == CHOOSE i \in Waiting(c) : \A j \in Waiting(c) : j <= i IN calls[last].title

\* The board shows the title the server has or is being sent, unless, since the
\* last page, another user changed it, an answer was lost after the call had
\* arrived, a save failed while another was under way or with nobody listening,
\* calls overtook each other, or a page brought titles older than a save
\* (saveToNetwork in CardModal.tsx, handleSave in CardItem.tsx).
ShownIsSaved == \A c \in Cards \ drifted : shown[c] = Final(c)

\* A text typed in the modal is sent, unless the answer to an earlier save reset
\* isDirtyRef under it, and to the card it was typed for, unless the modal took
\* it along to another card (handleBlur and the cleanup of useFieldSync).
TypedTextKept ==
    /\ ~lost
    /\ modal.unsent => modal.dirty \/ modal.cut
    /\ carried \/ \A i \in DOMAIN calls : calls[i].of = calls[i].card
=============================================================================
