------------------------------ MODULE CreateForms ------------------------------
(***************************************************************************)
(* The forms of a board page that create a card in a list and a list of the  *)
(* board (create-card-form.tsx, create-list-form.tsx): a row under a          *)
(* temporary identifier, a server action, an AbortController that makes the  *)
(* form deaf to the answer, and the event of the created card.  The order of *)
(* the rows is abstracted.                                                  *)
(***************************************************************************)
EXTENDS Naturals, FiniteSets

CONSTANTS
    Requests,    \* submissions, each with its temporary row and what it creates
    Drafts,      \* titles
    None, Over,
    MaxReloads   \* bound

Kinds == {"card", "list"}
Call == [kind : Kinds, title : Drafts, heard : BOOLEAN, applied : BOOLEAN]

FormsAssumption ==
    /\ None \notin Requests \cup Drafts \cup {Over} /\ {None, Over} \cap Call = {}
    /\ MaxReloads \in Nat

VARIABLES
    form,       \* of each kind: open, its text, isSubmittingRef and its last call
    call,       \* the state of each request's server action
    created,    \* the requests whose card or list is in the tables
    wire,       \* created cards whose event has not come
    temp,       \* rows shown under a temporary identifier
    own,        \* rows shown under their own
    reloads,    \* bound
    aborted     \* history: requests that the form stopped to listen for

vars == <<form, call, created, wire, temp, own, reloads, aborted>>

Fresh == [open |-> FALSE, draft |-> None, submitting |-> FALSE, last |-> None]

TypeOK ==
    /\ form \in [Kinds -> [open : BOOLEAN, draft : Drafts \cup {None},
                           submitting : BOOLEAN, last : Requests \cup {None}]]
    /\ call \in [Requests -> Call \cup {None, Over}]
    /\ {created, wire, temp, own, aborted} \subseteq SUBSET Requests

Init ==
    /\ form = [k \in Kinds |-> Fresh]
    /\ call = [r \in Requests |-> None]
    /\ created = {} /\ wire = {} /\ temp = {} /\ own = {}
    /\ reloads = 0 /\ aborted = {}

\* A call that has not ended.
UnderWay(c) == c \notin {None, Over}

Open(k) ==
    /\ ~form[k].open
    /\ form' = [form EXCEPT ![k].open = TRUE]
    /\ UNCHANGED <<call, created, wire, temp, own, reloads, aborted>>

Type(k) ==
    /\ form[k].open
    /\ \E t \in Drafts \ {form[k].draft} : form' = [form EXCEPT ![k].draft = t]
    /\ UNCHANGED <<call, created, wire, temp, own, reloads, aborted>>

\* handleSubmit, to its await.  The form of a list closes, that of a card stays.
Submit(k) ==
    /\ form[k].open /\ form[k].draft # None /\ ~form[k].submitting
    /\ \E r \in Requests :
         /\ call[r] = None
         /\ call' = [call EXCEPT ![r] = [kind |-> k, title |-> form[k].draft,
                                         heard |-> TRUE, applied |-> FALSE]]
         /\ temp' = temp \cup {r}
         /\ form' = [form EXCEPT ![k] = [open |-> k = "card", draft |-> None,
                                         submitting |-> TRUE, last |-> r]]
    /\ UNCHANGED <<created, wire, own, reloads, aborted>>

\* abort() of the last call, which may be over.
Aborting(ks) ==
    LET deaf == {r \in Requests : \E k \in ks : form[k].last = r /\ UnderWay(call[r])} IN
    /\ call' = [r \in Requests |-> IF r \in deaf THEN [call[r] EXCEPT !.heard = FALSE] ELSE call[r]]
    /\ aborted' = aborted \cup deaf

\* handleClose: the text goes, isSubmittingRef stays.
Close(k) ==
    /\ form[k].open
    /\ form' = [form EXCEPT ![k].open = FALSE, ![k].draft = None]
    /\ Aborting({k})
    /\ UNCHANGED <<created, wire, temp, own, reloads>>

\* createCard, createList: the event of a list has a type no client knows.
Apply(r) ==
    /\ UnderWay(call[r]) /\ ~call[r].applied
    /\ call' = [call EXCEPT ![r].applied = TRUE]
    /\ created' = created \cup {r}
    /\ wire' = IF call[r].kind = "card" THEN wire \cup {r} ELSE wire
    /\ UNCHANGED <<form, temp, own, reloads, aborted>>

\* The row keeps its temporary identifier: replaceCard updates a row's title,
\* and replaceList adds a list that is not in listOrder.
Succeed(r) ==
    /\ UnderWay(call[r]) /\ call[r].applied
    /\ call' = [call EXCEPT ![r] = Over]
    /\ form' = IF call[r].heard THEN [form EXCEPT ![call[r].kind].submitting = FALSE] ELSE form
    /\ UNCHANGED <<created, wire, temp, own, reloads, aborted>>

\* Variant: the row goes when the answer of a refusal comes, not of an error.
TempAfterFailureKept(r) == temp

TempAfterFailure(r) == temp \ {r}

\* Refused, or lost: before it arrived, after it was applied, or to be applied
\* later.  The text comes back, over whatever has been typed since.
Fail(r) ==
    /\ UnderWay(call[r])
    /\ \/ call' = [call EXCEPT ![r] = Over]
       \/ ~call[r].applied /\ call' = [call EXCEPT ![r].heard = FALSE]
    /\ IF call[r].heard
       THEN /\ temp' = TempAfterFailure(r)
            /\ form' = [form EXCEPT ![call[r].kind].draft = call[r].title,
                                    ![call[r].kind].submitting = FALSE,
                                    ![call[r].kind].open = @ \/ call[r].kind = "list"]
       ELSE UNCHANGED <<temp, form>>
    /\ UNCHANGED <<created, wire, own, reloads, aborted>>

\* card.created: a second row.
Deliver(r) ==
    /\ r \in wire
    /\ wire' = wire \ {r} /\ own' = own \cup {r}
    /\ UNCHANGED <<form, call, created, temp, reloads, aborted>>

\* A page of the server replaces the store; the forms go on.
Reload ==
    /\ reloads < MaxReloads /\ reloads' = reloads + 1
    /\ temp' = {} /\ own' = created /\ wire' = {}
    /\ UNCHANGED <<form, call, created, aborted>>

\* The route is left and entered again.
Leave ==
    /\ reloads < MaxReloads /\ reloads' = reloads + 1
    /\ temp' = {} /\ own' = created /\ wire' = {}
    /\ form' = [k \in Kinds |-> Fresh]
    /\ Aborting(Kinds)
    /\ UNCHANGED created

Next ==
    \/ \E k \in Kinds : Open(k) \/ Type(k) \/ Submit(k) \/ Close(k)
    \/ \E r \in Requests : Apply(r) \/ Succeed(r) \/ Fail(r) \/ Deliver(r)
    \/ Reload \/ Leave

Spec == Init /\ [][Next]_vars
-----------------------------------------------------------------------------
(* What must hold.                                                           *)

\* A temporary row stands for a call whose answer is awaited or for a row the
\* server has, and a form that refuses a submission awaits an answer, unless the
\* form was closed on a call under way: that leaves the row to the next page and
\* the form refusing for good (finally of handleSubmit, handleClose).
OrphansOnlyByClose ==
    /\ \A r \in temp \ aborted : UnderWay(call[r]) \/ r \in created
    /\ \A k \in Kinds : form[k].submitting =>
         \/ form[k].last \in aborted
         \/ UnderWay(call[form[k].last]) /\ call[form[k].last].heard
=============================================================================
