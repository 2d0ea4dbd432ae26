----------------------------- MODULE MCBoardView -----------------------------
(* Small instances for TLC of what a browser shows of a board: of its cards   *)
(* (BoardView), of a card's title under its two editors (TitleEditors) and of *)
(* what its forms create (CreateForms).  The three write different parts of   *)
(* the store, so interleaving them would only multiply states: part says      *)
(* which of them runs.                                                       *)
EXTENDS BoardView, TLC

CONSTANTS
    Titles, Gone, MaxTyped, MaxSaves, MaxNavigations, MaxOthers,
    Requests, Drafts, Over, MaxReloads

VARIABLES
    part,
    title, shown, page, modal, text, saving, calls, tried, drifted, carried, lost,
    form, call, created, events, temp, own, reloads, aborted

T == INSTANCE TitleEditors WITH MaxRemote <- MaxOthers, used <- tried
F == INSTANCE CreateForms WITH wire <- events

ASSUME EditorsAssumption == T!EditorsAssumption
ASSUME FormsAssumption == F!FormsAssumption

titles == <<title, shown, page, modal, text, saving, calls, tried, drifted, carried, lost>>
forms == <<form, call, created, events, temp, own, reloads, aborted>>

\* A part that does not run starts in one state only.
ShownInit ==
    /\ part \in {"cards", "titles", "forms"}
    /\ Init /\ T!Init /\ F!Init
    /\ part # "cards" => \A c \in Cards : srv[c] = Absent
    /\ part # "titles" => \A c \in Cards : title[c] = Gone

ShownNext ==
    \/ part = "cards" /\ Next /\ UNCHANGED <<part, titles, forms>>
    \/ part = "titles" /\ T!Next /\ UNCHANGED <<part, vars, forms>>
    \/ part = "forms" /\ F!Next /\ UNCHANGED <<part, vars, titles>>

ShownSpec == ShownInit /\ [][ShownNext]_<<part, vars, titles, forms>>

\* The invariants of TitleEditors and CreateForms, stated of the composition.
\* The board shows the title saved (saveToNetwork, handleSave).
ShownIsSaved == T!ShownIsSaved
\* What is typed in the modal is sent (useFieldSync).
TypedTextKept == T!TypedTextKept
\* Temporary rows and refusing forms come of a close only (handleSubmit).
OrphansOnlyByClose == F!OrphansOnlyByClose

\* Requests share model values with cards, titles and drafts with lists, so that
\* one small group of permutations is a symmetry of all parts.
MCSymmetry == Permutations(Cards) \cup Permutations(Lists)
=============================================================================
