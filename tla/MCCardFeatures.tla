--------------------------- MODULE MCCardFeatures ---------------------------
(* Small instances of Checklists and of CardDetails for TLC: one card, whose *)
(* requests go either to its checklists or to its details.  The two write    *)
(* no common table, so interleaving them would only multiply states.         *)
EXTENDS Checklists, TLC

CONSTANTS
    Labels, Comments, Attachments, Names, Bodies, Values,
    DetailKeys, MaxAssignees, MaxAttachments, MaxDetailRequests,
    Parts       \* the modules that run, a subset of {"checklists", "details"}

VARIABLES
    part,       \* which of the two modules runs
    label, labelled, comment, assignee, attachment, field, watching,
    detailMinted, detailSaved, detailReq, detailIssued, missing, detailTold, timeline, overtaken

D == INSTANCE CardDetails WITH
       Keys <- DetailKeys, MaxRequests <- MaxDetailRequests,
       applied <- labelled, minted <- detailMinted, saved <- detailSaved,
       req <- detailReq, issued <- detailIssued, told <- detailTold

ASSUME DetailsAssumption == D!DetailsAssumption

details == <<label, labelled, comment, assignee, attachment, field, watching,
             detailMinted, detailSaved, detailReq, detailIssued, missing, detailTold,
             timeline, overtaken>>
lists == <<checklist, item, minted, saved, req, issued, swept, told, applied, beside, raced>>

FeaturesInit ==
    /\ Init /\ D!Init
    /\ part \in Parts
    /\ part = "checklists" => label = [l \in Labels |-> Absent] /\ assignee = {}
FeaturesNext ==
    \/ part = "checklists" /\ Next /\ UNCHANGED <<part, details>>
    \/ part = "details" /\ D!Next /\ UNCHANGED <<part, lists>>
FeaturesSpec == FeaturesInit /\ [][FeaturesNext]_<<vars, part, details>>

\* CardDetails' invariants, stated of the composition.
\* Events tell the card's details, and a label's timeline alternates
\* (card-features routers, toOutboxEvent).
EventsTellCard == D!EventsTellCard
\* The caps are passed by a race only (attachments.router.ts, assignees.router.ts).
CapsPassedOnlyByRace == D!CapsPassedOnlyByRace

\* Identifiers of the two parts share model values, so that one small group of
\* permutations is a symmetry of both.
Interchangeable ==
    Permutations(Checklists) \cup Permutations(Items) \cup Permutations(Titles)
    \cup Permutations(DetailKeys) \cup Permutations(Slots)
=============================================================================
