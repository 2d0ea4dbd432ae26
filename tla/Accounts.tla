------------------------------ MODULE Accounts ------------------------------
(***************************************************************************)
(* Accounts: signing up, verifying an address, resetting a password and      *)
(* signing in.  The route handlers use no transaction: every statement of    *)
(* theirs commits alone, requests interleave between statements, and one     *)
(* that fails or dies leaves behind what it had written.                     *)
(*                                                                         *)
(* A signup's request stands for the identifier of its user and for the      *)
(* password it sets; a reset's request for the new password.  Users are never *)
(* deleted.  The rate limiter only turns requests away before they start.    *)
(***************************************************************************)
EXTENDS Naturals, Sequences

CONSTANTS
    Emails,       \* normalised addresses
    Slugs,        \* slugs that the letters of a display name can yield
    Requests,
    MaxLinks,     \* bound: links issued
    MayFail,      \* whether statements fail and processes die
    None

ASSUME AccountsAssumption == MaxLinks \in Nat /\ MayFail \in BOOLEAN /\ Requests \cap Slugs = {} /\ None \notin Requests \cup Slugs

VARIABLES
    users,        \* table users
    workspaces,   \* table workspaces: personal ones, by the user they are for
    owners,       \* table workspace_members: users with the OWNER row of their own
    link,         \* table verification_tokens, with what became of each row
    req,          \* requests being handled, or answered
    sessions,     \* users holding a signed session cookie
    uses,         \* history: requests that wrote on the strength of a link
    together,     \* history: links two requests had found before either deleted them
    overlap       \* history: identifiers for which two issues overlapped

vars == <<users, workspaces, owners, link, req, sessions, uses, together, overlap>>

Kinds == {"verify", "reset"}
User == [id : Requests, email : Emails, password : Requests, status : {"unverified", "verified"}]
Link == [kind : Kinds, email : Emails, state : {"live", "replaced", "burned"},
         age : {"valid", "expired"}, mail : {"unsent", "sent"}]
Links == 1..Len(link)
Identifier == Kinds \X Emails

Operations == {"signup", "resend", "forgot", "verify", "reset"}
Kind(op) == IF op \in {"forgot", "reset"} THEN "reset" ELSE "verify"
Steps == {"user", "workspace", "member", "clear", "issue", "mail", "burn", "write"}
Request ==
    [at : Steps \cup {"new", "over"}, op : Operations, email : Emails \cup {None},
     slug : Slugs \cup Requests \cup {None}, link : 0..MaxLinks, answer : {"none", "ok", "refused", "failed"}]

TypeOK ==
    /\ users \subseteq User
    /\ workspaces \subseteq [slug : Slugs \cup Requests, for : Requests]
    /\ owners \subseteq Requests
    /\ link \in Seq(Link) /\ Len(link) <= MaxLinks
    /\ req \in [Requests -> Request]
    /\ sessions \subseteq Requests
    /\ uses \in [1..MaxLinks -> SUBSET Requests]
    /\ together \subseteq 1..MaxLinks
    /\ overlap \subseteq Identifier

NewRequest ==
    [at |-> "new", op |-> "signup", email |-> None, slug |-> None, link |-> 0, answer |-> "none"]

Init ==
    /\ users = {} /\ workspaces = {} /\ owners = {} /\ link = <<>>
    /\ req = [r \in Requests |-> NewRequest]
    /\ sessions = {}
    /\ uses = [l \in 1..MaxLinks |-> {}]
    /\ together = {} /\ overlap = {}

-----------------------------------------------------------------------------
At(r, s) == req[r].at = s
Goes(r, s) == req' = [req EXCEPT ![r].at = s]
Answers(r, a) == req' = [req EXCEPT ![r] = [@ EXCEPT !.at = "over", !.answer = a]]

Live(kind, email) == {l \in Links : link[l].state = "live" /\ link[l].kind = kind /\ link[l].email = email}
OfAddress(e) == {u \in users : u.email = e}

Tables == <<users, workspaces, owners>>
Histories == <<uses, together, overlap>>

-----------------------------------------------------------------------------
(* Signing up.                                                              *)

StartSignup(r) ==
    /\ At(r, "new")
    /\ \E e \in Emails, s \in Slugs \cup {r} :
         req' = [req EXCEPT ![r] =
           IF OfAddress(e) = {}
           THEN [NewRequest EXCEPT !.at = "user", !.email = e, !.slug = s]
           ELSE [NewRequest EXCEPT !.at = "over", !.email = e, !.answer = "refused"]]
    /\ UNCHANGED <<Tables, link, sessions, Histories>>

\* idx_users_email_unique
AddressFree(e) == OfAddress(e) = {}

InsertUser(r) ==
    /\ At(r, "user")
    /\ IF AddressFree(req[r].email)
       THEN /\ users' = users \cup {[id |-> r, email |-> req[r].email, password |-> r, status |-> "unverified"]}
            /\ Goes(r, "workspace")
       ELSE Answers(r, "failed") /\ UNCHANGED users
    /\ UNCHANGED <<workspaces, owners, link, sessions, Histories>>

\* idx_workspaces_slug_unique
SlugFree(s) == \A w \in workspaces : w.slug # s

\* Variant: a slug that is taken is passed over (ON CONFLICT DO NOTHING).
InsertWorkspaceIfFree(r) ==
    /\ At(r, "workspace")
    /\ workspaces' = workspaces \cup {w \in {[slug |-> req[r].slug, for |-> r]} : SlugFree(w.slug)}
    /\ Goes(r, "member")
    /\ UNCHANGED <<users, owners, link, sessions, Histories>>

InsertWorkspace(r) ==
    /\ At(r, "workspace")
    /\ IF SlugFree(req[r].slug)
       THEN workspaces' = workspaces \cup {[slug |-> req[r].slug, for |-> r]} /\ Goes(r, "member")
       ELSE Answers(r, "failed") /\ UNCHANGED workspaces
    /\ UNCHANGED <<users, owners, link, sessions, Histories>>

InsertMember(r) ==
    /\ At(r, "member")
    /\ owners' = owners \cup {r}
    /\ Goes(r, "clear")
    /\ UNCHANGED <<users, workspaces, link, sessions, Histories>>

-----------------------------------------------------------------------------
(* Issuing a link: delete the identifier's rows, insert one, send the mail.   *)

\* A verified address gets no second verification link.
Wanted(op, u) == op = "forgot" \/ u.status = "unverified"

StartIssue(r, op) ==
    /\ At(r, "new")
    /\ \E e \in Emails :
         req' = [req EXCEPT ![r] =
           IF \E u \in OfAddress(e) : Wanted(op, u)
           THEN [NewRequest EXCEPT !.at = "clear", !.op = op, !.email = e]
           ELSE [NewRequest EXCEPT !.at = "over", !.op = op, !.email = e, !.answer = "ok"]]
    /\ UNCHANGED <<Tables, link, sessions, Histories>>

StartResend(r) == StartIssue(r, "resend")
StartForgot(r) == StartIssue(r, "forgot")

\* Requests between the deletion of an identifier's rows and their own row.
Issuing(kind, e) == {r \in Requests : At(r, "issue") /\ Kind(req[r].op) = kind /\ req[r].email = e}

\* Variant: nothing is deleted before a link is issued.
ReplacedNever(kind, e) == {}

\* DELETE ... WHERE identifier
Replaced(kind, e) == Live(kind, e)

ClearLinks(r) ==
    LET k == Kind(req[r].op)
        e == req[r].email
    IN
    /\ At(r, "clear")
    /\ link' = [l \in Links |-> IF l \in Replaced(k, e) THEN [link[l] EXCEPT !.state = "replaced"] ELSE link[l]]
    /\ overlap' = IF Issuing(k, e) = {} THEN overlap ELSE overlap \cup {<<k, e>>}
    /\ Goes(r, "issue")
    /\ UNCHANGED <<Tables, sessions, uses, together>>

NewLink(q) ==
    [kind |-> Kind(q.op), email |-> q.email, state |-> "live", age |-> "valid", mail |-> "unsent"]

IssueLink(r) ==
    /\ At(r, "issue")
    /\ Len(link) < MaxLinks
    /\ link' = Append(link, NewLink(req[r]))
    /\ req' = [req EXCEPT ![r] = [@ EXCEPT !.at = "mail", !.link = Len(link) + 1]]
    /\ UNCHANGED <<Tables, sessions, Histories>>

\* A mail that cannot be sent is logged; the answer is the same.
SendMail(r) ==
    /\ At(r, "mail")
    /\ \E m \in {"unsent", "sent"} : link' = [link EXCEPT ![req[r].link].mail = m]
    /\ Answers(r, "ok")
    /\ UNCHANGED <<Tables, sessions, Histories>>

-----------------------------------------------------------------------------
(* Opening a link that came by mail.                                         *)

\* Variant: the prefix of the identifier is not looked at.
RowFoundAnyKind(kind, l) == link[l].state = "live"

\* The row, if its identifier has the prefix of the route.
RowFound(kind, l) == link[l].state = "live" /\ link[l].kind = kind

StartOpen(r, op) ==
    /\ At(r, "new")
    /\ \E l \in {l \in Links : link[l].mail = "sent"} :
         LET opening == [NewRequest EXCEPT !.op = op, !.email = link[l].email, !.link = l] IN
         /\ req' = [req EXCEPT ![r] =
              IF RowFound(Kind(op), l)
              THEN [opening EXCEPT !.at = "burn"]
              ELSE [opening EXCEPT !.at = "over", !.answer = "refused"]]
         /\ together' = IF \E x \in Requests : At(x, "burn") /\ req[x].link = l
                        THEN together \cup {l} ELSE together
    /\ UNCHANGED <<Tables, link, sessions, uses, overlap>>

StartVerify(r) == StartOpen(r, "verify")
StartReset(r) == StartOpen(r, "reset")

\* Variant: the row is deleted only when it has expired.
BurntIfExpired(l) == IF link[l].age = "expired" THEN "burned" ELSE link[l].state

\* The row is deleted whatever happens next.
Burnt(l) == "burned"

BurnLink(r) ==
    LET l == req[r].link IN
    /\ At(r, "burn")
    /\ link' = [link EXCEPT ![l].state = Burnt(l)]
    /\ IF link[l].age = "expired" THEN Answers(r, "refused") ELSE Goes(r, "write")
    /\ UNCHANGED <<Tables, sessions, Histories>>

Written(u, r) ==
    IF req[r].op = "verify" THEN [u EXCEPT !.status = "verified"] ELSE [u EXCEPT !.password = r]

\* The user is looked up and updated by its identifier.
WriteUser(r) ==
    /\ At(r, "write")
    /\ users' = {IF u.email = req[r].email THEN Written(u, r) ELSE u : u \in users}
    /\ uses' = [uses EXCEPT ![req[r].link] = @ \cup {r}]
    /\ Answers(r, "ok")
    /\ UNCHANGED <<workspaces, owners, link, sessions, together, overlap>>

-----------------------------------------------------------------------------
(* A statement fails or the process dies: what was written stays.             *)

Fail(r) ==
    /\ MayFail
    /\ req[r].at \in Steps
    /\ Answers(r, "failed")
    /\ UNCHANGED <<Tables, link, sessions, Histories>>

Expire(l) ==
    /\ link[l].age = "valid"
    /\ link' = [link EXCEPT ![l].age = "expired"]
    /\ UNCHANGED <<Tables, req, sessions, Histories>>

\* authorize: a verified account, with its password.
SignIn ==
    /\ \E u \in {u \in users : u.status = "verified"} : sessions' = sessions \cup {u.id}
    /\ UNCHANGED <<Tables, link, req, Histories>>

Next ==
    \/ \E r \in Requests :
         \/ StartSignup(r) \/ InsertUser(r) \/ InsertWorkspace(r) \/ InsertMember(r)
         \/ StartResend(r) \/ StartForgot(r) \/ ClearLinks(r) \/ IssueLink(r) \/ SendMail(r)
         \/ StartVerify(r) \/ StartReset(r) \/ BurnLink(r) \/ WriteUser(r) \/ Fail(r)
    \/ \E l \in Links : Expire(l)
    \/ SignIn

Spec == Init /\ [][Next]_vars

-----------------------------------------------------------------------------
(* What must hold.                                                          *)

\* getWebSession finds the personal workspace and the membership row.
Enters(id) == id \in owners /\ \E w \in workspaces : w.for = id

\* Two signups with one address both find it free; one account comes of them,
\* and one personal workspace of each account.
OneAccountPerAddress ==
    /\ \A u, v \in users : u.email = v.email => u = v
    /\ \A w, x \in workspaces : w.for = x.for \/ w.slug = x.slug => w = x

\* A signup answered 201 left an account that can enter the application once
\* its address is verified, whatever other signups did in between.
SignupComplete ==
    \A r \in Requests :
      req[r].op = "signup" /\ req[r].answer = "ok" =>
        Enters(r) /\ \E u \in users : u.id = r /\ u.email = req[r].email

\* An address is verified, and a password replaced, only by a request that
\* opened a link of the right kind mailed to that address; and only verified
\* accounts are signed in to.
ChangedByItsLink ==
    /\ \A u \in users :
         /\ u.status = "verified" => \E l \in Links : uses[l] # {} /\ link[l].kind = "verify" /\ link[l].email = u.email
         /\ u.password # u.id =>
              \E l \in Links : u.password \in uses[l] /\ link[l].kind = "reset" /\ link[l].email = u.email
    /\ \A id \in sessions : \E u \in users : u.id = id /\ u.status = "verified"

\* A link that is asked for again replaces the ones before it: two are live
\* only after two requests for them overlapped.
OneLiveLink ==
    \A i \in Identifier \ overlap : \A k, l \in Live(i[1], i[2]) : k = l

\* A link works once, unless two requests had found its row before either
\* deleted it.
LinkWorksOnce ==
    \A l \in Links \ together : \A r, s \in uses[l] : r = s
=============================================================================
