------------------------ MODULE AccountsBoardsProofs ------------------------
(***************************************************************************)
(* Proofs about modules Accounts and Boards.  The inductive invariant of the *)
(* accounts says what a request has written when it is at a step: which rows *)
(* a signup has behind it, which link a request that opens one holds, and    *)
(* who may be between the deletion of an identifier's links and the          *)
(* insertion of its own.  That of a board says that the owner's one row is   *)
(* out of reach of every request already admitted, and what the events told  *)
(* of a user who has one row.                                                *)
(***************************************************************************)
EXTENDS MCAccountsBoards, FiniteSetTheorems, TLAPS

\* Requests past their reads carry an address, and the link they have opened.
AddressedAt(r) ==
    /\ req[r].at \in {"user", "workspace", "member", "clear", "issue", "burn", "write"} => req[r].email \in Emails
    /\ req[r].at \in {"user", "workspace", "member"} => req[r].op = "signup"
    /\ req[r].at \in {"user", "workspace"} => req[r].slug # None
    /\ req[r].at = "mail" => req[r].link \in Links
    /\ req[r].at \in {"burn", "write"} =>
         /\ req[r].op \in {"verify", "reset"}
         /\ req[r].link \in Links
         /\ link[req[r].link].kind = Kind(req[r].op)
         /\ link[req[r].link].email = req[r].email

Addressed == \A r \in Requests : AddressedAt(r)

\* The rows a signup has behind it.
HasUser(r) == \E u \in users : u.id = r /\ u.email = req[r].email
HasWorkspace(r) == \E w \in workspaces : w.for = r

SignupRowsAt(r) ==
    req[r].op = "signup" =>
      /\ req[r].at \notin {"burn", "write"}
      /\ req[r].at \in {"workspace", "member", "clear", "issue", "mail"} => HasUser(r)
      /\ req[r].at \in {"member", "clear", "issue", "mail"} => HasWorkspace(r)
      /\ req[r].at \in {"clear", "issue", "mail"} => r \in owners
      /\ req[r].answer = "ok" => HasUser(r) /\ HasWorkspace(r) /\ r \in owners

SignupRows == \A r \in Requests : SignupRowsAt(r)

WorkspaceOwners ==
    \A w \in workspaces :
      /\ req[w.for].op = "signup"
      /\ req[w.for].at \in {"member", "clear", "issue", "mail", "over"}

\* Without an overlap, whoever issues a link of an identifier is alone, and no
\* link of it is live meanwhile.
OneIssue ==
    \A k \in Kinds, e \in Emails : <<k, e>> \notin overlap =>
      /\ \A r, s \in Issuing(k, e) : r = s
      /\ Issuing(k, e) # {} => Live(k, e) = {}

\* Requests that hold a link: its row was found, and nothing is written yet.
Holders(l) == {r \in Requests : req[r].at \in {"burn", "write"} /\ req[r].link = l}

SpentLinks ==
    /\ \A l \in 1..MaxLinks : uses[l] # {} => l \in Links
    /\ \A l \in Links \ together :
         /\ \A r, s \in Holders(l) : r = s
         /\ \A r \in Holders(l) : req[r].at = "write" => link[l].state # "live"
         /\ uses[l] # {} => link[l].state # "live" /\ Holders(l) = {}

IInv ==
    /\ TypeOK
    /\ Addressed
    /\ SignupRows
    /\ WorkspaceOwners
    /\ OneIssue
    /\ SpentLinks
    /\ OneAccountPerAddress
    /\ ChangedByItsLink
    /\ OneLiveLink
    /\ LinkWorksOnce

-----------------------------------------------------------------------------
USE AccountsAssumption

LEMMA TypeInit == Init => TypeOK
BY DEF Init, TypeOK, NewRequest, Request, Identifier, Operations

\* What a step writes into its request keeps the type of requests.
LEMMA GoesTyped ==
  ASSUME TypeOK, NEW r \in Requests, NEW s \in Steps, Goes(r, s)
  PROVE  req' \in [Requests -> Request]
BY DEF TypeOK, Goes, Request

LEMMA EndedTyped ==
  ASSUME NEW q \in Request, NEW a \in {"ok", "refused", "failed"}
  PROVE  [q EXCEPT !.at = "over", !.answer = a] \in Request
BY DEF Request

LEMMA MailedTyped ==
  ASSUME NEW q \in Request, NEW n \in 0..MaxLinks
  PROVE  [q EXCEPT !.at = "mail", !.link = n] \in Request
BY DEF Request, Steps

LEMMA AnswersTyped ==
  ASSUME TypeOK, NEW r \in Requests, NEW a \in {"ok", "refused", "failed"}, Answers(r, a)
  PROVE  req' \in [Requests -> Request]
<1>1. [req[r] EXCEPT !.at = "over", !.answer = a] \in Request
  BY EndedTyped DEF TypeOK
<1>2. req' = [req EXCEPT ![r] = [req[r] EXCEPT !.at = "over", !.answer = a]]
  BY DEF Answers
<1> QED
  BY <1>1, <1>2 DEF TypeOK

LEMMA StartsTyped ==
  ASSUME TypeOK, NEW r \in Requests, NEW q \in Request, req' = [req EXCEPT ![r] = q]
  PROVE  req' \in [Requests -> Request]
BY DEF TypeOK

LEMMA NewTyped == NewRequest \in Request
BY DEF NewRequest, Request, Operations

\* What a step writes into a link keeps the type of links.
LEMMA LinkTyped == TypeOK => \A l \in Links : link[l] \in Link
BY DEF TypeOK, Links

LEMMA LinkSet ==
  ASSUME TypeOK, NEW l \in Links, NEW x \in Link
  PROVE  [link EXCEPT ![l] = x] \in Seq(Link) /\ Len([link EXCEPT ![l] = x]) = Len(link)
BY DEF TypeOK, Links

LEMMA RequestStep ==
  ASSUME IInv, Next PROVE req' \in [Requests -> Request]
<1> USE DEF IInv
<1>1. ASSUME NEW r \in Requests, StartSignup(r) PROVE req' \in [Requests -> Request]
  <2>1. PICK e \in Emails, s \in Slugs \cup {r} :
          req' = [req EXCEPT ![r] =
            IF OfAddress(e) = {}
            THEN [NewRequest EXCEPT !.at = "user", !.email = e, !.slug = s]
            ELSE [NewRequest EXCEPT !.at = "over", !.email = e, !.answer = "refused"]]
    BY <1>1 DEF StartSignup
  <2>2. [NewRequest EXCEPT !.at = "user", !.email = e, !.slug = s] \in Request
    BY NewTyped DEF Request, Steps
  <2>3. [NewRequest EXCEPT !.at = "over", !.email = e, !.answer = "refused"] \in Request
    BY NewTyped DEF Request
  <2> QED
    BY <2>1, <2>2, <2>3, StartsTyped
<1>2. ASSUME NEW r \in Requests, NEW op \in Operations, StartIssue(r, op) PROVE req' \in [Requests -> Request]
  <2>1. PICK e \in Emails :
          req' = [req EXCEPT ![r] =
            IF \E u \in OfAddress(e) : Wanted(op, u)
            THEN [NewRequest EXCEPT !.at = "clear", !.op = op, !.email = e]
            ELSE [NewRequest EXCEPT !.at = "over", !.op = op, !.email = e, !.answer = "ok"]]
    BY <1>2 DEF StartIssue
  <2>2. [NewRequest EXCEPT !.at = "clear", !.op = op, !.email = e] \in Request
    BY NewTyped DEF Request, Steps
  <2>3. [NewRequest EXCEPT !.at = "over", !.op = op, !.email = e, !.answer = "ok"] \in Request
    BY NewTyped DEF Request
  <2> QED
    BY <2>1, <2>2, <2>3, StartsTyped
<1>3. ASSUME NEW r \in Requests, NEW op \in Operations, StartOpen(r, op) PROVE req' \in [Requests -> Request]
  <2>1. PICK l \in Links :
          req' = [req EXCEPT ![r] =
            IF RowFound(Kind(op), l)
            THEN [[NewRequest EXCEPT !.op = op, !.email = link[l].email, !.link = l] EXCEPT !.at = "burn"]
            ELSE [[NewRequest EXCEPT !.op = op, !.email = link[l].email, !.link = l]
                    EXCEPT !.at = "over", !.answer = "refused"]]
    BY <1>3 DEF StartOpen
  <2>2. link[l].email \in Emails /\ l \in 0..MaxLinks
    BY LinkTyped DEF TypeOK, Links, Link
  <2>3. [[NewRequest EXCEPT !.op = op, !.email = link[l].email, !.link = l] EXCEPT !.at = "burn"] \in Request
    BY <2>2, NewTyped DEF Request, Steps
  <2>4. [[NewRequest EXCEPT !.op = op, !.email = link[l].email, !.link = l]
           EXCEPT !.at = "over", !.answer = "refused"] \in Request
    BY <2>2, NewTyped DEF Request
  <2> QED
    BY <2>1, <2>3, <2>4, StartsTyped
<1>4. ASSUME NEW r \in Requests, IssueLink(r) PROVE req' \in [Requests -> Request]
  <2>1. Len(link) + 1 \in 0..MaxLinks
    BY <1>4 DEF IssueLink, TypeOK
  <2>2. [req[r] EXCEPT !.at = "mail", !.link = Len(link) + 1] \in Request
    BY <2>1, MailedTyped DEF TypeOK
  <2>3. req' = [req EXCEPT ![r] = [req[r] EXCEPT !.at = "mail", !.link = Len(link) + 1]]
    BY <1>4 DEF IssueLink
  <2> QED
    BY <2>2, <2>3, StartsTyped DEF IInv
<1>5. ASSUME NEW r \in Requests, InsertUser(r) \/ InsertWorkspace(r) \/ InsertMember(r) \/ ClearLinks(r) \/ BurnLink(r)
      PROVE  req' \in [Requests -> Request]
  <2>1. \/ \E s \in Steps : Goes(r, s)
        \/ Answers(r, "failed") \/ Answers(r, "refused")
    BY <1>5 DEF InsertUser, InsertWorkspace, InsertMember, ClearLinks, BurnLink, Steps
  <2> QED
    BY <2>1, GoesTyped, AnswersTyped
<1>6. ASSUME NEW r \in Requests, SendMail(r) \/ WriteUser(r) \/ Fail(r) PROVE req' \in [Requests -> Request]
  BY <1>6, AnswersTyped DEF SendMail, WriteUser, Fail
<1>7. ASSUME NEW l \in Links, Expire(l) PROVE req' \in [Requests -> Request]
  BY <1>7 DEF Expire, TypeOK
<1>8. CASE SignIn
  BY <1>8 DEF SignIn, TypeOK
<1> QED
  BY <1>1, <1>2, <1>3, <1>4, <1>5, <1>6, <1>7, <1>8
  DEF Next, StartResend, StartForgot, StartVerify, StartReset, Operations

LEMMA LinkStep ==
  ASSUME IInv, Next PROVE link' \in Seq(Link) /\ Len(link') <= MaxLinks
<1> USE DEF IInv, TypeOK
<1> DEFINE Typed == link' \in Seq(Link) /\ Len(link') <= MaxLinks
<1>1. ASSUME NEW r \in Requests, ClearLinks(r) PROVE Typed
  <2>1. PICK k, e : link' = [l \in Links |-> IF l \in Replaced(k, e) THEN [link[l] EXCEPT !.state = "replaced"] ELSE link[l]]
    BY <1>1 DEF ClearLinks
  <2>2. \A l \in Links : link'[l] \in Link
    BY <2>1, LinkTyped DEF Link
  <2>3. DOMAIN link' = 1..Len(link)
    BY <2>1 DEF Links
  <2> QED
    BY <2>1, <2>2, <2>3 DEF Links
<1>2. ASSUME NEW r \in Requests, IssueLink(r) PROVE Typed
  <2>1. NewLink(req[r]) \in Link
    BY <1>2 DEF IssueLink, At, Addressed, AddressedAt, NewLink, Kind, Kinds, Link, Request
  <2> QED
    BY <1>2, <2>1 DEF IssueLink
<1>3. ASSUME NEW r \in Requests, SendMail(r) PROVE Typed
  <2>1. PICK m \in {"unsent", "sent"} : link' = [link EXCEPT ![req[r].link] = [link[req[r].link] EXCEPT !.mail = m]]
    BY <1>3 DEF SendMail
  <2>2. req[r].link \in Links
    BY <1>3 DEF SendMail, At, Addressed, AddressedAt
  <2>3. [link[req[r].link] EXCEPT !.mail = m] \in Link
    BY <2>2, LinkTyped DEF Link
  <2> QED
    BY <2>1, <2>2, <2>3, LinkSet
<1>4. ASSUME NEW r \in Requests, BurnLink(r) PROVE Typed
  <2>1. link' = [link EXCEPT ![req[r].link] = [link[req[r].link] EXCEPT !.state = "burned"]]
    BY <1>4 DEF BurnLink, Burnt
  <2>2. req[r].link \in Links
    BY <1>4 DEF BurnLink, At, Addressed, AddressedAt
  <2>3. [link[req[r].link] EXCEPT !.state = "burned"] \in Link
    BY <2>2, LinkTyped DEF Link
  <2> QED
    BY <2>1, <2>2, <2>3, LinkSet
<1>5. ASSUME NEW l \in Links, Expire(l) PROVE Typed
  <2>1. link' = [link EXCEPT ![l] = [link[l] EXCEPT !.age = "expired"]]
    BY <1>5 DEF Expire
  <2>2. [link[l] EXCEPT !.age = "expired"] \in Link
    BY LinkTyped DEF Link
  <2> QED
    BY <2>1, <2>2, LinkSet
<1>6. CASE UNCHANGED link
  BY <1>6
<1> QED
  BY <1>1, <1>2, <1>3, <1>4, <1>5, <1>6
  DEF Next, StartSignup, InsertUser, InsertWorkspace, InsertMember, StartResend, StartForgot, StartIssue,
      StartVerify, StartReset, StartOpen, WriteUser, Fail, SignIn

LEMMA TypeStep == IInv /\ [Next]_vars => TypeOK'
<1> SUFFICES ASSUME IInv, [Next]_vars PROVE TypeOK'
  OBVIOUS
<1>1. CASE UNCHANGED vars
  BY <1>1 DEF vars, IInv, TypeOK
<1>2. CASE Next
  <2>1. req' \in [Requests -> Request] /\ link' \in Seq(Link) /\ Len(link') <= MaxLinks
    BY <1>2, RequestStep, LinkStep
  <2> USE DEF IInv, TypeOK, Tables, Histories
  <2>2. ASSUME NEW r \in Requests, StartSignup(r) PROVE TypeOK'
    BY <2>1, <2>2 DEF StartSignup
  <2>3. ASSUME NEW r \in Requests, InsertUser(r) PROVE TypeOK'
    <3>1. [id |-> r, email |-> req[r].email, password |-> r, status |-> "unverified"] \in User
      BY <2>3 DEF InsertUser, At, Addressed, AddressedAt, User
    <3> QED
      BY <2>1, <2>3, <3>1 DEF InsertUser
  <2>4. ASSUME NEW r \in Requests, InsertWorkspace(r) PROVE TypeOK'
    <3>1. req[r].slug \in Slugs \cup Requests
      BY <2>4 DEF InsertWorkspace, At, Addressed, AddressedAt, Request
    <3> QED
      BY <2>1, <2>4, <3>1 DEF InsertWorkspace
  <2>5. ASSUME NEW r \in Requests, InsertMember(r) PROVE TypeOK'
    BY <2>1, <2>5 DEF InsertMember
  <2>6. ASSUME NEW r \in Requests, NEW op \in Operations, StartIssue(r, op) PROVE TypeOK'
    BY <2>1, <2>6 DEF StartIssue
  <2>7. ASSUME NEW r \in Requests, ClearLinks(r) PROVE TypeOK'
    <3>1. overlap' \subseteq Identifier
      BY <2>7 DEF ClearLinks, At, Addressed, AddressedAt, Identifier, Kind, Kinds
    <3> QED
      BY <2>1, <2>7, <3>1 DEF ClearLinks
  <2>8. ASSUME NEW r \in Requests, IssueLink(r) PROVE TypeOK'
    BY <2>1, <2>8 DEF IssueLink
  <2>9. ASSUME NEW r \in Requests, SendMail(r) PROVE TypeOK'
    BY <2>1, <2>9 DEF SendMail
  <2>10. ASSUME NEW r \in Requests, NEW op \in Operations, StartOpen(r, op) PROVE TypeOK'
    <3>1. together' \subseteq 1..MaxLinks
      BY <2>10 DEF StartOpen, Links
    <3> QED
      BY <2>1, <2>10, <3>1 DEF StartOpen
  <2>11. ASSUME NEW r \in Requests, BurnLink(r) PROVE TypeOK'
    BY <2>1, <2>11 DEF BurnLink
  <2>12. ASSUME NEW r \in Requests, WriteUser(r) PROVE TypeOK'
    <3>1. ASSUME NEW u \in users PROVE Written(u, r) \in User
      BY DEF Written, User
    <3>2. users' \subseteq User
      BY <2>12, <3>1 DEF WriteUser
    <3>3. uses' \in [1..MaxLinks -> SUBSET Requests]
      BY <2>12 DEF WriteUser
    <3> QED
      BY <2>1, <2>12, <3>2, <3>3 DEF WriteUser
  <2>13. ASSUME NEW r \in Requests, Fail(r) PROVE TypeOK'
    BY <2>1, <2>13 DEF Fail
  <2>14. ASSUME NEW l \in Links, Expire(l) PROVE TypeOK'
    BY <2>1, <2>14 DEF Expire
  <2>15. CASE SignIn
    <3>1. sessions' \subseteq Requests
      BY <2>15 DEF SignIn, User
    <3> QED
      BY <2>1, <2>15, <3>1 DEF SignIn
  <2> QED
    BY <1>2, <2>2, <2>3, <2>4, <2>5, <2>6, <2>7, <2>8, <2>9, <2>10, <2>11, <2>12, <2>13, <2>14, <2>15
    DEF Next, StartResend, StartForgot, StartVerify, StartReset, Operations
<1> QED
  BY <1>1, <1>2

-----------------------------------------------------------------------------
(* What each kind of step does to its request and to the links.               *)

Alone(r) == \A x \in Requests : x # r => req'[x] = req[x]

SameButAt(r) ==
    /\ req'[r].op = req[r].op /\ req'[r].email = req[r].email
    /\ req'[r].slug = req[r].slug /\ req'[r].link = req[r].link

LEMMA GoesEffect ==
  ASSUME TypeOK, NEW r \in Requests, NEW s, Goes(r, s)
  PROVE  /\ Alone(r) /\ SameButAt(r)
         /\ req'[r].at = s /\ req'[r].answer = req[r].answer
BY DEF TypeOK, Goes, Alone, SameButAt, Request

LEMMA AnswersEffect ==
  ASSUME TypeOK, NEW r \in Requests, NEW a, Answers(r, a)
  PROVE  /\ Alone(r) /\ SameButAt(r)
         /\ req'[r].at = "over" /\ req'[r].answer = a
<1>1. req' = [req EXCEPT ![r] = [req[r] EXCEPT !.at = "over", !.answer = a]]
  BY DEF Answers
<1>2. req[r] \in Request
  BY DEF TypeOK
<1>3. req'[r] = [req[r] EXCEPT !.at = "over", !.answer = a]
  BY <1>1 DEF TypeOK
<1>4. Alone(r)
  BY <1>1 DEF TypeOK, Alone
<1> QED
  BY <1>2, <1>3, <1>4 DEF SameButAt, Request

LEMMA SignupEffect ==
  ASSUME TypeOK, NEW r \in Requests, StartSignup(r)
  PROVE  /\ Alone(r)
         /\ req'[r].op = "signup"
         /\ \/ /\ req'[r].at = "user"
               /\ req'[r].email \in Emails /\ req'[r].slug \in Slugs \cup Requests
               /\ req'[r].answer = "none"
            \/ req'[r].at = "over" /\ req'[r].answer = "refused"
<1>1. PICK e \in Emails, s \in Slugs \cup {r} :
        req' = [req EXCEPT ![r] =
          IF OfAddress(e) = {}
          THEN [NewRequest EXCEPT !.at = "user", !.email = e, !.slug = s]
          ELSE [NewRequest EXCEPT !.at = "over", !.email = e, !.answer = "refused"]]
  BY DEF StartSignup
<1>2. Alone(r)
  BY <1>1 DEF TypeOK, Alone
<1>3. req'[r] = IF OfAddress(e) = {}
                THEN [NewRequest EXCEPT !.at = "user", !.email = e, !.slug = s]
                ELSE [NewRequest EXCEPT !.at = "over", !.email = e, !.answer = "refused"]
  BY <1>1 DEF TypeOK
<1> QED
  BY <1>2, <1>3 DEF NewRequest

LEMMA IssueEffect ==
  ASSUME TypeOK, NEW r \in Requests, NEW op \in {"resend", "forgot"}, StartIssue(r, op)
  PROVE  /\ Alone(r)
         /\ req'[r].op = op
         /\ \/ req'[r].at = "clear" /\ req'[r].email \in Emails
            \/ req'[r].at = "over"
<1>1. PICK e \in Emails :
        req' = [req EXCEPT ![r] =
          IF \E u \in OfAddress(e) : Wanted(op, u)
          THEN [NewRequest EXCEPT !.at = "clear", !.op = op, !.email = e]
          ELSE [NewRequest EXCEPT !.at = "over", !.op = op, !.email = e, !.answer = "ok"]]
  BY DEF StartIssue
<1>2. Alone(r)
  BY <1>1 DEF TypeOK, Alone
<1>3. req'[r] = IF \E u \in OfAddress(e) : Wanted(op, u)
                THEN [NewRequest EXCEPT !.at = "clear", !.op = op, !.email = e]
                ELSE [NewRequest EXCEPT !.at = "over", !.op = op, !.email = e, !.answer = "ok"]
  BY <1>1 DEF TypeOK
<1> QED
  BY <1>2, <1>3 DEF NewRequest

LEMMA OpenEffect ==
  ASSUME TypeOK, NEW r \in Requests, NEW op \in {"verify", "reset"}, StartOpen(r, op)
  PROVE  /\ Alone(r)
         /\ req'[r].op = op
         /\ req'[r].link \in Links
         /\ req'[r].email = link[req'[r].link].email
         /\ \/ req'[r].at = "burn" /\ RowFound(Kind(op), req'[r].link)
            \/ req'[r].at = "over"
         /\ together' = IF \E x \in Requests : At(x, "burn") /\ req[x].link = req'[r].link
                        THEN together \cup {req'[r].link} ELSE together
<1>1. PICK l \in Links :
        /\ req' = [req EXCEPT ![r] =
            IF RowFound(Kind(op), l)
            THEN [[NewRequest EXCEPT !.op = op, !.email = link[l].email, !.link = l] EXCEPT !.at = "burn"]
            ELSE [[NewRequest EXCEPT !.op = op, !.email = link[l].email, !.link = l]
                    EXCEPT !.at = "over", !.answer = "refused"]]
        /\ together' = IF \E x \in Requests : At(x, "burn") /\ req[x].link = l
                       THEN together \cup {l} ELSE together
  BY DEF StartOpen
<1>2. Alone(r)
  BY <1>1 DEF TypeOK, Alone
<1>3. req'[r] = IF RowFound(Kind(op), l)
                THEN [[NewRequest EXCEPT !.op = op, !.email = link[l].email, !.link = l] EXCEPT !.at = "burn"]
                ELSE [[NewRequest EXCEPT !.op = op, !.email = link[l].email, !.link = l]
                        EXCEPT !.at = "over", !.answer = "refused"]
  BY <1>1 DEF TypeOK
<1>4. /\ req'[r].op = op /\ req'[r].link = l /\ req'[r].email = link[l].email
      /\ \/ req'[r].at = "burn" /\ RowFound(Kind(op), l)
         \/ req'[r].at = "over"
  BY <1>3 DEF NewRequest
<1> QED
  BY <1>1, <1>2, <1>4

LEMMA MailEffect ==
  ASSUME TypeOK, NEW r \in Requests, IssueLink(r)
  PROVE  /\ Alone(r)
         /\ req'[r].op = req[r].op /\ req'[r].email = req[r].email /\ req'[r].answer = req[r].answer
         /\ req'[r].at = "mail" /\ req'[r].link = Len(link) + 1
<1>1. req' = [req EXCEPT ![r] = [req[r] EXCEPT !.at = "mail", !.link = Len(link) + 1]]
  BY DEF IssueLink
<1>2. req[r] \in Request
  BY DEF TypeOK
<1>3. req'[r] = [req[r] EXCEPT !.at = "mail", !.link = Len(link) + 1]
  BY <1>1 DEF TypeOK
<1>4. Alone(r)
  BY <1>1 DEF TypeOK, Alone
<1> QED
  BY <1>2, <1>3, <1>4 DEF Request

\* Links keep their kind and address, and never come back to life.
LinksKept ==
    \A l \in Links :
      /\ l \in Links'
      /\ link'[l].kind = link[l].kind /\ link'[l].email = link[l].email
      /\ link'[l].state = "live" => link[l].state = "live"

LEMMA LinksKeptStep == ASSUME IInv, Next PROVE LinksKept
<1> USE DEF LinksKept
<1>1. ASSUME NEW r \in Requests, ClearLinks(r) PROVE LinksKept
  <2>1. PICK k, e : link' = [l \in Links |-> IF l \in Replaced(k, e) THEN [link[l] EXCEPT !.state = "replaced"] ELSE link[l]]
    BY <1>1 DEF ClearLinks
  <2>2. Links' = Links
    BY <2>1, LinkStep, <1>1 DEF Links, IInv, TypeOK
  <2> QED
    BY <2>1, <2>2, LinkTyped DEF Link, IInv
<1>2. ASSUME NEW r \in Requests, IssueLink(r) PROVE LinksKept
  BY <1>2 DEF IssueLink, Links, IInv, TypeOK
<1>3. ASSUME NEW r \in Requests, SendMail(r) PROVE LinksKept
  <2>1. PICK m : link' = [link EXCEPT ![req[r].link].mail = m]
    BY <1>3 DEF SendMail
  <2>2. link \in Seq(Link)
    BY DEF IInv, TypeOK
  <2> QED
    BY <2>1, <2>2, LinkTyped DEF Links, Link, IInv
<1>4. ASSUME NEW r \in Requests, BurnLink(r) PROVE LinksKept
  <2>1. link' = [link EXCEPT ![req[r].link].state = "burned"]
    BY <1>4 DEF BurnLink, Burnt
  <2>2. link \in Seq(Link)
    BY DEF IInv, TypeOK
  <2> QED
    BY <2>1, <2>2, LinkTyped DEF Links, Link, IInv
<1>5. ASSUME NEW l \in Links, Expire(l) PROVE LinksKept
  <2>1. link' = [link EXCEPT ![l].age = "expired"]
    BY <1>5 DEF Expire
  <2>2. link \in Seq(Link)
    BY DEF IInv, TypeOK
  <2> QED
    BY <2>1, <2>2, LinkTyped DEF Links, Link, IInv
<1>6. CASE UNCHANGED link
  BY <1>6 DEF Links
<1> QED
  BY <1>1, <1>2, <1>3, <1>4, <1>5, <1>6
  DEF Next, StartSignup, InsertUser, InsertWorkspace, InsertMember, StartResend, StartForgot, StartIssue,
      StartVerify, StartReset, StartOpen, WriteUser, Fail, SignIn

-----------------------------------------------------------------------------
(* Every step keeps every part of the invariant.                             *)

LEMMA AddressedStep == ASSUME IInv, Next PROVE Addressed'
<1>1. LinksKept /\ TypeOK
  BY LinksKeptStep DEF IInv
<1>2. ASSUME NEW x \in Requests, req'[x] = req[x] PROVE AddressedAt(x)'
  BY <1>1, <1>2 DEF IInv, Addressed, AddressedAt, LinksKept
<1>3. ASSUME NEW r \in Requests, Alone(r), AddressedAt(r)' PROVE Addressed'
  BY <1>2, <1>3 DEF Addressed, Alone
<1>4. ASSUME NEW r \in Requests, NEW a, Answers(r, a) PROVE Addressed'
  BY <1>1, <1>3, <1>4, AnswersEffect DEF AddressedAt
<1>5. ASSUME NEW r \in Requests, StartSignup(r) PROVE Addressed'
  <2>1. None \notin Slugs \cup Requests
    OBVIOUS
  <2> QED
    BY <1>1, <1>3, <1>5, <2>1, SignupEffect DEF AddressedAt
<1>6. ASSUME NEW r \in Requests, InsertUser(r) \/ InsertWorkspace(r) \/ InsertMember(r) \/ ClearLinks(r) \/ BurnLink(r)
      PROVE  Addressed'
  <2>1. \/ \E a : Answers(r, a)
        \/ Goes(r, "workspace") /\ At(r, "user")
        \/ Goes(r, "member") /\ At(r, "workspace")
        \/ Goes(r, "clear") /\ At(r, "member")
        \/ Goes(r, "issue") /\ At(r, "clear")
        \/ Goes(r, "write") /\ At(r, "burn")
    BY <1>6 DEF InsertUser, InsertWorkspace, InsertMember, ClearLinks, BurnLink
  <2>2. ASSUME NEW s \in {"workspace", "member", "clear", "issue", "write"}, Goes(r, s),
               req[r].at \in {"user", "workspace", "member", "clear", "burn"},
               s = "workspace" => At(r, "user"), s = "member" => At(r, "workspace"), s = "write" => At(r, "burn")
        PROVE  Addressed'
    <3>1. Alone(r) /\ SameButAt(r) /\ req'[r].at = s
      BY <1>1, <2>2, GoesEffect
    <3>2. AddressedAt(r)
      BY DEF IInv, Addressed
    <3>3. AddressedAt(r)'
      BY <1>1, <2>2, <3>1, <3>2 DEF AddressedAt, SameButAt, LinksKept, At
    <3> QED
      BY <1>3, <3>1, <3>3
  <2> QED
    BY <2>1, <2>2, <1>4 DEF At
<1>7. ASSUME NEW r \in Requests, NEW op \in {"resend", "forgot"}, StartIssue(r, op) PROVE Addressed'
  BY <1>1, <1>3, <1>7, IssueEffect DEF AddressedAt
<1>8. ASSUME NEW r \in Requests, NEW op \in {"verify", "reset"}, StartOpen(r, op) PROVE Addressed'
  <2>1. req'[r].link \in Links /\ link[req'[r].link].email \in Emails
    BY <1>1, <1>8, OpenEffect, LinkTyped DEF Link
  <2> QED
    BY <1>1, <1>3, <1>8, <2>1, OpenEffect DEF AddressedAt, LinksKept, RowFound
<1>9. ASSUME NEW r \in Requests, IssueLink(r) PROVE Addressed'
  <2>1. Len(link) + 1 \in Links'
    BY <1>1, <1>9 DEF IssueLink, Links, TypeOK
  <2> QED
    BY <1>1, <1>3, <1>9, <2>1, MailEffect DEF AddressedAt
<1>10. ASSUME NEW r \in Requests, SendMail(r) \/ WriteUser(r) \/ Fail(r) PROVE Addressed'
  BY <1>4, <1>10 DEF SendMail, WriteUser, Fail
<1>11. CASE UNCHANGED req
  BY <1>2, <1>11 DEF Addressed
<1> QED
  BY <1>5, <1>6, <1>7, <1>8, <1>9, <1>10, <1>11
  DEF Next, StartResend, StartForgot, StartVerify, StartReset, Expire, SignIn

\* No row goes away.
RowsKept ==
    /\ \A u \in users : \E v \in users' : v.id = u.id /\ v.email = u.email
    /\ workspaces \subseteq workspaces'
    /\ owners \subseteq owners'

LEMMA RowsKeptStep == ASSUME IInv, Next PROVE RowsKept
<1>1. ASSUME NEW r \in Requests, WriteUser(r) PROVE RowsKept
  <2>1. \A u \in users : Written(u, r).id = u.id /\ Written(u, r).email = u.email
    BY DEF IInv, TypeOK, User, Written
  <2> QED
    BY <1>1, <2>1 DEF WriteUser, RowsKept
<1>2. ASSUME NEW r \in Requests, InsertUser(r) \/ InsertWorkspace(r) \/ InsertMember(r) PROVE RowsKept
  BY <1>2 DEF InsertUser, InsertWorkspace, InsertMember, RowsKept
<1>3. CASE UNCHANGED Tables
  BY <1>3 DEF RowsKept, Tables
<1> QED
  BY <1>1, <1>2, <1>3
  DEF Next, StartSignup, StartResend, StartForgot, StartIssue, ClearLinks, IssueLink, SendMail,
      StartVerify, StartReset, StartOpen, BurnLink, Fail, Expire, SignIn

LEMMA SignupRowsStep == ASSUME IInv, Next PROVE SignupRows'
<1>1. RowsKept /\ TypeOK /\ Addressed /\ SignupRows
  BY RowsKeptStep DEF IInv
<1>2. ASSUME NEW x \in Requests, req'[x] = req[x] PROVE SignupRowsAt(x)'
  BY <1>1, <1>2 DEF SignupRows, SignupRowsAt, RowsKept, HasUser, HasWorkspace
<1>3. ASSUME NEW r \in Requests, Alone(r), SignupRowsAt(r)' PROVE SignupRows'
  BY <1>2, <1>3 DEF SignupRows, Alone
<1>4. ASSUME NEW r \in Requests, SameButAt(r), req[r].op = "signup" PROVE
        /\ HasUser(r) => HasUser(r)'
        /\ HasWorkspace(r) => HasWorkspace(r)'
        /\ r \in owners => r \in owners'
  BY <1>1, <1>4 DEF RowsKept, HasUser, HasWorkspace, SameButAt
<1>5. ASSUME NEW r \in Requests, NEW a, Answers(r, a), a = "ok" => req[r].at \in {"mail", "write"} PROVE SignupRows'
  <2>1. Alone(r) /\ SameButAt(r) /\ req'[r].at = "over" /\ req'[r].answer = a
    BY <1>1, <1>5, AnswersEffect
  <2>2. SignupRowsAt(r)
    BY <1>1 DEF SignupRows
  <2>3. SignupRowsAt(r)'
    BY <1>4, <1>5, <2>1, <2>2 DEF SignupRowsAt, SameButAt
  <2> QED
    BY <1>3, <2>1, <2>3
<1>6. ASSUME NEW r \in Requests, NEW s, Goes(r, s), s \notin {"burn"},
             s = "write" => req[r].op # "signup",
             s = "workspace" => HasUser(r)',
             s = "member" => HasUser(r)' /\ HasWorkspace(r)',
             s = "clear" => HasUser(r)' /\ HasWorkspace(r)' /\ r \in owners',
             s \in {"issue", "mail"} => req[r].at \in {"clear", "issue", "mail"}
      PROVE SignupRows'
  <2>1. Alone(r) /\ SameButAt(r) /\ req'[r].at = s /\ req'[r].answer = req[r].answer
    BY <1>1, <1>6, GoesEffect
  <2>2. SignupRowsAt(r)
    BY <1>1 DEF SignupRows
  <2>3. SignupRowsAt(r)'
    BY <1>4, <1>6, <2>1, <2>2 DEF SignupRowsAt, SameButAt
  <2> QED
    BY <1>3, <2>1, <2>3
<1>7. ASSUME NEW r \in Requests, StartSignup(r) PROVE SignupRows'
  <2>1. /\ Alone(r)
        /\ req'[r].at \in {"user", "over"} /\ req'[r].answer # "ok"
    BY <1>1, <1>7, SignupEffect
  <2>2. SignupRowsAt(r)'
    BY <2>1 DEF SignupRowsAt
  <2> QED
    BY <1>3, <2>1, <2>2
<1>8. ASSUME NEW r \in Requests, NEW op \in {"resend", "forgot"}, StartIssue(r, op) PROVE SignupRows'
  BY <1>1, <1>3, <1>8, IssueEffect DEF SignupRowsAt
<1>9. ASSUME NEW r \in Requests, NEW op \in {"verify", "reset"}, StartOpen(r, op) PROVE SignupRows'
  BY <1>1, <1>3, <1>9, OpenEffect DEF SignupRowsAt
<1>10. ASSUME NEW r \in Requests, InsertUser(r) PROVE SignupRows'
  <2>1. CASE Answers(r, "failed")
    BY <1>5, <2>1
  <2>2. CASE Goes(r, "workspace") /\ users' = users \cup {[id |-> r, email |-> req[r].email, password |-> r, status |-> "unverified"]}
    <3>1. SameButAt(r)
      BY <1>1, <2>2, GoesEffect
    <3>2. PICK u \in users' : u = [id |-> r, email |-> req[r].email, password |-> r, status |-> "unverified"]
      BY <2>2
    <3>3. HasUser(r)'
      BY <3>1, <3>2 DEF HasUser, SameButAt
    <3> QED
      BY <1>6, <2>2, <3>3
  <2> QED
    BY <1>10, <2>1, <2>2 DEF InsertUser
<1>11. ASSUME NEW r \in Requests, InsertWorkspace(r) \/ InsertMember(r),
              req[r].op = "signup"
       PROVE  SignupRows'
  <2>1. SignupRowsAt(r)
    BY <1>1 DEF SignupRows
  <2>2. CASE Answers(r, "failed")
    BY <1>5, <2>2
  <2>3. CASE InsertWorkspace(r) /\ Goes(r, "member")
    <3>1. SameButAt(r)
      BY <1>1, <2>3, GoesEffect
    <3>2. HasUser(r)'
      BY <1>4, <1>11, <2>1, <2>3, <3>1 DEF SignupRowsAt, InsertWorkspace, At
    <3>3. [slug |-> req[r].slug, for |-> r] \in workspaces' \/ Answers(r, "failed")
      BY <2>3 DEF InsertWorkspace
    <3>4. HasWorkspace(r)' \/ Answers(r, "failed")
      BY <3>3 DEF HasWorkspace
    <3> QED
      BY <1>6, <2>2, <2>3, <3>2, <3>4
  <2>4. CASE InsertMember(r)
    <3>1. SameButAt(r)
      BY <1>1, <2>4, GoesEffect DEF InsertMember
    <3>2. HasUser(r)' /\ HasWorkspace(r)'
      BY <1>4, <1>11, <2>1, <2>4, <3>1 DEF SignupRowsAt, InsertMember, At
    <3> QED
      BY <1>6, <2>4, <3>2 DEF InsertMember
  <2> QED
    BY <1>11, <2>2, <2>3, <2>4 DEF InsertWorkspace
<1>12. ASSUME NEW r \in Requests, ClearLinks(r) PROVE SignupRows'
  BY <1>6, <1>12 DEF ClearLinks, At
<1>13. ASSUME NEW r \in Requests, IssueLink(r) PROVE SignupRows'
  <2>1. /\ Alone(r) /\ req'[r].at = "mail" /\ req[r].at = "issue"
        /\ req'[r].op = req[r].op /\ req'[r].email = req[r].email /\ req'[r].answer = req[r].answer
    BY <1>1, <1>13, MailEffect DEF IssueLink, At
  <2>2. SignupRowsAt(r)
    BY <1>1 DEF SignupRows
  <2>3. SignupRowsAt(r)'
    BY <1>1, <2>1, <2>2 DEF SignupRowsAt, RowsKept, HasUser, HasWorkspace
  <2> QED
    BY <1>3, <2>1, <2>3
<1>14. ASSUME NEW r \in Requests, BurnLink(r) PROVE SignupRows'
  <2>1. req[r].op # "signup"
    BY <1>1, <1>14 DEF BurnLink, At, Addressed, AddressedAt
  <2> QED
    BY <1>5, <1>6, <1>14, <2>1 DEF BurnLink
<1>15. ASSUME NEW r \in Requests, SendMail(r) \/ WriteUser(r) \/ Fail(r) PROVE SignupRows'
  BY <1>5, <1>15 DEF SendMail, WriteUser, Fail, At
<1>16. CASE UNCHANGED req
  BY <1>2, <1>16 DEF SignupRows
<1> QED
  BY <1>1, <1>7, <1>8, <1>9, <1>10, <1>11, <1>12, <1>13, <1>14, <1>15, <1>16
  DEF Next, StartResend, StartForgot, StartVerify, StartReset, Expire, SignIn, InsertWorkspace, InsertMember,
      At, Addressed, AddressedAt

\* A request keeps its operation and address once it has started, and a signup
\* that has its workspace only goes on.
ForwardAt(x) ==
    \/ req'[x] = req[x]
    \/ req[x].at = "new"
    \/ /\ req'[x].op = req[x].op /\ req'[x].email = req[x].email
       /\ req[x].at = "over" => req'[x].at = "over"
       /\ req[x].at \in {"member", "clear", "issue", "mail"} => req'[x].at \in {"clear", "issue", "mail", "over"}

LEMMA ForwardStep == ASSUME IInv, Next PROVE \A x \in Requests : ForwardAt(x)
<1>1. TypeOK
  BY DEF IInv
<1>2. ASSUME NEW r \in Requests, Alone(r), ForwardAt(r) PROVE \A x \in Requests : ForwardAt(x)
  BY <1>2 DEF Alone, ForwardAt
<1>3. ASSUME NEW r \in Requests, NEW a, Answers(r, a) PROVE \A x \in Requests : ForwardAt(x)
  <2>1. Alone(r) /\ ForwardAt(r)
    BY <1>1, <1>3, AnswersEffect DEF ForwardAt, SameButAt
  <2> QED
    BY <1>2, <2>1
<1>4. ASSUME NEW r \in Requests, NEW s, Goes(r, s),
             req[r].at # "over",
             req[r].at \in {"member", "clear", "issue", "mail"} => s \in {"clear", "issue"}
      PROVE  \A x \in Requests : ForwardAt(x)
  <2>1. Alone(r) /\ ForwardAt(r)
    BY <1>1, <1>4, GoesEffect DEF ForwardAt, SameButAt
  <2> QED
    BY <1>2, <2>1
<1>5. ASSUME NEW r \in Requests, At(r, "new"), Alone(r) PROVE \A x \in Requests : ForwardAt(x)
  BY <1>2, <1>5 DEF At, ForwardAt
<1>6. ASSUME NEW r \in Requests, StartSignup(r) PROVE \A x \in Requests : ForwardAt(x)
  <2>1. At(r, "new") /\ Alone(r)
    BY <1>1, <1>6, SignupEffect DEF StartSignup
  <2> QED
    BY <1>5, <2>1
<1>7. ASSUME NEW r \in Requests, NEW op \in {"resend", "forgot"}, StartIssue(r, op) PROVE \A x \in Requests : ForwardAt(x)
  <2>1. At(r, "new") /\ Alone(r)
    BY <1>1, <1>7, IssueEffect DEF StartIssue
  <2> QED
    BY <1>5, <2>1
<1>8. ASSUME NEW r \in Requests, NEW op \in {"verify", "reset"}, StartOpen(r, op) PROVE \A x \in Requests : ForwardAt(x)
  <2>1. At(r, "new") /\ Alone(r)
    BY <1>1, <1>8, OpenEffect DEF StartOpen
  <2> QED
    BY <1>5, <2>1
<1>9. ASSUME NEW r \in Requests, InsertUser(r) \/ InsertWorkspace(r) \/ InsertMember(r) \/ ClearLinks(r) \/ BurnLink(r)
      PROVE  \A x \in Requests : ForwardAt(x)
  <2>1. \/ \E a : Answers(r, a)
        \/ \E s : Goes(r, s) /\ req[r].at \in {"user", "workspace", "burn"}
        \/ \E s \in {"clear", "issue"} : Goes(r, s) /\ req[r].at # "over"
    BY <1>9 DEF InsertUser, InsertWorkspace, InsertMember, ClearLinks, BurnLink, At
  <2> QED
    BY <1>3, <1>4, <2>1
<1>10. ASSUME NEW r \in Requests, IssueLink(r) PROVE \A x \in Requests : ForwardAt(x)
  <2>1. Alone(r) /\ ForwardAt(r)
    BY <1>1, <1>10, MailEffect DEF ForwardAt, IssueLink, At
  <2> QED
    BY <1>2, <2>1
<1>11. ASSUME NEW r \in Requests, SendMail(r) \/ WriteUser(r) \/ Fail(r) PROVE \A x \in Requests : ForwardAt(x)
  BY <1>3, <1>11 DEF SendMail, WriteUser, Fail
<1>12. CASE UNCHANGED req
  BY <1>12 DEF ForwardAt
<1> QED
  BY <1>6, <1>7, <1>8, <1>9, <1>10, <1>11, <1>12
  DEF Next, StartResend, StartForgot, StartVerify, StartReset, Expire, SignIn

LEMMA WorkspacesStep ==
  ASSUME IInv, Next
  PROVE  /\ WorkspaceOwners'
         /\ \A w, x \in workspaces' : w.for = x.for \/ w.slug = x.slug => w = x
<1>1. TypeOK /\ Addressed /\ WorkspaceOwners /\ OneAccountPerAddress /\ \A x \in Requests : ForwardAt(x)
  BY ForwardStep DEF IInv
<1>2. ASSUME NEW w \in workspaces
      PROVE  /\ req'[w.for].op = "signup"
             /\ req'[w.for].at \in {"member", "clear", "issue", "mail", "over"}
             /\ w.for \in Requests
  <2>1. w.for \in Requests /\ ForwardAt(w.for) /\ req[w.for].op = "signup"
        /\ req[w.for].at \in {"member", "clear", "issue", "mail", "over"}
    BY <1>1 DEF TypeOK, WorkspaceOwners
  <2> QED
    BY <2>1 DEF ForwardAt
<1>3. CASE UNCHANGED workspaces
  BY <1>1, <1>2, <1>3 DEF WorkspaceOwners, OneAccountPerAddress
<1>4. ASSUME NEW r \in Requests, InsertWorkspace(r), ~ UNCHANGED workspaces
      PROVE  /\ WorkspaceOwners'
             /\ \A w, x \in workspaces' : w.for = x.for \/ w.slug = x.slug => w = x
  <2> DEFINE n == [slug |-> req[r].slug, for |-> r]
  <2>1. SlugFree(n.slug) /\ workspaces' = workspaces \cup {n} /\ Goes(r, "member") /\ req[r].at = "workspace"
    BY <1>4 DEF InsertWorkspace, At
  <2>2. req[r].op = "signup" /\ n.for = r
    BY <1>1, <2>1 DEF Addressed, AddressedAt
  <2>3. req'[r].op = "signup" /\ req'[r].at = "member"
    BY <1>1, <2>1, <2>2, GoesEffect DEF SameButAt
  <2>4. WorkspaceOwners'
    BY <1>2, <2>1, <2>2, <2>3 DEF WorkspaceOwners
  <2>5. \A w \in workspaces : w.for # r /\ w.slug # n.slug
    BY <1>1, <2>1 DEF WorkspaceOwners, SlugFree
  <2>6. \A w, x \in workspaces' : w.for = x.for \/ w.slug = x.slug => w = x
    BY <1>1, <2>1, <2>2, <2>5 DEF OneAccountPerAddress
  <2> QED
    BY <2>4, <2>6
<1> QED
  BY <1>3, <1>4
  DEF Next, Tables, StartSignup, InsertUser, InsertMember, StartResend, StartForgot, StartIssue, ClearLinks, IssueLink,
      SendMail, StartVerify, StartReset, StartOpen, BurnLink, WriteUser, Fail, Expire, SignIn

LEMMA AccountsStep == ASSUME IInv, Next PROVE OneAccountPerAddress'
<1>1. TypeOK /\ OneAccountPerAddress
  BY DEF IInv
<1>2. CASE UNCHANGED users
  BY <1>1, <1>2, WorkspacesStep DEF OneAccountPerAddress
<1>3. ASSUME NEW r \in Requests, InsertUser(r), ~ UNCHANGED users PROVE OneAccountPerAddress'
  <2> DEFINE n == [id |-> r, email |-> req[r].email, password |-> r, status |-> "unverified"]
  <2>1. AddressFree(n.email) /\ users' = users \cup {n}
    BY <1>3 DEF InsertUser
  <2>2. \A u \in users : u.email # n.email
    BY <2>1 DEF AddressFree, OfAddress
  <2>3. \A u, v \in users' : u.email = v.email => u = v
    BY <1>1, <2>1, <2>2 DEF OneAccountPerAddress
  <2> QED
    BY <2>3, WorkspacesStep DEF OneAccountPerAddress
<1>4. ASSUME NEW r \in Requests, WriteUser(r) PROVE OneAccountPerAddress'
  <2> DEFINE W(u) == IF u.email = req[r].email THEN Written(u, r) ELSE u
  <2>1. users' = {W(u) : u \in users}
    BY <1>4 DEF WriteUser
  <2>2. \A u \in users : W(u).email = u.email
    BY <1>1 DEF TypeOK, User, Written
  <2>3. \A u, v \in users : u.email = v.email => u = v
    BY <1>1 DEF OneAccountPerAddress
  <2> HIDE DEF W
  <2>4. \A u, v \in users' : u.email = v.email => u = v
    BY <2>1, <2>2, <2>3
  <2> QED
    BY <2>4, WorkspacesStep DEF OneAccountPerAddress
<1> QED
  BY <1>2, <1>3, <1>4
  DEF Next, Tables, StartSignup, InsertWorkspace, InsertMember, StartResend, StartForgot, StartIssue, ClearLinks, IssueLink,
      SendMail, StartVerify, StartReset, StartOpen, BurnLink, Fail, Expire, SignIn

\* Only ClearLinks lets a request issue, and only IssueLink adds a live link.
FewerLive == \A k \in Kinds, e \in Emails : Live(k, e)' \subseteq Live(k, e)
FewerIssuing == \A k \in Kinds, e \in Emails : Issuing(k, e)' \subseteq Issuing(k, e)

LEMMA FewerLiveStep ==
  ASSUME IInv, Next, \A r \in Requests : ~ IssueLink(r)
  PROVE  FewerLive
<1>1. LinksKept /\ TypeOK
  BY LinksKeptStep DEF IInv
<1>2. Links' = Links
  <2>1. CASE UNCHANGED link
    BY <2>1 DEF Links
  <2>2. ASSUME NEW r \in Requests, ClearLinks(r) PROVE Links' = Links
    <3>1. PICK k, e : link' = [l \in Links |-> IF l \in Replaced(k, e) THEN [link[l] EXCEPT !.state = "replaced"] ELSE link[l]]
      BY <2>2 DEF ClearLinks
    <3> QED
      BY <3>1, LinkStep DEF Links, IInv, TypeOK
  <2>3. ASSUME NEW l, NEW x, link' = [link EXCEPT ![l] = x] PROVE Links' = Links
    BY <1>1, <2>3, LinkStep DEF Links, TypeOK
  <2>4. ASSUME NEW r \in Requests, SendMail(r) PROVE Links' = Links
    <3>1. PICK m : link' = [link EXCEPT ![req[r].link] = [link[req[r].link] EXCEPT !.mail = m]]
      BY <2>4 DEF SendMail
    <3> QED
      BY <2>3, <3>1
  <2>5. ASSUME NEW r \in Requests, BurnLink(r) PROVE Links' = Links
    <3>1. link' = [link EXCEPT ![req[r].link] = [link[req[r].link] EXCEPT !.state = "burned"]]
      BY <2>5 DEF BurnLink, Burnt
    <3> QED
      BY <2>3, <3>1
  <2>6. ASSUME NEW l \in Links, Expire(l) PROVE Links' = Links
    <3>1. link' = [link EXCEPT ![l] = [link[l] EXCEPT !.age = "expired"]]
      BY <2>6 DEF Expire
    <3> QED
      BY <2>3, <3>1
  <2> QED
    BY <2>1, <2>2, <2>4, <2>5, <2>6
    DEF Next, StartSignup, InsertUser, InsertWorkspace, InsertMember, StartResend, StartForgot, StartIssue,
        StartVerify, StartReset, StartOpen, WriteUser, Fail, SignIn
<1> QED
  BY <1>1, <1>2 DEF FewerLive, Live, LinksKept

LEMMA FewerIssuingStep ==
  ASSUME IInv, Next, \A r \in Requests : ~ ClearLinks(r)
  PROVE  FewerIssuing
<1>1. TypeOK
  BY DEF IInv
<1>2. ASSUME NEW r \in Requests, Alone(r), req'[r].at # "issue" PROVE FewerIssuing
  BY <1>2 DEF FewerIssuing, Issuing, Alone, At
<1>3. ASSUME NEW r \in Requests, NEW a, Answers(r, a) PROVE FewerIssuing
  BY <1>1, <1>2, <1>3, AnswersEffect
<1>4. ASSUME NEW r \in Requests, NEW s \in {"workspace", "member", "clear", "write"}, Goes(r, s) PROVE FewerIssuing
  BY <1>1, <1>2, <1>4, GoesEffect
<1>5. ASSUME NEW r \in Requests, StartSignup(r) PROVE FewerIssuing
  BY <1>1, <1>2, <1>5, SignupEffect
<1>6. ASSUME NEW r \in Requests, NEW op \in {"resend", "forgot"}, StartIssue(r, op) PROVE FewerIssuing
  BY <1>1, <1>2, <1>6, IssueEffect
<1>7. ASSUME NEW r \in Requests, NEW op \in {"verify", "reset"}, StartOpen(r, op) PROVE FewerIssuing
  BY <1>1, <1>2, <1>7, OpenEffect
<1>8. ASSUME NEW r \in Requests, InsertUser(r) \/ InsertWorkspace(r) \/ InsertMember(r) \/ BurnLink(r)
      PROVE  FewerIssuing
  BY <1>3, <1>4, <1>8 DEF InsertUser, InsertWorkspace, InsertMember, BurnLink
<1>9. ASSUME NEW r \in Requests, IssueLink(r) PROVE FewerIssuing
  BY <1>1, <1>2, <1>9, MailEffect
<1>10. ASSUME NEW r \in Requests, SendMail(r) \/ WriteUser(r) \/ Fail(r) PROVE FewerIssuing
  BY <1>3, <1>10 DEF SendMail, WriteUser, Fail
<1>11. CASE UNCHANGED req
  BY <1>11 DEF FewerIssuing, Issuing, At
<1> QED
  BY <1>5, <1>6, <1>7, <1>8, <1>9, <1>10, <1>11
  DEF Next, StartResend, StartForgot, StartVerify, StartReset, Expire, SignIn

\* Who issues alone leaves one live link behind.
LEMMA OneIssueStep == ASSUME IInv, Next PROVE OneIssue' /\ OneLiveLink'
<1> DEFINE Fine(k, e) ==
      /\ \A r, s \in Issuing(k, e) : r = s
      /\ Issuing(k, e) # {} => Live(k, e) = {}
      /\ \A l, m \in Live(k, e) : l = m
<1>1. LinksKept /\ TypeOK /\ Addressed
  BY LinksKeptStep DEF IInv
<1>2. \A k \in Kinds, e \in Emails : <<k, e>> \notin overlap => Fine(k, e)
  BY DEF IInv, OneIssue, OneLiveLink, Identifier
<1>3. ASSUME \A k \in Kinds, e \in Emails : <<k, e>> \notin overlap' => Fine(k, e)' PROVE OneIssue' /\ OneLiveLink'
  BY <1>3 DEF OneIssue, OneLiveLink, Identifier
<1>4. overlap \subseteq overlap'
  BY DEF Next, StartSignup, InsertUser, InsertWorkspace, InsertMember, StartResend, StartForgot, StartIssue, ClearLinks,
         IssueLink, SendMail, StartVerify, StartReset, StartOpen, BurnLink, WriteUser, Fail, Expire, SignIn, Histories
<1>5. CASE FewerLive /\ FewerIssuing
  <2>1. \A k \in Kinds, e \in Emails : Fine(k, e) => Fine(k, e)'
    BY <1>5 DEF FewerLive, FewerIssuing
  <2> HIDE DEF Fine
  <2> QED
    BY <1>2, <1>3, <1>4, <2>1
<1>6. ASSUME NEW r \in Requests, ClearLinks(r) PROVE OneIssue' /\ OneLiveLink'
  <2>0. PICK k0 \in Kinds, e0 \in Emails : k0 = Kind(req[r].op) /\ e0 = req[r].email
    BY <1>1, <1>6 DEF ClearLinks, At, Addressed, AddressedAt, Kind, Kinds
  <2>1. Goes(r, "issue")
    BY <1>6 DEF ClearLinks
  <2>2. Alone(r) /\ SameButAt(r) /\ req'[r].at = "issue"
    BY <1>1, <2>1, GoesEffect
  <2>3. \A k \in Kinds, e \in Emails : Issuing(k, e)' \subseteq Issuing(k, e) \cup {r}
    BY <2>2 DEF Issuing, Alone, At
  <2>4. \A k \in Kinds, e \in Emails : <<k, e>> # <<k0, e0>> => r \notin Issuing(k, e)'
    BY <2>0, <2>2 DEF Issuing, SameButAt
  <2>5. \A x \in Requests : ~ IssueLink(x)
    <3>1. ASSUME NEW x \in Requests, IssueLink(x) PROVE FALSE
      <4>1. Alone(x) /\ req'[x].at = "mail" /\ req[x].at = "issue"
        BY <1>1, <3>1, MailEffect DEF IssueLink, At
      <4>2. req[r].at = "clear"
        BY <1>6 DEF ClearLinks, At
      <4> QED
        BY <2>2, <4>1, <4>2 DEF Alone
    <3> QED
      BY <3>1
  <2>6. FewerLive
    BY <2>5, FewerLiveStep
  <2>7. Live(k0, e0)' = {}
    <3>1. link' = [l \in Links |-> IF l \in Live(k0, e0) THEN [link[l] EXCEPT !.state = "replaced"] ELSE link[l]]
      BY <1>6, <2>0 DEF ClearLinks, Replaced
    <3>2. \A l \in Live(k0, e0) : l \in Links /\ link[l] \in Link
      BY <1>1, LinkTyped DEF Live
    <3>3. \A l \in Live(k0, e0) : link'[l].state # "live"
      BY <3>1, <3>2 DEF Link
    <3>4. Live(k0, e0)' \subseteq Live(k0, e0)
      BY <2>6 DEF FewerLive
    <3> QED
      BY <3>3, <3>4 DEF Live
  <2>8. overlap' = IF Issuing(k0, e0) = {} THEN overlap ELSE overlap \cup {<<k0, e0>>}
    BY <1>6, <2>0 DEF ClearLinks
  <2>9. ASSUME NEW k \in Kinds, NEW e \in Emails, <<k, e>> \notin overlap' PROVE Fine(k, e)'
    <3>1. Live(k, e)' \subseteq Live(k, e)
      BY <2>6 DEF FewerLive
    <3>2. Fine(k, e)
      BY <1>2, <1>4, <2>9
    <3>3. CASE <<k, e>> = <<k0, e0>>
      <4>1. k = k0 /\ e = e0
        BY <3>3
      <4>2. Issuing(k, e) = {} /\ Live(k, e)' = {}
        BY <2>7, <2>8, <2>9, <4>1
      <4>3. Issuing(k, e)' \subseteq {r}
        BY <2>3, <4>2
      <4> QED
        BY <4>2, <4>3
    <3>4. CASE <<k, e>> # <<k0, e0>>
      <4>1. Issuing(k, e)' \subseteq Issuing(k, e)
        BY <2>3, <2>4, <3>4
      <4> QED
        BY <3>1, <3>2, <4>1
    <3> QED
      BY <3>3, <3>4
  <2> HIDE DEF Fine
  <2> QED
    BY <1>3, <2>9
<1>7. ASSUME NEW r \in Requests, IssueLink(r) PROVE OneIssue' /\ OneLiveLink'
  <2>0. PICK k0 \in Kinds, e0 \in Emails : k0 = Kind(req[r].op) /\ e0 = req[r].email
    BY <1>1, <1>7 DEF IssueLink, At, Addressed, AddressedAt, Kind, Kinds
  <2> DEFINE n == Len(link) + 1
  <2>1. link' = Append(link, NewLink(req[r])) /\ UNCHANGED overlap
    BY <1>7 DEF IssueLink, Histories
  <2>2. r \in Issuing(k0, e0)
    BY <1>7, <2>0 DEF IssueLink, Issuing
  <2>3. \A x \in Requests : ~ ClearLinks(x)
    <3>1. Alone(r) /\ req'[r].at = "mail" /\ req[r].at = "issue"
      BY <1>1, <1>7, MailEffect DEF IssueLink, At
    <3>2. ASSUME NEW x \in Requests, ClearLinks(x) PROVE FALSE
      <4>1. Alone(x) /\ req'[x].at = "issue" /\ req[x].at = "clear"
        BY <1>1, <3>2, GoesEffect DEF ClearLinks, At
      <4> QED
        BY <3>1, <4>1 DEF Alone
    <3> QED
      BY <3>2
  <2>4. FewerIssuing
    BY <2>3, FewerIssuingStep
  <2>5. r \notin Issuing(k0, e0)'
    BY <1>1, <1>7, MailEffect DEF Issuing, At
  <2>6. NewLink(req[r]).kind = k0 /\ NewLink(req[r]).email = e0
    BY <2>0 DEF NewLink
  <2>7. \A k \in Kinds, e \in Emails : Live(k, e)' \subseteq Live(k, e) \cup (IF <<k, e>> = <<k0, e0>> THEN {n} ELSE {})
    <3>1. Links' = Links \cup {n} /\ link'[n] = NewLink(req[r]) /\ \A l \in Links : link'[l] = link[l]
      BY <1>1, <2>1 DEF Links, TypeOK
    <3> HIDE DEF n
    <3> QED
      BY <2>6, <3>1 DEF Live
  <2> HIDE DEF n
  <2>8. ASSUME NEW k \in Kinds, NEW e \in Emails, <<k, e>> \notin overlap' PROVE Fine(k, e)'
    <3>1. Fine(k, e)
      BY <1>2, <2>1, <2>8
    <3>2. Issuing(k, e)' \subseteq Issuing(k, e)
      BY <2>4 DEF FewerIssuing
    <3>3. CASE <<k, e>> = <<k0, e0>>
      <4>1. k = k0 /\ e = e0
        BY <3>3
      <4>2. Live(k, e) = {} /\ Issuing(k, e) = {r}
        BY <2>2, <3>1, <4>1
      <4>3. Live(k, e)' \subseteq {n}
        BY <2>7, <3>3, <4>2
      <4>4. Issuing(k, e)' = {}
        BY <2>5, <3>2, <4>1, <4>2
      <4> QED
        BY <4>3, <4>4
    <3>4. CASE <<k, e>> # <<k0, e0>>
      <4>1. Live(k, e)' \subseteq Live(k, e)
        BY <2>7, <3>4
      <4> QED
        BY <3>1, <3>2, <4>1
    <3> QED
      BY <3>3, <3>4
  <2> HIDE DEF Fine
  <2> QED
    BY <1>3, <2>8
<1> QED
  BY <1>5, <1>6, <1>7, FewerLiveStep, FewerIssuingStep

\* What keeps the links spent: nobody new holds one, and nobody writes.
LEMMA SpentKept ==
  ASSUME IInv, Next, UNCHANGED uses, together \subseteq together',
         \A l \in 1..MaxLinks : Holders(l)' \subseteq Holders(l),
         \A r \in Requests : req'[r].at = "write" => req[r].at = "write" /\ req'[r].link = req[r].link
  PROVE  SpentLinks' /\ LinkWorksOnce'
<1>1. LinksKept /\ TypeOK /\ Addressed /\ SpentLinks /\ LinkWorksOnce
  BY LinksKeptStep DEF IInv
<1>2. \A l \in Links' : l \in 1..MaxLinks
  BY LinkStep DEF Links
<1>3. \A l \in 1..MaxLinks : uses'[l] # {} => l \in Links /\ l \in Links'
  BY <1>1 DEF SpentLinks, LinksKept
<1>4. ASSUME NEW l \in Links' \ together'
      PROVE  /\ \A r, s \in Holders(l)' : r = s
             /\ \A r \in Holders(l)' : req'[r].at = "write" => link'[l].state # "live"
             /\ uses'[l] # {} => link'[l].state # "live" /\ Holders(l)' = {}
             /\ \A r, s \in uses'[l] : r = s
  <2>1. Holders(l)' \subseteq Holders(l) /\ l \notin together /\ l \in 1..MaxLinks
    BY <1>2
  <2>2. CASE l \in Links
    <3>1. link'[l].state = "live" => link[l].state = "live"
      BY <1>1, <2>2 DEF LinksKept
    <3>2. /\ \A r, s \in Holders(l) : r = s
          /\ \A r \in Holders(l) : req[r].at = "write" => link[l].state # "live"
          /\ uses[l] # {} => link[l].state # "live" /\ Holders(l) = {}
          /\ \A r, s \in uses[l] : r = s
      BY <1>1, <2>1, <2>2 DEF SpentLinks, LinkWorksOnce
    <3>3. \A r \in Holders(l)' : r \in Requests
      BY DEF Holders
    <3> QED
      BY <2>1, <3>1, <3>2, <3>3
  <2>3. CASE l \notin Links
    <3>1. Holders(l) = {} /\ uses[l] = {}
      BY <1>1, <2>1, <2>3 DEF Addressed, AddressedAt, Holders, SpentLinks
    <3> QED
      BY <2>1, <3>1
  <2> QED
    BY <2>2, <2>3
<1> QED
  BY <1>3, <1>4 DEF SpentLinks, LinkWorksOnce

LEMMA SpentStep == ASSUME IInv, Next PROVE SpentLinks' /\ LinkWorksOnce'
<1> DEFINE Spent == SpentLinks' /\ LinkWorksOnce'
<1>1. LinksKept /\ TypeOK /\ Addressed /\ SpentLinks /\ LinkWorksOnce
  BY LinksKeptStep DEF IInv
<1>2. ASSUME NEW r \in Requests, Alone(r), req'[r].at \notin {"burn", "write"}, UNCHANGED uses, together \subseteq together'
      PROVE  Spent
  <2>1. \A l \in 1..MaxLinks : Holders(l)' \subseteq Holders(l)
    BY <1>2 DEF Holders, Alone
  <2>2. \A x \in Requests : req'[x].at = "write" => req[x].at = "write" /\ req'[x].link = req[x].link
    BY <1>2 DEF Alone
  <2> QED
    BY <1>2, <2>1, <2>2, SpentKept
<1>3. ASSUME NEW r \in Requests, NEW a, Answers(r, a), UNCHANGED <<uses, together>> PROVE Spent
  <2>1. Alone(r) /\ req'[r].at = "over"
    BY <1>1, <1>3, AnswersEffect
  <2> QED
    BY <1>2, <1>3, <2>1
<1>4. ASSUME NEW r \in Requests, NEW s \in {"workspace", "member", "clear", "issue"}, Goes(r, s), UNCHANGED <<uses, together>>
      PROVE  Spent
  <2>1. Alone(r) /\ req'[r].at = s
    BY <1>1, <1>4, GoesEffect
  <2> QED
    BY <1>2, <1>4, <2>1
<1>5. ASSUME NEW r \in Requests, StartSignup(r) PROVE Spent
  <2>1. Alone(r) /\ req'[r].at \in {"user", "over"} /\ UNCHANGED <<uses, together>>
    BY <1>1, <1>5, SignupEffect DEF StartSignup, Histories
  <2> QED
    BY <1>2, <2>1
<1>6. ASSUME NEW r \in Requests, NEW op \in {"resend", "forgot"}, StartIssue(r, op) PROVE Spent
  <2>1. Alone(r) /\ req'[r].at \in {"clear", "over"} /\ UNCHANGED <<uses, together>>
    BY <1>1, <1>6, IssueEffect DEF StartIssue, Histories
  <2> QED
    BY <1>2, <2>1
<1>7. ASSUME NEW r \in Requests, InsertUser(r) \/ InsertWorkspace(r) \/ InsertMember(r) \/ ClearLinks(r) PROVE Spent
  BY <1>3, <1>4, <1>7 DEF InsertUser, InsertWorkspace, InsertMember, ClearLinks, Histories
<1>8. ASSUME NEW r \in Requests, IssueLink(r) PROVE Spent
  <2>1. Alone(r) /\ req'[r].at = "mail" /\ UNCHANGED <<uses, together>>
    BY <1>1, <1>8, MailEffect DEF IssueLink, Histories
  <2> QED
    BY <1>2, <2>1
<1>9. ASSUME NEW r \in Requests, SendMail(r) \/ Fail(r) PROVE Spent
  BY <1>3, <1>9 DEF SendMail, Fail, Histories
<1>10. ASSUME NEW r \in Requests, NEW op \in {"verify", "reset"}, StartOpen(r, op) PROVE Spent
  <2>1. PICK l \in Links : l = req'[r].link
    BY <1>1, <1>10, OpenEffect
  <2>2. /\ Alone(r) /\ UNCHANGED <<link, uses>> /\ At(r, "new")
        /\ \/ req'[r].at = "burn" /\ link[l].state = "live"
           \/ req'[r].at = "over"
        /\ together' = IF \E x \in Requests : At(x, "burn") /\ req[x].link = l THEN together \cup {l} ELSE together
    BY <1>1, <1>10, <2>1, OpenEffect DEF StartOpen, RowFound
  <2>3. CASE req'[r].at = "over"
    BY <1>2, <2>2, <2>3
  <2>4. CASE req'[r].at = "burn"
    <3>1. \A k \in 1..MaxLinks : Holders(k)' \subseteq Holders(k) \cup (IF k = l THEN {r} ELSE {})
      BY <2>1, <2>2 DEF Holders, Alone
    <3>2. l \notin together' => Holders(l) = {} /\ uses[l] = {}
      <4>1. SUFFICES ASSUME l \notin together' PROVE Holders(l) = {} /\ uses[l] = {}
        OBVIOUS
      <4>2. l \notin together /\ \A x \in Requests : req[x].link = l => req[x].at # "burn"
        BY <2>2, <4>1 DEF At
      <4>3. \A x \in Holders(l) : req[x].at = "write" /\ x \in Requests
        BY <4>2 DEF Holders
      <4> QED
        BY <1>1, <2>2, <2>4, <4>2, <4>3 DEF SpentLinks
    <3>3. Links' = Links /\ \A k \in Links : link'[k] = link[k] /\ k \in 1..MaxLinks
      BY <1>1, <2>2 DEF Links, TypeOK
    <3>4. \A x \in Requests : req'[x].at = "write" => req[x].at = "write"
      BY <2>2, <2>4 DEF Alone
    <3>5. ASSUME NEW k \in Links \ together'
          PROVE  /\ \A x, y \in Holders(k)' : x = y
                 /\ \A x \in Holders(k)' : req'[x].at = "write" => link'[k].state # "live"
                 /\ uses'[k] # {} => link'[k].state # "live" /\ Holders(k)' = {}
                 /\ \A x, y \in uses'[k] : x = y
      <4>1. k \in 1..MaxLinks /\ link'[k] = link[k] /\ uses'[k] = uses[k] /\ k \in Links \ together
        BY <2>2, <3>3
      <4>2. /\ \A x, y \in Holders(k) : x = y
            /\ \A x \in Holders(k) : req[x].at = "write" => link[k].state # "live"
            /\ uses[k] # {} => link[k].state # "live" /\ Holders(k) = {}
            /\ \A x, y \in uses[k] : x = y
        BY <1>1, <4>1 DEF SpentLinks, LinkWorksOnce
      <4>3. CASE k = l
        <5>1. Holders(k)' \subseteq {r} /\ uses'[k] = {}
          BY <3>1, <3>2, <3>5, <4>1, <4>3
        <5> QED
          BY <2>4, <5>1
      <4>4. CASE k # l
        <5>1. Holders(k)' \subseteq Holders(k)
          BY <3>1, <4>1, <4>4
        <5>2. \A x \in Holders(k)' : x \in Requests
          BY DEF Holders
        <5> QED
          BY <3>4, <4>1, <4>2, <5>1, <5>2
      <4> QED
        BY <4>3, <4>4
    <3> QED
      BY <1>1, <2>2, <3>3, <3>5 DEF SpentLinks, LinkWorksOnce
  <2> QED
    BY <2>2, <2>3, <2>4
<1>11. ASSUME NEW r \in Requests, BurnLink(r) PROVE Spent
  <2>1. UNCHANGED <<uses, together>> /\ (Answers(r, "refused") \/ Goes(r, "write")) /\ At(r, "burn")
    BY <1>11 DEF BurnLink, Histories
  <2>2. CASE Goes(r, "write")
    <3>1. PICK l \in Links : l = req[r].link
      BY <1>1, <2>1 DEF At, Addressed, AddressedAt
    <3>2. Alone(r) /\ req'[r].at = "write" /\ req'[r].link = l
      BY <1>1, <2>2, <3>1, GoesEffect DEF SameButAt
    <3>3. link' = [link EXCEPT ![l] = [link[l] EXCEPT !.state = "burned"]]
      BY <1>11, <3>1 DEF BurnLink, Burnt
    <3>4. Links' = Links /\ link'[l].state = "burned" /\ \A k \in Links : k \in 1..MaxLinks
      <4>1. link \in Seq(Link) /\ link[l] \in Link /\ Len(link) <= MaxLinks
        BY <1>1, <3>1, LinkTyped DEF TypeOK
      <4> QED
        BY <1>1, <3>1, <3>3, <4>1, LinkStep DEF Links, Link
    <3>5. \A k \in 1..MaxLinks : Holders(k)' = Holders(k)
      BY <2>1, <3>1, <3>2 DEF Holders, Alone, At
    <3>6. \A x \in Requests, k \in Links : x \in Holders(k) /\ req'[x].at = "write" => (req[x].at = "write" \/ k = l)
      BY <3>1, <3>2 DEF Alone, Holders
    <3>7. ASSUME NEW k \in Links \ together
          PROVE  /\ \A x, y \in Holders(k)' : x = y
                 /\ \A x \in Holders(k)' : req'[x].at = "write" => link'[k].state # "live"
                 /\ uses'[k] # {} => link'[k].state # "live" /\ Holders(k)' = {}
      <4>1. Holders(k)' = Holders(k) /\ uses'[k] = uses[k] /\ (link'[k].state = "live" => link[k].state = "live")
        BY <1>1, <2>1, <3>4, <3>5 DEF LinksKept
      <4>2. /\ \A x, y \in Holders(k) : x = y
            /\ \A x \in Holders(k) : req[x].at = "write" => link[k].state # "live"
            /\ uses[k] # {} => link[k].state # "live" /\ Holders(k) = {}
        BY <1>1 DEF SpentLinks
      <4>3. \A x \in Holders(k) : x \in Requests
        BY DEF Holders
      <4> QED
        BY <3>4, <3>6, <4>1, <4>2, <4>3
    <3> QED
      BY <1>1, <2>1, <3>4, <3>7 DEF SpentLinks, LinkWorksOnce
  <2> QED
    BY <1>3, <2>1, <2>2
<1>12. ASSUME NEW r \in Requests, WriteUser(r) PROVE Spent
  <2>1. PICK l \in Links : l = req[r].link
    BY <1>1, <1>12 DEF WriteUser, At, Addressed, AddressedAt
  <2>2. /\ uses' = [uses EXCEPT ![l] = uses[l] \cup {r}] /\ UNCHANGED <<link, together>>
        /\ Answers(r, "ok") /\ req[r].at = "write"
    BY <1>12, <2>1 DEF WriteUser, At
  <2>3. Alone(r) /\ req'[r].at = "over"
    BY <1>1, <2>2, AnswersEffect
  <2>4. Links' = Links /\ \A k \in Links : k \in 1..MaxLinks
    BY <1>1, <2>2 DEF Links, TypeOK
  <2>5. \A k \in 1..MaxLinks : uses'[k] = IF k = l THEN uses[k] \cup {r} ELSE uses[k]
    BY <1>1, <2>2 DEF TypeOK
  <2>6. \A k \in 1..MaxLinks : Holders(k)' = Holders(k) \ {r}
    BY <2>3 DEF Holders, Alone
  <2>7. r \in Holders(l)
    BY <2>1, <2>2 DEF Holders
  <2>8. ASSUME NEW k \in Links \ together
        PROVE  /\ \A x, y \in Holders(k)' : x = y
               /\ \A x \in Holders(k)' : req'[x].at = "write" => link'[k].state # "live"
               /\ uses'[k] # {} => link'[k].state # "live" /\ Holders(k)' = {}
               /\ \A x, y \in uses'[k] : x = y
    <3>1. /\ \A x, y \in Holders(k) : x = y
          /\ \A x \in Holders(k) : req[x].at = "write" => link[k].state # "live"
          /\ uses[k] # {} => link[k].state # "live" /\ Holders(k) = {}
          /\ \A x, y \in uses[k] : x = y
      BY <1>1 DEF SpentLinks, LinkWorksOnce
    <3>2. Holders(k)' = Holders(k) \ {r} /\ link'[k] = link[k] /\ uses'[k] = IF k = l THEN uses[k] \cup {r} ELSE uses[k]
      BY <2>2, <2>4, <2>5, <2>6
    <3>3. \A x \in Holders(k)' : x \in Requests /\ x # r
      BY <3>2 DEF Holders
    <3>4. CASE k = l
      <4>1. uses[k] = {} /\ Holders(k) = {r} /\ link[k].state # "live"
        <5>1. r \in Holders(k) /\ req[r].at = "write"
          BY <2>2, <2>7, <3>4
        <5>2. Holders(k) = {r}
          BY <3>1, <5>1
        <5> QED
          BY <3>1, <5>1, <5>2
      <4>2. uses'[k] = {r} /\ Holders(k)' = {}
        BY <3>2, <3>4, <4>1
      <4> QED
        BY <3>2, <4>1, <4>2
    <3>5. CASE k # l
      BY <2>3, <3>1, <3>2, <3>3, <3>5 DEF Alone
    <3> QED
      BY <3>4, <3>5
  <2>9. \A k \in 1..MaxLinks : uses'[k] # {} => k \in Links'
    BY <1>1, <2>4, <2>5 DEF SpentLinks
  <2> QED
    BY <2>2, <2>4, <2>8, <2>9 DEF SpentLinks, LinkWorksOnce
<1>13. CASE UNCHANGED req
  <2>1. UNCHANGED <<uses, together>>
    <3>1. \A r \in Requests : ~ WriteUser(r)
      <4>1. ASSUME NEW r \in Requests, WriteUser(r) PROVE FALSE
        BY <1>1, <1>13, <4>1, AnswersEffect DEF WriteUser, At
      <4> QED
        BY <4>1
    <3>2. \A r \in Requests, op \in {"verify", "reset"} : ~ StartOpen(r, op)
      <4>1. ASSUME NEW r \in Requests, NEW op \in {"verify", "reset"}, StartOpen(r, op) PROVE FALSE
        <5>1. req'[r].at \in {"burn", "over"}
          BY <1>1, <4>1, OpenEffect
        <5>2. req[r].at = "new"
          BY <4>1 DEF StartOpen, At
        <5> QED
          BY <1>13, <5>1, <5>2
      <4> QED
        BY <4>1
    <3> QED
      BY <3>1, <3>2
      DEF Next, StartSignup, InsertUser, InsertWorkspace, InsertMember, StartResend, StartForgot, StartIssue, ClearLinks,
          IssueLink, SendMail, StartVerify, StartReset, BurnLink, Fail, Expire, SignIn, Histories
  <2>2. \A l \in 1..MaxLinks : Holders(l)' \subseteq Holders(l)
    BY <1>13 DEF Holders
  <2> QED
    BY <1>13, <2>1, <2>2, SpentKept
<1> QED
  BY <1>5, <1>6, <1>7, <1>8, <1>9, <1>10, <1>11, <1>12, <1>13
  DEF Next, StartResend, StartForgot, StartVerify, StartReset, Expire, SignIn

\* Whoever has signed in has a verified account.
SessionsVerified == \A id \in sessions : \E u \in users : u.id = id /\ u.status = "verified"

LEMMA SessionsStep == ASSUME IInv, Next PROVE SessionsVerified'
<1>1. TypeOK /\ SessionsVerified
  BY DEF IInv, ChangedByItsLink, SessionsVerified
<1>2. CASE sessions' = sessions /\ users \subseteq users'
  BY <1>1, <1>2 DEF SessionsVerified
<1>3. ASSUME NEW r \in Requests, WriteUser(r) PROVE SessionsVerified'
  <2>1. users' = {IF u.email = req[r].email THEN Written(u, r) ELSE u : u \in users} /\ UNCHANGED sessions
    BY <1>3 DEF WriteUser
  <2>2. ASSUME NEW u \in users, u.status = "verified"
        PROVE  Written(u, r).id = u.id /\ Written(u, r).status = "verified"
    <3>1. u \in User
      BY <1>1 DEF TypeOK
    <3> QED
      BY <2>2, <3>1 DEF Written, User
  <2>3. ASSUME NEW id \in sessions PROVE \E v \in users' : v.id = id /\ v.status = "verified"
    <3>1. PICK u \in users : u.id = id /\ u.status = "verified"
      BY <1>1, <2>3 DEF SessionsVerified
    <3> DEFINE v == IF u.email = req[r].email THEN Written(u, r) ELSE u
    <3>2. v \in users'
      BY <2>1, <3>1
    <3>3. v.id = id /\ v.status = "verified"
      BY <2>2, <3>1
    <3> QED
      BY <3>2, <3>3
  <2> QED
    BY <2>1, <2>3 DEF SessionsVerified
<1>4. CASE SignIn
  BY <1>1, <1>4 DEF SignIn, SessionsVerified, Tables
<1>5. ASSUME NEW r \in Requests, InsertUser(r) PROVE SessionsVerified'
  BY <1>2, <1>5 DEF InsertUser
<1> QED
  BY <1>2, <1>3, <1>4, <1>5
  DEF Next, StartSignup, InsertWorkspace, InsertMember, StartResend, StartForgot, StartIssue, ClearLinks, IssueLink,
      SendMail, StartVerify, StartReset, StartOpen, BurnLink, Fail, Expire, Tables

LEMMA ChangedStep == ASSUME IInv, Next PROVE ChangedByItsLink'
<1> DEFINE ByLink(u, us) ==
      /\ u.status = "verified" => \E l \in Links : us[l] # {} /\ link[l].kind = "verify" /\ link[l].email = u.email
      /\ u.password # u.id => \E l \in Links : u.password \in us[l] /\ link[l].kind = "reset" /\ link[l].email = u.email
      ByLinkNext(u) ==
      /\ u.status = "verified" => \E l \in Links' : uses'[l] # {} /\ link'[l].kind = "verify" /\ link'[l].email = u.email
      /\ u.password # u.id => \E l \in Links' : u.password \in uses'[l] /\ link'[l].kind = "reset" /\ link'[l].email = u.email
<1>1. LinksKept /\ TypeOK /\ Addressed /\ ChangedByItsLink
  BY LinksKeptStep DEF IInv
<1>2. ASSUME NEW u, ByLink(u, uses') PROVE ByLinkNext(u)
  <2>1. u.status = "verified" => \E l \in Links' : uses'[l] # {} /\ link'[l].kind = "verify" /\ link'[l].email = u.email
    BY <1>1, <1>2 DEF LinksKept
  <2>2. u.password # u.id => \E l \in Links' : u.password \in uses'[l] /\ link'[l].kind = "reset" /\ link'[l].email = u.email
    BY <1>1, <1>2 DEF LinksKept
  <2> QED
    BY <2>1, <2>2
<1>3. \A u \in users : ByLink(u, uses)
  BY <1>1 DEF ChangedByItsLink
<1>4. ASSUME \A u \in users' : ByLink(u, uses') PROVE ChangedByItsLink'
  <2>1. \A u \in users' : ByLinkNext(u)
    BY <1>2, <1>4
  <2>2. SessionsVerified'
    BY SessionsStep
  <2> QED
    BY <2>1, <2>2 DEF ChangedByItsLink, SessionsVerified
<1>5. CASE UNCHANGED <<users, uses>>
  <2> HIDE DEF ByLink
  <2> QED
    BY <1>3, <1>4, <1>5
<1>6. ASSUME NEW r \in Requests, InsertUser(r) PROVE ChangedByItsLink'
  <2> DEFINE n == [id |-> r, email |-> req[r].email, password |-> r, status |-> "unverified"]
  <2>1. UNCHANGED uses /\ users' \subseteq users \cup {n}
    BY <1>6 DEF InsertUser, Histories
  <2>2. ByLink(n, uses)
    OBVIOUS
  <2> HIDE DEF ByLink, n
  <2> QED
    BY <1>3, <1>4, <2>1, <2>2
<1>7. ASSUME NEW r \in Requests, WriteUser(r) PROVE ChangedByItsLink'
  <2>1. PICK l \in Links : l = req[r].link
    BY <1>1, <1>7 DEF WriteUser, At, Addressed, AddressedAt
  <2>2. /\ req[r].op \in {"verify", "reset"}
        /\ link[l].kind = Kind(req[r].op) /\ link[l].email = req[r].email
    BY <1>1, <1>7, <2>1 DEF WriteUser, At, Addressed, AddressedAt
  <2>3. \A k \in Links : k \in 1..MaxLinks
    BY <1>1 DEF Links, TypeOK
  <2>4. \A k \in Links : uses[k] \subseteq uses'[k] /\ (k = l => r \in uses'[k])
    <3>1. uses' = [uses EXCEPT ![l] = uses[l] \cup {r}]
      BY <1>7, <2>1 DEF WriteUser
    <3> QED
      BY <1>1, <2>3, <3>1 DEF TypeOK
  <2>5. users' = {IF u.email = req[r].email THEN Written(u, r) ELSE u : u \in users}
    BY <1>7 DEF WriteUser
  <2>6. ASSUME NEW u \in users PROVE ByLink(u, uses')
    BY <1>3, <2>4, <2>6
  <2>7. ASSUME NEW u \in users, u.email = req[r].email PROVE ByLink(Written(u, r), uses')
    <3>1. u \in User
      BY <1>1 DEF TypeOK
    <3>2. CASE req[r].op = "verify"
      <4>1. link[l].kind = "verify" /\ r \in uses'[l]
        BY <2>2, <2>4, <3>2 DEF Kind
      <4>2. Written(u, r) = [u EXCEPT !.status = "verified"]
        BY <3>2 DEF Written
      <4>3. /\ Written(u, r).email = u.email /\ Written(u, r).id = u.id /\ Written(u, r).password = u.password
        BY <3>1, <4>2 DEF User
      <4> HIDE DEF Written
      <4>4. \E k \in Links : uses'[k] # {} /\ link[k].kind = "verify" /\ link[k].email = Written(u, r).email
        BY <2>2, <2>7, <4>1, <4>3
      <4>5. Written(u, r).password # Written(u, r).id =>
              \E k \in Links : Written(u, r).password \in uses'[k] /\ link[k].kind = "reset"
                                 /\ link[k].email = Written(u, r).email
        BY <2>6, <4>3
      <4> QED
        BY <4>4, <4>5
    <3>3. CASE req[r].op = "reset"
      <4>1. link[l].kind = "reset" /\ r \in uses'[l]
        BY <2>2, <2>4, <3>3 DEF Kind
      <4>2. Written(u, r) = [u EXCEPT !.password = r]
        BY <3>3 DEF Written
      <4>3. /\ Written(u, r).email = u.email /\ Written(u, r).id = u.id /\ Written(u, r).password = r
            /\ Written(u, r).status = u.status
        BY <3>1, <4>2 DEF User
      <4> HIDE DEF Written
      <4>4. \E k \in Links : Written(u, r).password \in uses'[k] /\ link[k].kind = "reset"
                               /\ link[k].email = Written(u, r).email
        BY <2>2, <2>7, <4>1, <4>3
      <4>5. Written(u, r).status = "verified" =>
              \E k \in Links : uses'[k] # {} /\ link[k].kind = "verify" /\ link[k].email = Written(u, r).email
        <5>1. u.status = "verified" => \E k \in Links : uses'[k] # {} /\ link[k].kind = "verify" /\ link[k].email = u.email
          BY <2>6
        <5> QED
          BY <4>3, <5>1
      <4> QED
        BY <4>4, <4>5
    <3> QED
      BY <2>2, <3>2, <3>3
  <2> HIDE DEF ByLink
  <2>8. \A u \in users' : ByLink(u, uses')
    BY <2>5, <2>6, <2>7
  <2> QED
    BY <1>4, <2>8
<1> QED
  BY <1>5, <1>6, <1>7
  DEF Next, StartSignup, InsertWorkspace, InsertMember, StartResend, StartForgot, StartIssue, ClearLinks, IssueLink,
      SendMail, StartVerify, StartReset, StartOpen, BurnLink, Fail, Expire, SignIn, Tables, Histories

LEMMA InitInv == Init => IInv
<1> SUFFICES ASSUME Init PROVE IInv
  OBVIOUS
<1>1. TypeOK
  BY TypeInit
<1>2. \A r \in Requests : req[r] = NewRequest
  BY DEF Init
<1>3. users = {} /\ sessions = {} /\ workspaces = {} /\ owners = {} /\ Links = {} /\ \A l \in 1..MaxLinks : uses[l] = {}
  BY DEF Init, Links
<1>4. Addressed /\ SignupRows
  BY <1>2 DEF Addressed, AddressedAt, SignupRows, SignupRowsAt, NewRequest
<1>5. OneIssue
  BY <1>2 DEF OneIssue, Issuing, At, NewRequest
<1> QED
  BY <1>1, <1>3, <1>4, <1>5
  DEF IInv, WorkspaceOwners, SpentLinks, OneAccountPerAddress, ChangedByItsLink, OneLiveLink, LinkWorksOnce, Live

LEMMA StepInv == IInv /\ [Next]_vars => IInv'
<1> SUFFICES ASSUME IInv, [Next]_vars PROVE IInv'
  OBVIOUS
<1>1. TypeOK'
  BY TypeStep
<1>2. CASE Next
  BY <1>1, <1>2, AddressedStep, SignupRowsStep, WorkspacesStep, AccountsStep, OneIssueStep, SpentStep, ChangedStep DEF IInv
<1>3. CASE UNCHANGED vars
  BY <1>1, <1>3
  DEF vars, IInv, Addressed, AddressedAt, SignupRows, SignupRowsAt, HasUser, HasWorkspace, WorkspaceOwners, OneIssue,
      Issuing, Live, Links, At, SpentLinks, Holders, OneAccountPerAddress, ChangedByItsLink, OneLiveLink, LinkWorksOnce
<1> QED
  BY <1>2, <1>3

LEMMA Inductive == Spec => []IInv
<1> QED
  BY InitInv, StepInv, PTL DEF Spec

-----------------------------------------------------------------------------
(* What is proved of every run.                                              *)

\* Every reachable state is of the expected type.
THEOREM TypeCorrect == Spec => []TypeOK
<1>1. IInv => TypeOK
  BY DEF IInv
<1> QED
  BY Inductive, <1>1, PTL

\* Racing signups with one address make one account, and an account has one
\* personal workspace (POST signup, the unique indexes).
THEOREM AccountsUnique == Spec => []OneAccountPerAddress
<1>1. IInv => OneAccountPerAddress
  BY DEF IInv
<1> QED
  BY Inductive, <1>1, PTL

\* An answered signup left the user, the workspace and the membership behind
\* (POST signup).
THEOREM SignupsComplete == Spec => []SignupComplete
<1>1. IInv => SignupComplete
  BY DEF IInv, SignupRows, SignupRowsAt, SignupComplete, HasUser, HasWorkspace, Enters
<1> QED
  BY Inductive, <1>1, PTL

\* Verifying an address and replacing a password take a link of the right kind
\* mailed to the address (GET verify-email, POST reset-password).
THEOREM ChangesTakeLinks == Spec => []ChangedByItsLink
<1>1. IInv => ChangedByItsLink
  BY DEF IInv
<1> QED
  BY Inductive, <1>1, PTL

\* Without overlapping issues an identifier has one live link (emailVerification,
\* POST forgot-password).
THEOREM LinksReplaced == Spec => []OneLiveLink
<1>1. IInv => OneLiveLink
  BY DEF IInv
<1> QED
  BY Inductive, <1>1, PTL

\* A link two requests did not find together is used at most once.
THEOREM LinksWorkOnce == Spec => []LinkWorksOnce
<1>1. IInv => LinkWorksOnce
  BY DEF IInv
<1> QED
  BY Inductive, <1>1, PTL

-----------------------------------------------------------------------------
(* One board.                                                               *)

\* Boards counts with its own copy of the finite sets' operators.
LEMMA CountsAgree == \A S : B!Cardinality(S) = Cardinality(S)
  BY DEF B!Cardinality, Cardinality

MemberOps == {"insert", "reactivate", "removeMember", "changeRole"}

\* Requests about members name another user than the owner, and, but for an
\* insertion, a row of theirs.
RequestsSpareOwner ==
    \A s \in BoardSlots : B!Running(s) =>
        /\ boardReq[s].op \in MemberOps => boardReq[s].to \in BoardUsers \ {owner}
        /\ boardReq[s].op \in {"insert", "reactivate", "changeRole"} => boardReq[s].val \in B!Grantable
        /\ boardReq[s].op \in MemberOps \ {"insert"} => boardReq[s].row \in B!Rows(boardReq[s].to)
        /\ boardReq[s].op = "updateVisibility" => boardReq[s].val \in B!Visibilities
        /\ boardReq[s].op \in {"renameBoard", "updateMetadata"} => boardReq[s].val \in B!Titles

OwnerRow ==
    /\ B!Rows(owner) = {1}
    /\ row[owner][1] = [role |-> "OWNER", removed |-> FALSE]

OthersRows == \A u \in BoardUsers \ {owner} : \A n \in B!Rows(u) : row[u][n].role \in B!Grantable

OneActive == \A u \in BoardUsers : \A n, m \in B!Active(u) : n = m

MembersTold ==
    /\ toldRole[owner] = "OWNER"
    /\ \A u \in BoardUsers, n \in 1..MaxRows :
         B!Rows(u) = {n} => toldRole[u] = IF row[u][n].removed THEN "NONE" ELSE row[u][n].role
    /\ \A u \in BoardUsers : B!Rows(u) = {} => toldRole[u] = "NONE"

SettingsTold ==
    /\ told.deleted = board.deleted
    /\ ~missed => told.archived = board.archived /\ told.visibility = board.visibility

BoardInv ==
    /\ B!TypeOK
    /\ RequestsSpareOwner
    /\ OwnerRow
    /\ OthersRows
    /\ OneActive
    /\ MembersTold
    /\ SettingsTold

-----------------------------------------------------------------------------
USE BoardsAssumption DEF B!BoardsAssumption

\* The role read off a user's rows.
LEMMA RoleOfActive ==
  ASSUME B!TypeOK, OneActive, NEW u \in BoardUsers, NEW n \in B!Active(u)
  PROVE  B!RoleOf(u) = row[u][n].role
<1>1. B!Active(u) # {} /\ (CHOOSE m \in B!Active(u) : TRUE) \in B!Active(u)
  OBVIOUS
<1>2. (CHOOSE m \in B!Active(u) : TRUE) = n
  BY <1>1 DEF OneActive
<1> QED
  BY <1>1, <1>2 DEF B!RoleOf

LEMMA NoneIfInactive ==
  ASSUME NEW u \in BoardUsers, B!Active(u) = {}
  PROVE  B!RoleOf(u) = "NONE"
BY DEF B!RoleOf

LEMMA OwnerIsOwner ==
  ASSUME BoardInv, NEW u \in BoardUsers
  PROVE  B!RoleOf(u) = "OWNER" <=> u = owner
<1>1. owner \in BoardUsers
  BY DEF BoardInv, B!TypeOK
<1>2. CASE u = owner
  <2>1. 1 \in B!Active(owner)
    BY DEF BoardInv, OwnerRow, B!Active
  <2> QED
    BY <1>1, <1>2, <2>1, RoleOfActive DEF BoardInv, OwnerRow
<1>3. CASE u # owner
  <2>1. CASE B!Active(u) = {}
    BY <1>3, <2>1, NoneIfInactive
  <2>2. ASSUME NEW n \in B!Active(u) PROVE B!RoleOf(u) # "OWNER"
    <3>1. n \in B!Rows(u) /\ B!RoleOf(u) = row[u][n].role
      BY <2>2, RoleOfActive DEF BoardInv, B!Active
    <3> QED
      BY <1>3, <3>1 DEF BoardInv, OthersRows, B!Grantable
  <2> QED
    BY <1>3, <2>1, <2>2
<1> QED
  BY <1>2, <1>3

LEMMA BoardInitial == B!Init => BoardInv
<1> SUFFICES ASSUME B!Init PROVE BoardInv
  OBVIOUS
<1>1. 1 \in 1..MaxRows /\ 0 \in 0..MaxBoardRequests
  BY BoardsAssumption
<1>2. \A u \in BoardUsers : B!Rows(u) = IF u = owner THEN {1} ELSE {}
  <2>1. [role |-> "OWNER", removed |-> FALSE] # NoRow
    <3>1. [role |-> "OWNER", removed |-> FALSE] \in B!Row
      BY DEF B!Row, B!RoleSet
    <3> HIDE DEF B!Row
    <3> QED
      BY <3>1, BoardsAssumption
  <2> SUFFICES ASSUME NEW u \in BoardUsers PROVE B!Rows(u) = IF u = owner THEN {1} ELSE {}
    OBVIOUS
  <2>2. \A n \in 1..MaxRows : row[u][n] # NoRow <=> u = owner /\ n = 1
    BY <2>1 DEF B!Init
  <2> QED
    BY <1>1, <2>2 DEF B!Rows
<1>3. B!TypeOK
  <2>1. row \in [BoardUsers -> [1..MaxRows -> B!Row \cup {NoRow}]]
    BY DEF B!Init, B!Row, B!RoleSet
  <2>2. board \in B!Board /\ told \in B!Board
    BY DEF B!Init, B!Board, B!Visibilities, B!Titles
  <2>3. toldRole \in [BoardUsers -> B!RoleSet \cup {"NONE"}]
    BY DEF B!Init, B!RoleSet
  <2> QED
    BY <1>1, <2>1, <2>2, <2>3 DEF B!Init, B!TypeOK
<1>4. OwnerRow /\ OthersRows
  BY <1>1, <1>2 DEF B!Init, OwnerRow, OthersRows
<1>5. OneActive
  BY <1>2 DEF OneActive, B!Active
<1>6. MembersTold
  BY <1>1, <1>2 DEF B!Init, MembersTold
<1>7. RequestsSpareOwner /\ SettingsTold
  BY DEF B!Init, RequestsSpareOwner, B!Running, SettingsTold
<1> QED
  BY <1>3, <1>4, <1>5, <1>6, <1>7 DEF BoardInv

-----------------------------------------------------------------------------
\* What an admitted request says of its target.
WellAimed(r) ==
    /\ r \in B!Request
    /\ r.op \in MemberOps => r.to \in BoardUsers \ {owner}
    /\ r.op \in {"insert", "reactivate", "changeRole"} => r.val \in B!Grantable
    /\ r.op \in MemberOps \ {"insert"} => r.row \in B!Rows(r.to)
    /\ r.op = "updateVisibility" => r.val \in B!Visibilities
    /\ r.op \in {"renameBoard", "updateMetadata"} => r.val \in B!Titles

LEMMA AdmittedWellAimed ==
  ASSUME BoardInv, NEW u \in BoardUsers, B!IsManager(u), NEW r \in B!Admissible(u)
  PROVE  WellAimed(r)
<1>1. 0 \in 0..MaxRows /\ \A n \in 1..MaxRows : n \in 0..MaxRows
  BY BoardsAssumption
<1>2. owner \in BoardUsers /\ B!Rows(owner) = {1} /\ B!Active(owner) = {1}
  BY DEF BoardInv, B!TypeOK, OwnerRow, B!Active
<1>3. CASE r \in B!InviteRequests(u)
  <2> DEFINE Fresh == { B!Req("insert", t, 0, x) :
                          t \in {t \in workspace \ {u} : B!Rows(t) = {}}, x \in B!Grantable }
             Again == { B!Req("reactivate", t, n, x) :
                          t \in workspace \ {u}, n \in 1..MaxRows, x \in B!Grantable }
  <2>0. r \in Fresh \/ (r \in Again /\ r.row \in B!Rows(r.to) \ B!Active(r.to))
    BY <1>3 DEF B!InviteRequests
  <2>1. r.to \in BoardUsers \ {owner} /\ r.val \in B!Grantable /\ r.op \in {"insert", "reactivate"}
    <3>1. workspace \subseteq BoardUsers
      BY DEF BoardInv, B!TypeOK
    <3>2. CASE r \in Fresh
      BY <1>2, <3>1, <3>2 DEF B!Req
    <3>3. CASE r \in Again /\ r.row \in B!Rows(r.to) \ B!Active(r.to)
      <4>1. r.to \in BoardUsers /\ r.val \in B!Grantable /\ r.op = "reactivate"
        BY <3>1, <3>3 DEF B!Req
      <4> QED
        BY <1>2, <3>3, <4>1
    <3> QED
      BY <2>0, <3>2, <3>3
  <2>2. r.op = "reactivate" => r.row \in B!Rows(r.to)
    BY <1>3 DEF B!InviteRequests, B!Req
  <2>3. r \in B!Request
    BY <1>1, <1>3 DEF B!InviteRequests, B!Req, B!Request, B!Ops, B!Rows, BoardInv, B!TypeOK
  <2> QED
    BY <2>1, <2>2, <2>3 DEF WellAimed, MemberOps
<1>4. CASE r \in B!RemoveRequests(u)
  <2>1. r.op = "removeMember" /\ r.to \in BoardUsers \ {u} /\ r.row \in B!Active(r.to)
        /\ (B!RoleOf(r.to) = "OWNER" => B!RoleOf(u) = "OWNER")
    BY <1>4 DEF B!RemoveRequests, B!Req
  <2>2. r.to # owner
    BY <2>1, OwnerIsOwner
  <2>3. r \in B!Request
    BY <1>1, <1>4 DEF B!RemoveRequests, B!Req, B!Request, B!Ops
  <2> QED
    BY <2>1, <2>2, <2>3 DEF WellAimed, MemberOps, B!Active
<1>5. CASE r \in B!ChangeRoleRequests(u)
  <2>1. r.op = "changeRole" /\ r.to \in BoardUsers /\ r.row \in B!Active(r.to) /\ r.val \in B!Grantable
        /\ B!RoleOf(r.to) # "OWNER"
    BY <1>5 DEF B!ChangeRoleRequests, B!Req
  <2>2. r.to # owner
    BY <2>1, OwnerIsOwner
  <2>3. r \in B!Request
    BY <1>1, <1>5 DEF B!ChangeRoleRequests, B!Req, B!Request, B!Ops
  <2> QED
    BY <2>1, <2>2, <2>3 DEF WellAimed, MemberOps, B!Active
<1>6. CASE r \in B!SettingsRequests(u)
  BY <1>1, <1>6 DEF B!SettingsRequests, B!Req, B!Request, B!Ops, WellAimed, MemberOps, B!Visibilities, B!Titles
<1> QED
  BY <1>3, <1>4, <1>5, <1>6 DEF B!Admissible

LEMMA BoardAdmit ==
  ASSUME BoardInv, NEW s \in BoardSlots, B!Admit(s)
  PROVE  BoardInv'
<1>1. PICK u \in BoardUsers : B!IsManager(u) /\ \E r \in B!Admissible(u) : boardReq' = [boardReq EXCEPT ![s] = r]
  BY DEF B!Admit
<1>2. PICK r \in B!Admissible(u) : boardReq' = [boardReq EXCEPT ![s] = r]
  BY <1>1
<1>3. WellAimed(r)
  BY <1>1, AdmittedWellAimed
<1>4. /\ UNCHANGED <<row, board, owner, workspace, told, toldRole, missed>>
      /\ boardIssued' \in 0..MaxBoardRequests
      /\ boardReq' \in [BoardSlots -> B!Request \cup {NoRequest}]
      /\ boardReq'[s] = r /\ \A t \in BoardSlots \ {s} : boardReq'[t] = boardReq[t]
  BY <1>2, <1>3, BoardsAssumption DEF B!Admit, BoardInv, B!TypeOK, WellAimed
<1>5. \A u2 \in BoardUsers : B!Rows(u2)' = B!Rows(u2) /\ B!Active(u2)' = B!Active(u2)
  BY <1>4 DEF B!Rows, B!Active
<1>6. B!TypeOK'
  BY <1>4 DEF BoardInv, B!TypeOK
<1>7. RequestsSpareOwner'
  <2> SUFFICES ASSUME NEW t \in BoardSlots, B!Running(t)' PROVE RequestsSpareOwner!(t)!2'
    BY DEF RequestsSpareOwner
  <2>1. CASE t = s
    BY <1>3, <1>4, <1>5, <2>1 DEF WellAimed, MemberOps
  <2>2. CASE t # s
    <3>1. B!Running(t) /\ boardReq'[t] = boardReq[t]
      BY <1>4, <2>2 DEF B!Running
    <3> QED
      BY <1>4, <1>5, <3>1 DEF BoardInv, RequestsSpareOwner, MemberOps
  <2> QED
    BY <2>1, <2>2
<1>8. OwnerRow' /\ OthersRows' /\ OneActive' /\ MembersTold' /\ SettingsTold'
  <2>1. owner \in BoardUsers
    BY DEF BoardInv, B!TypeOK
  <2>2. OwnerRow' /\ OthersRows'
    BY <1>4, <1>5, <2>1 DEF BoardInv, OwnerRow, OthersRows
  <2>3. OneActive' /\ SettingsTold'
    BY <1>4, <1>5 DEF BoardInv, OneActive, SettingsTold
  <2>4. MembersTold'
    BY <1>4, <1>5 DEF BoardInv, MembersTold
  <2> QED
    BY <2>2, <2>3, <2>4
<1> QED
  BY <1>6, <1>7, <1>8 DEF BoardInv

-----------------------------------------------------------------------------
(* Steps that change no member row.                                         *)

\* A request that leaves its slot leaves the others as they were.
LEMMA SlotFreed ==
  ASSUME BoardInv, NEW s \in BoardSlots, boardReq' = [boardReq EXCEPT ![s] = NoRequest], UNCHANGED owner,
         \A u \in BoardUsers : B!Rows(u) \subseteq B!Rows(u)'
  PROVE  RequestsSpareOwner' /\ boardReq' \in [BoardSlots -> B!Request \cup {NoRequest}]
<1>1. \A t \in BoardSlots : B!Running(t)' => B!Running(t) /\ boardReq'[t] = boardReq[t]
  BY DEF BoardInv, B!TypeOK, B!Running
<1>2. \A t \in BoardSlots : B!Running(t) /\ boardReq[t].op \in MemberOps => boardReq[t].to \in BoardUsers
  BY DEF BoardInv, RequestsSpareOwner
<1>3. ASSUME NEW t \in BoardSlots, B!Running(t)'
      PROVE  RequestsSpareOwner!(t)!2'
  <2>1. B!Running(t) /\ boardReq'[t] = boardReq[t] /\ RequestsSpareOwner!(t)!2
    BY <1>1, <1>3 DEF BoardInv, RequestsSpareOwner
  <2> QED
    BY <1>2, <2>1 DEF MemberOps
<1> QED
  BY <1>3 DEF BoardInv, B!TypeOK, RequestsSpareOwner

LEMMA QuietStep ==
  ASSUME BoardInv,
         \/ \E s \in BoardSlots : B!Abort(s)
         \/ \E u \in BoardUsers : B!WorkspaceChanges(u)
         \/ UNCHANGED B!vars
  PROVE  BoardInv'
<1>1. UNCHANGED <<row, board, owner, told, toldRole, missed, boardIssued>>
  BY DEF B!Abort, B!WorkspaceChanges, B!vars
<1>2. \A u \in BoardUsers : B!Rows(u)' = B!Rows(u) /\ B!Active(u)' = B!Active(u)
  BY <1>1 DEF B!Rows, B!Active
<1>3. RequestsSpareOwner' /\ boardReq' \in [BoardSlots -> B!Request \cup {NoRequest}]
  <2>1. CASE UNCHANGED boardReq
    BY <1>1, <1>2, <2>1 DEF BoardInv, B!TypeOK, RequestsSpareOwner, B!Running, MemberOps
  <2>2. ASSUME NEW s \in BoardSlots, B!Abort(s) PROVE <1>3!1 /\ <1>3!2
    BY <1>1, <1>2, <2>2, SlotFreed DEF B!Abort
  <2> QED
    BY <2>1, <2>2 DEF B!WorkspaceChanges, B!vars
<1>4. B!TypeOK'
  BY <1>1, <1>3 DEF BoardInv, B!TypeOK, B!Abort, B!WorkspaceChanges, B!vars
<1>5. owner \in BoardUsers
  BY DEF BoardInv, B!TypeOK
<1>6. OwnerRow' /\ OthersRows'
  BY <1>1, <1>2, <1>5 DEF BoardInv, OwnerRow, OthersRows
<1>7. OneActive' /\ SettingsTold'
  BY <1>1, <1>2 DEF BoardInv, OneActive, SettingsTold
<1>8. MembersTold'
  BY <1>1, <1>2 DEF BoardInv, MembersTold
<1> QED
  BY <1>3, <1>4, <1>6, <1>7, <1>8 DEF BoardInv

LEMMA SettingsStep ==
  ASSUME BoardInv, NEW s \in BoardSlots, B!Write(s), boardReq[s].op \notin MemberOps
  PROVE  BoardInv'
<1> DEFINE r == boardReq[s]
<1>1. /\ UNCHANGED <<row, owner, workspace, toldRole, boardIssued>>
      /\ boardReq' = [boardReq EXCEPT ![s] = NoRequest] /\ B!Running(s)
  BY DEF B!Write, B!Apply, B!InsertMember, B!ReactivateMember, B!RemoveMember, B!ChangeRole, MemberOps,
         B!ArchiveBoard, B!UnarchiveBoard, B!UpdateVisibility, B!SoftDeleteBoard, B!RestoreBoard,
         B!UpdateBoardMetadata, B!RenameBoard, B!SetUnlessDeleted, B!SetAlways
<1>2. /\ r.op = "updateVisibility" => r.val \in B!Visibilities
      /\ r.op \in {"renameBoard", "updateMetadata"} => r.val \in B!Titles
  BY <1>1 DEF BoardInv, RequestsSpareOwner
<1>3. board' \in B!Board /\ told' \in B!Board /\ missed' \in BOOLEAN /\ SettingsTold'
  <2> SUFFICES ASSUME B!Apply(r) PROVE <1>3
    BY DEF B!Write
  <2>1. board \in B!Board /\ told \in B!Board /\ missed \in BOOLEAN /\ SettingsTold
    BY DEF BoardInv, B!TypeOK
  <2>2. \A b \in B!Board :
          /\ \A x \in BOOLEAN : /\ [b EXCEPT !.archived = x] \in B!Board
                                /\ [b EXCEPT !.deleted = x] \in B!Board
          /\ \A v \in B!Visibilities : [b EXCEPT !.visibility = v] \in B!Board
          /\ \A t \in B!Titles : [b EXCEPT !.title = t] \in B!Board
    BY DEF B!Board
  <2>3. ASSUME NEW x \in BOOLEAN,
               B!SetUnlessDeleted([board EXCEPT !.archived = x], [told EXCEPT !.archived = x])
        PROVE  <1>3
    <3>1. board' \in B!Board /\ told' \in B!Board /\ missed' \in BOOLEAN
      BY <2>1, <2>2, <2>3 DEF B!SetUnlessDeleted
    <3>2. SettingsTold'
      BY <2>1, <2>3 DEF B!SetUnlessDeleted, SettingsTold, B!Board
    <3> QED
      BY <3>1, <3>2
  <2>4. CASE B!UpdateVisibility(r)
    BY <1>2, <2>1, <2>2, <2>4 DEF B!UpdateVisibility, B!SetUnlessDeleted, SettingsTold, B!Board
  <2>5. ASSUME NEW x \in BOOLEAN,
               B!SetAlways([board EXCEPT !.deleted = x], [told EXCEPT !.deleted = x])
        PROVE  <1>3
    <3>1. board' \in B!Board /\ told' \in B!Board /\ missed' \in BOOLEAN
      BY <2>1, <2>2, <2>5 DEF B!SetAlways
    <3>2. SettingsTold'
      BY <2>1, <2>5 DEF B!SetAlways, SettingsTold, B!Board
    <3> QED
      BY <3>1, <3>2
  <2>6. CASE B!UpdateBoardMetadata(r) \/ B!RenameBoard(r)
    BY <1>2, <2>1, <2>2, <2>6 DEF B!UpdateBoardMetadata, B!RenameBoard, B!SetAlways, SettingsTold, B!Board
  <2> QED
    BY <2>3, <2>4, <2>5, <2>6
       DEF B!ArchiveBoard, B!UnarchiveBoard, B!SoftDeleteBoard, B!RestoreBoard,
           B!Apply, B!InsertMember, B!ReactivateMember, B!RemoveMember, B!ChangeRole, MemberOps
<1>4. \A u \in BoardUsers : B!Rows(u)' = B!Rows(u) /\ B!Active(u)' = B!Active(u)
  BY <1>1 DEF B!Rows, B!Active
<1>5. RequestsSpareOwner' /\ boardReq' \in [BoardSlots -> B!Request \cup {NoRequest}]
  BY <1>1, <1>4, SlotFreed
<1>6. B!TypeOK'
  BY <1>1, <1>3, <1>5 DEF BoardInv, B!TypeOK
<1>7. owner \in BoardUsers
  BY DEF BoardInv, B!TypeOK
<1>8. OwnerRow' /\ OthersRows' /\ OneActive'
  BY <1>1, <1>4, <1>7 DEF BoardInv, OwnerRow, OthersRows, OneActive
<1>9. MembersTold'
  BY <1>1, <1>4 DEF BoardInv, MembersTold
<1> QED
  BY <1>3, <1>5, <1>6, <1>8, <1>9 DEF BoardInv

-----------------------------------------------------------------------------
(* Steps that write one row of a user who is not the owner.                 *)

\* The effect of the four member operations: row n of user u becomes x, and
\* the event tells y of u.
MemberWrite(u, n, x, y) ==
    /\ row' = [row EXCEPT ![u] = [row[u] EXCEPT ![n] = x]]
    /\ toldRole' = [toldRole EXCEPT ![u] = y]
    /\ UNCHANGED <<board, owner, workspace, boardIssued, told, missed>>

\* What makes such a write harmless.
LEMMA MemberStep ==
  ASSUME BoardInv, NEW s \in BoardSlots, boardReq' = [boardReq EXCEPT ![s] = NoRequest],
         NEW u \in BoardUsers \ {owner}, NEW n \in 1..MaxRows, NEW x \in B!Row, NEW y,
         MemberWrite(u, n, x, y),
         x.role \in B!Grantable,
         ~x.removed => B!Active(u) \subseteq {n},
         y \in B!RoleSet \cup {"NONE"},
         B!Rows(u) \subseteq {n} => y = IF x.removed THEN "NONE" ELSE x.role
  PROVE  BoardInv'
<1>1. row \in [BoardUsers -> [1..MaxRows -> B!Row \cup {NoRow}]] /\ owner \in BoardUsers
      /\ toldRole \in [BoardUsers -> B!RoleSet \cup {"NONE"}]
  BY DEF BoardInv, B!TypeOK
<1>2. /\ row'[u] = [row[u] EXCEPT ![n] = x]
      /\ \A v \in BoardUsers \ {u} : row'[v] = row[v]
      /\ row' \in [BoardUsers -> [1..MaxRows -> B!Row \cup {NoRow}]]
  BY <1>1 DEF MemberWrite
<1>3. /\ row'[u][n] = x /\ \A m \in (1..MaxRows) \ {n} : row'[u][m] = row[u][m]
      /\ x # NoRow
  BY <1>1, <1>2, BoardsAssumption
<1>4. /\ B!Rows(u)' = B!Rows(u) \cup {n}
      /\ B!Active(u)' = IF x.removed THEN B!Active(u) \ {n} ELSE B!Active(u) \cup {n}
  <2>1. B!Rows(u)' = B!Rows(u) \cup {n}
    BY <1>3 DEF B!Rows
  <2> QED
    BY <1>3, <2>1 DEF B!Active, B!Rows
<1>5. \A v \in BoardUsers \ {u} : B!Rows(v)' = B!Rows(v) /\ B!Active(v)' = B!Active(v)
  BY <1>2 DEF B!Rows, B!Active
<1>6. UNCHANGED owner
  BY DEF MemberWrite
<1>7. RequestsSpareOwner' /\ boardReq' \in [BoardSlots -> B!Request \cup {NoRequest}]
  BY <1>4, <1>5, <1>6, SlotFreed
<1>8. toldRole' \in [BoardUsers -> B!RoleSet \cup {"NONE"}]
      /\ toldRole'[u] = y /\ \A v \in BoardUsers \ {u} : toldRole'[v] = toldRole[v]
  BY <1>1 DEF MemberWrite
<1>9. B!TypeOK'
  BY <1>2, <1>7, <1>8 DEF MemberWrite, BoardInv, B!TypeOK
<1>10. OwnerRow'
  BY <1>1, <1>2, <1>5, <1>6 DEF BoardInv, OwnerRow
<1>11. OthersRows'
  <2>1. ASSUME NEW v \in BoardUsers \ {owner}, NEW m \in B!Rows(v)'
        PROVE  row'[v][m].role \in B!Grantable
    <3>1. m \in 1..MaxRows
      BY <2>1 DEF B!Rows
    <3>2. CASE v = u
      <4>1. CASE m = n
        BY <1>3, <3>2, <4>1
      <4>2. CASE m # n
        BY <1>3, <1>4, <2>1, <3>1, <3>2, <4>2 DEF BoardInv, OthersRows
      <4> QED
        BY <4>1, <4>2
    <3>3. CASE v # u
      BY <1>2, <1>5, <2>1, <3>3 DEF BoardInv, OthersRows
    <3> QED
      BY <3>2, <3>3
  <2> QED
    BY <1>6, <2>1 DEF OthersRows
<1>12. OneActive'
  BY <1>4, <1>5 DEF BoardInv, OneActive
<1>13. SettingsTold'
  BY DEF MemberWrite, BoardInv, SettingsTold
<1>14. MembersTold'
  <2>1. toldRole'[owner] = "OWNER"
    BY <1>1, <1>6, <1>8 DEF BoardInv, MembersTold
  <2>2. ASSUME NEW v \in BoardUsers, NEW m \in 1..MaxRows, B!Rows(v)' = {m}
        PROVE  toldRole'[v] = IF row'[v][m].removed THEN "NONE" ELSE row'[v][m].role
    <3>1. CASE v = u
      <4>1. m = n /\ B!Rows(u) \subseteq {n}
        BY <1>4, <2>2, <3>1
      <4> QED
        BY <1>3, <1>8, <3>1, <4>1
    <3>2. CASE v # u
      <4>1. B!Rows(v) = {m} /\ row'[v] = row[v] /\ toldRole'[v] = toldRole[v]
        BY <1>2, <1>5, <1>8, <2>2, <3>2
      <4>2. toldRole[v] = IF row[v][m].removed THEN "NONE" ELSE row[v][m].role
        BY <4>1 DEF BoardInv, MembersTold
      <4> QED
        BY <4>1, <4>2
    <3> QED
      BY <3>1, <3>2
  <2>3. \A v \in BoardUsers : B!Rows(v)' = {} => toldRole'[v] = "NONE"
    BY <1>4, <1>5, <1>8 DEF BoardInv, MembersTold
  <2> QED
    BY <1>6, <2>1, <2>2, <2>3 DEF MembersTold
<1> QED
  BY <1>7, <1>9, <1>10, <1>11, <1>12, <1>13, <1>14 DEF BoardInv

LEMMA MembersStep ==
  ASSUME BoardInv, NEW s \in BoardSlots, B!Write(s), boardReq[s].op \in MemberOps
  PROVE  BoardInv'
<1> DEFINE r == boardReq[s]
<1>1. /\ B!Running(s) /\ B!Apply(r) /\ boardReq' = [boardReq EXCEPT ![s] = NoRequest]
      /\ UNCHANGED <<owner, workspace, boardIssued>>
  BY DEF B!Write
<1>2. /\ r.to \in BoardUsers \ {owner}
      /\ r.op # "removeMember" => r.val \in B!Grantable
      /\ r.op # "insert" => r.row \in B!Rows(r.to)
  BY <1>1 DEF BoardInv, RequestsSpareOwner, MemberOps
<1>3. row \in [BoardUsers -> [1..MaxRows -> B!Row \cup {NoRow}]]
  BY DEF BoardInv, B!TypeOK
<1>4. \A n \in B!Rows(r.to) : n \in 1..MaxRows /\ row[r.to][n] \in B!Row /\ row[r.to][n].role \in B!Grantable
  BY <1>2, <1>3 DEF B!Rows, BoardInv, OthersRows
<1>5. CASE B!InsertMember(r)
  <2>1. PICK n \in (1..MaxRows) \ B!Rows(r.to) :
          row' = [row EXCEPT ![r.to][n] = [role |-> r.val, removed |-> FALSE]]
    BY <1>5 DEF B!InsertMember
  <2> DEFINE x == [role |-> r.val, removed |-> FALSE]
  <2>2. x \in B!Row /\ x.role \in B!Grantable /\ r.val \in B!RoleSet
    BY <1>2, <1>5 DEF B!InsertMember, B!Row, B!RoleSet
  <2>3. MemberWrite(r.to, n, x, r.val)
    BY <1>1, <1>5, <2>1 DEF B!InsertMember, MemberWrite
  <2> QED
    BY <1>1, <1>2, <1>5, <2>2, <2>3, MemberStep DEF B!InsertMember
<1>6. CASE B!ReactivateMember(r)
  <2> DEFINE x == [role |-> r.val, removed |-> FALSE]
  <2>1. r.row \in 1..MaxRows /\ x \in B!Row /\ x.role \in B!Grantable /\ r.val \in B!RoleSet
    BY <1>2, <1>4, <1>6 DEF B!ReactivateMember, B!Row, B!RoleSet
  <2>2. MemberWrite(r.to, r.row, x, r.val)
    BY <1>1, <1>6 DEF B!ReactivateMember, MemberWrite
  <2> QED
    BY <1>1, <1>2, <1>6, <2>1, <2>2, MemberStep DEF B!ReactivateMember
<1>7. CASE B!RemoveMember(r)
  <2> DEFINE x == [row[r.to][r.row] EXCEPT !.removed = TRUE]
  <2>1. r.row \in 1..MaxRows /\ x \in B!Row /\ x.role \in B!Grantable /\ x.removed
    BY <1>2, <1>4, <1>7 DEF B!RemoveMember, B!Row
  <2>2. MemberWrite(r.to, r.row, x, "NONE")
    BY <1>1, <1>7 DEF B!RemoveMember, MemberWrite
  <2> QED
    BY <1>1, <1>2, <2>1, <2>2, MemberStep
<1>8. CASE B!ChangeRole(r)
  <2> DEFINE x == [row[r.to][r.row] EXCEPT !.role = r.val]
             y == IF toldRole[r.to] = "NONE" THEN "NONE" ELSE r.val
  <2>1. /\ r.row \in 1..MaxRows /\ x \in B!Row /\ x.role = r.val /\ r.val \in B!Grantable
        /\ x.removed = row[r.to][r.row].removed /\ y \in B!RoleSet \cup {"NONE"}
    BY <1>2, <1>4, <1>8 DEF B!ChangeRole, B!Row, B!RoleSet
  <2>2. MemberWrite(r.to, r.row, x, y)
    BY <1>1, <1>8 DEF B!ChangeRole, MemberWrite
  <2>3. ~x.removed => B!Active(r.to) \subseteq {r.row}
    BY <1>2, <1>8, <2>1 DEF B!ChangeRole, B!Active, BoardInv, OneActive
  <2>4. B!Rows(r.to) \subseteq {r.row} => y = IF x.removed THEN "NONE" ELSE x.role
    <3>1. B!Rows(r.to) \subseteq {r.row} =>
            toldRole[r.to] = IF row[r.to][r.row].removed THEN "NONE" ELSE row[r.to][r.row].role
      BY <1>2, <1>4, <1>8 DEF B!ChangeRole, BoardInv, MembersTold
    <3> QED
      BY <1>2, <1>4, <1>8, <2>1, <3>1 DEF B!ChangeRole, B!Grantable
  <2> QED
    BY <1>1, <1>2, <2>1, <2>2, <2>3, <2>4, MemberStep
<1> QED
  BY <1>1, <1>5, <1>6, <1>7, <1>8
     DEF B!Apply, MemberOps, B!ArchiveBoard, B!UnarchiveBoard, B!UpdateVisibility, B!SoftDeleteBoard,
         B!RestoreBoard, B!UpdateBoardMetadata, B!RenameBoard

LEMMA BoardNext == BoardInv /\ [B!Next]_B!vars => BoardInv'
<1> SUFFICES ASSUME BoardInv, [B!Next]_B!vars PROVE BoardInv'
  OBVIOUS
<1>1. ASSUME NEW s \in BoardSlots, B!Write(s) PROVE BoardInv'
  BY <1>1, SettingsStep, MembersStep
<1> QED
  BY <1>1, BoardAdmit, QuietStep DEF B!Next

THEOREM BoardInvariant == B!Spec => []BoardInv
BY BoardInitial, BoardNext, PTL DEF B!Spec

-----------------------------------------------------------------------------
\* The board model's state is well formed.
THEOREM BoardTypeCorrect == B!Spec => []B!TypeOK
<1>1. BoardInv => B!TypeOK
  BY DEF BoardInv
<1> QED
  BY <1>1, BoardInvariant, PTL

\* The user who created the board is its one OWNER for as long as it exists.
THEOREM BoardOwnerKept == B!Spec => []BoardKeepsOwner
<1>1. BoardInv => BoardKeepsOwner
  BY OwnerIsOwner DEF BoardKeepsOwner, B!BoardKeepsOwner
<1> QED
  BY <1>1, BoardInvariant, PTL

\* No user has two active rows, however many invitations race.
THEOREM ActiveRowsUnique == B!Spec => []OneActiveRow
<1>1. BoardInv => OneActiveRow
  <2> SUFFICES ASSUME BoardInv, NEW u \in BoardUsers PROVE Cardinality(B!Active(u)) <= 1
    BY CountsAgree DEF OneActiveRow, B!OneActiveRow
  <2>1. CASE B!Active(u) = {}
    <3>1. Cardinality(B!Active(u)) = 0
      BY <2>1, FS_EmptySet
    <3> QED
      BY <3>1
  <2>2. ASSUME NEW n \in B!Active(u) PROVE Cardinality(B!Active(u)) <= 1
    <3>1. B!Active(u) = {n}
      BY <2>2 DEF BoardInv, OneActive
    <3>2. Cardinality(B!Active(u)) = 1
      BY <3>1, FS_Singleton
    <3> QED
      BY <3>2
  <2> QED
    BY <2>1, <2>2
<1> QED
  BY <1>1, BoardInvariant, PTL

\* The events describe the board: its settings unless one told of a row it
\* missed, a member unless it has two rows.
THEOREM EventsTellMembers == B!Spec => []EventsTellBoard
<1>1. BoardInv => EventsTellBoard
  <2> SUFFICES ASSUME BoardInv, NEW u \in BoardUsers, Cardinality(B!Rows(u)) <= 1
               PROVE  toldRole[u] = B!RoleOf(u)
    BY CountsAgree DEF BoardInv, SettingsTold, EventsTellBoard, B!EventsTellBoard
  <2>1. IsFiniteSet(1..MaxRows) /\ B!Rows(u) \subseteq 1..MaxRows
    BY FS_Interval, BoardsAssumption DEF B!Rows
  <2>2. IsFiniteSet(B!Rows(u))
    BY <2>1, FS_Subset
  <2>3. CASE B!Rows(u) = {}
    BY <2>3, NoneIfInactive DEF B!Active, BoardInv, MembersTold
  <2>4. CASE B!Rows(u) # {}
    <3>1. Cardinality(B!Rows(u)) = 1
      <4>1. Cardinality(B!Rows(u)) \in Nat /\ Cardinality(B!Rows(u)) # 0
        BY <2>2, <2>4, FS_CardinalityType, FS_EmptySet
      <4> QED
        BY <4>1
    <3>2. PICK n : B!Rows(u) = {n}
      BY <2>2, <3>1, FS_Singleton
    <3>3. n \in 1..MaxRows /\ toldRole[u] = IF row[u][n].removed THEN "NONE" ELSE row[u][n].role
      BY <2>1, <3>2 DEF BoardInv, MembersTold
    <3>4. CASE row[u][n].removed
      <4>1. B!Active(u) = {}
        BY <3>2, <3>4 DEF B!Active
      <4> QED
        BY <3>3, <3>4, <4>1, NoneIfInactive
    <3>5. CASE ~row[u][n].removed
      <4>1. n \in B!Active(u)
        BY <3>2, <3>5 DEF B!Active
      <4> QED
        BY <3>3, <3>5, <4>1, RoleOfActive DEF BoardInv
    <3> QED
      BY <3>4, <3>5
  <2> QED
    BY <2>3, <2>4
<1> QED
  BY <1>1, BoardInvariant, PTL

\* A request that comes after the deletion changes neither the archive flag
\* nor the visibility.
THEOREM FrozenWhileDeleted == B!Spec => B!DeletedBoardFrozen
<1>1. BoardInv /\ [B!Next]_B!vars =>
        [board.deleted /\ board'.deleted =>
           board'.archived = board.archived /\ board'.visibility = board.visibility]_B!vars
  <2> SUFFICES ASSUME BoardInv, B!Next, board.deleted, board'.deleted
               PROVE  board'.archived = board.archived /\ board'.visibility = board.visibility
    OBVIOUS
  <2>1. board \in B!Board
    BY DEF BoardInv, B!TypeOK
  <2>2. CASE UNCHANGED board
    BY <2>2
  <2>3. ASSUME NEW s \in BoardSlots, B!Write(s)
        PROVE  board'.archived = board.archived /\ board'.visibility = board.visibility
    <3>1. B!Apply(boardReq[s])
      BY <2>3 DEF B!Write
    <3> QED
      BY <2>1, <3>1 DEF B!Apply, B!InsertMember, B!ReactivateMember, B!RemoveMember, B!ChangeRole,
         B!ArchiveBoard, B!UnarchiveBoard, B!UpdateVisibility, B!SoftDeleteBoard, B!RestoreBoard,
         B!UpdateBoardMetadata, B!RenameBoard, B!SetUnlessDeleted, B!SetAlways, B!Board
  <2> QED
    BY <2>2, <2>3 DEF B!Next, B!Admit, B!Abort, B!WorkspaceChanges
<1> QED
  BY <1>1, BoardInvariant, PTL DEF B!Spec, B!DeletedBoardFrozen

-----------------------------------------------------------------------------
(* The composition the run checks.                                           *)

\* Accounts and a board's members run as each would alone, so that what is proved
\* of one holds of the two (the auth routes and board-members.ts share no table).
THEOREM PartsOfMembers == MembersSpec => Spec /\ B!Spec
<1>1. MembersInit => Init /\ B!Init
  BY DEF MembersInit
<1>2. [MembersNext]_<<part, vars, boards>> => [Next]_vars
  BY DEF MembersNext
<1>3. [MembersNext]_<<part, vars, boards>> => [B!Next]_(B!vars)
  BY DEF MembersNext, boards, B!vars
<1> QED
  BY <1>1, <1>2, <1>3, PTL DEF MembersSpec, Spec, B!Spec
=============================================================================
