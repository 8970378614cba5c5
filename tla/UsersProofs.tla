---------------------------- MODULE UsersProofs -----------------------------
(***************************************************************************)
(* Proofs about what the server keeps of its users: Accounts, Billing and   *)
(* Organizations, for every number of handlers, tokens, events and days and *)
(* every set of users, projects and environments.  The inductive invariants:*)
(* AccountsInv says whose mail an unused token is in, and how many tokens   *)
(* the issues at work can still leave; BillingInv what the newest event tells*)
(* of the subscription and how much of it is in the two rows; OrgInv who owns*)
(* what a request holds, and how many organizations the first requests of a *)
(* user can still create.                                                   *)
(***************************************************************************)
EXTENDS Accounts, Billing, Organizations, FiniteSetTheorems, TLAPS

-----------------------------------------------------------------------------
(* Accounts. *)

AccountsSpec == AccountsInit /\ [][AccountsNext]_accountVars

Link == [used : BOOLEAN, created : Nat]
Place == {"free", "insert", "check", "close", "create", "send", "consume", "verify"}
Handler == [at : Place, link : Nat]

AccountsTypeOK ==
  /\ mail \in MailSettings
  /\ Cardinality(Links) \in Nat /\ Links = 1..Cardinality(Links)
  /\ link \in [Links -> Link]
  /\ delivered \subseteq Links
  /\ issuing \in [Issuer -> Handler]
  /\ \A r \in Issuer : issuing[r].at \in {"send", "consume", "verify"} => issuing[r].link \in Links
  /\ clock \in Nat

\* No mail is written that could not be sent, or whose link leads nowhere.
MailOK ==
  (\E r \in Issuer : issuing[r].at \in {"close", "create", "send"}) \/ delivered # {} => available

Creating == {r \in Issuer : issuing[r].at = "create"}

\* An issue that has closed the tokens leaves one more at most.
LinksBounded == Cardinality(Unused) + Cardinality(Creating) <= Cardinality(Issuer)

\* Issues that did not meet found and left one token at most, the newest.
IssuesApart ==
  ~issuesMet =>
    /\ \A r, q \in IssueAtWork : r = q
    /\ Unused \subseteq {Cardinality(Links)}
    /\ Creating # {} => Unused = {}

\* Where the mail of an unused token is.
MailOf(t) ==
  \/ t \in delivered \/ t \in botched
  \/ \E r \in Issuer : issuing[r].at \in {"send", "consume"} /\ issuing[r].link = t

AccountsInv ==
  /\ AccountsTypeOK
  /\ MailOK
  /\ LinksBounded
  /\ IssuesApart
  /\ \A t \in Unused : MailOf(t)

-----------------------------------------------------------------------------
(* How many tokens are open. *)

LEMMA OpenFinite ==
  ASSUME AccountsTypeOK
  PROVE  /\ IsFiniteSet(Unused) /\ Cardinality(Unused) \in Nat
         /\ IsFiniteSet(Creating) /\ Cardinality(Creating) \in Nat
         /\ Cardinality(Creating) <= Cardinality(Issuer) /\ Cardinality(Issuer) \in Nat
<1>1. IsFiniteSet(Links)
  BY FS_Interval DEF AccountsTypeOK
<1>2. Unused \in SUBSET Links /\ Creating \in SUBSET Issuer
  BY DEF Unused, Creating
<1> QED
  BY <1>1, <1>2, IssuerAssumption, FS_Subset, FS_CardinalityType

\* Tokens are only used, and no more of them are about to be created.
LEMMA LinksKept ==
  ASSUME AccountsTypeOK, LinksBounded, Unused' \subseteq Unused, Creating' \subseteq Creating
  PROVE  LinksBounded'
<1> DEFINE U == Unused'
           C == Creating'
<1>1. /\ Cardinality(U) \in Nat /\ Cardinality(U) <= Cardinality(Unused)
      /\ Cardinality(C) \in Nat /\ Cardinality(C) <= Cardinality(Creating)
  BY OpenFinite, FS_Subset, FS_CardinalityType
<1> HIDE DEF U, C
<1>2. Cardinality(U) + Cardinality(C) <= Cardinality(Issuer)
  BY <1>1, OpenFinite DEF LinksBounded
<1> QED
  BY <1>2 DEF LinksBounded, U, C

-----------------------------------------------------------------------------
(* The steps. *)

AtWork == {"close", "create", "send", "consume"}

\* A handler goes on or ends, and no token changes.
LEMMA HandlerMoves ==
  ASSUME AccountsInv, NEW r \in Issuer, NEW h \in Handler, issuing' = [issuing EXCEPT ![r] = h],
         UNCHANGED <<mail, link, clock>>,
         delivered \subseteq delivered',
         delivered' \subseteq delivered \cup (IF issuing[r].at = "send" THEN {issuing[r].link} ELSE {}),
         botched \subseteq botched', issuesMet => issuesMet',
         h.at # "create", h.at \in {"send", "consume", "verify"} => h.link \in Links,
         h.at \in {"close", "send"} => available,
         h.at \in AtWork => issuing[r].at \in AtWork \/ IssueAtWork = {} \/ issuesMet',
         issuing[r].at \in {"send", "consume"} =>
           \/ h.at \in {"send", "consume"} /\ h.link = issuing[r].link
           \/ issuing[r].link \in delivered' \cup botched'
  PROVE  AccountsInv'
<1>1. AccountsTypeOK /\ Links' = Links
  BY DEF AccountsInv, Links
<1>2. issuing'[r] = h /\ \A q \in Issuer : q # r => issuing'[q] = issuing[q]
  BY <1>1 DEF AccountsTypeOK
<1>3. AccountsTypeOK'
  BY <1>1, <1>2 DEF AccountsTypeOK
<1>4. MailOK'
  BY <1>2 DEF AccountsInv, MailOK, available, configured, originReady, frontendOrigin, isInternalHost
<1>5. Unused' = Unused /\ Creating' \subseteq Creating
  BY <1>1, <1>2 DEF Unused, Creating
<1>6. LinksBounded'
  BY <1>1, <1>5, LinksKept DEF AccountsInv
<1>7. ASSUME ~issuesMet' PROVE \A p, q \in IssueAtWork' : p = q
  BY <1>2, <1>7 DEF AccountsInv, IssuesApart, IssueAtWork, AtWork
<1>8. IssuesApart'
  BY <1>1, <1>5, <1>7 DEF AccountsInv, IssuesApart
<1>9. \A t \in Unused' : MailOf(t)'
  BY <1>2, <1>5 DEF AccountsInv, MailOf
<1> QED
  BY <1>3, <1>4, <1>6, <1>8, <1>9 DEF AccountsInv

LEMMA ProceedsTo ==
  ASSUME AccountsTypeOK, NEW r \in Issuer, NEW from, NEW to \in Place, Proceeds(r, from, to)
  PROVE  \E h \in Handler : /\ h.at = to /\ h.link = issuing[r].link
                            /\ issuing[r].at = from /\ issuing' = [issuing EXCEPT ![r] = h]
<1> DEFINE h == [issuing[r] EXCEPT !.at = to]
<1>1. h \in Handler /\ h.at = to /\ h.link = issuing[r].link
  BY DEF AccountsTypeOK, Handler
<1>2. issuing' = [issuing EXCEPT ![r] = h]
  BY DEF Proceeds, AccountsTypeOK
<1> QED
  BY <1>1, <1>2 DEF Proceeds

LEMMA RegistersInv ==
  ASSUME AccountsInv, NEW r \in Issuer,
         Register(r) \/ RegisterInsert(r) \/ Resend(r) \/ IssueCheck(r)
  PROVE  AccountsInv'
<1>1. PICK from \in {"free", "insert", "check"}, to \in {"insert", "check", "free", "close"} :
        /\ Proceeds(r, from, to)
        /\ to = "close" => available /\ (IssueAtWork = {} \/ issuesMet')
        /\ UNCHANGED <<mail, link, delivered, clock, botched>> /\ (issuesMet => issuesMet')
  <2>1. CASE Register(r)
    BY <2>1 DEF Register
  <2>2. CASE RegisterInsert(r)
    BY <2>2 DEF RegisterInsert
  <2>3. CASE Resend(r)
    BY <2>3 DEF Resend
  <2>4. CASE IssueCheck(r) /\ (~available \/ Limited)
    BY <2>4 DEF IssueCheck
  <2>5. CASE IssueCheck(r) /\ available /\ ~Limited
    BY <2>5 DEF IssueCheck
  <2> QED
    BY <2>1, <2>2, <2>3, <2>4, <2>5
<1>2. PICK h \in Handler : /\ h.at = to /\ h.link = issuing[r].link /\ issuing[r].at = from
                          /\ issuing' = [issuing EXCEPT ![r] = h]
  BY <1>1, ProceedsTo DEF Place, AccountsInv
<1> QED
  BY <1>1, <1>2, HandlerMoves DEF AtWork

LEMMA MailsInv ==
  ASSUME AccountsInv, NEW r \in Issuer, MailAccepted(r) \/ MailFailed(r)
  PROVE  AccountsInv'
<1>1. PICK to \in {"free", "consume"} :
        /\ Proceeds(r, "send", to)
        /\ delivered \subseteq delivered' /\ delivered' \subseteq delivered \cup {issuing[r].link}
        /\ to = "free" => issuing[r].link \in delivered'
        /\ UNCHANGED <<mail, link, clock, issuesMet, botched>>
  BY DEF MailAccepted, MailFailed
<1>2. PICK h \in Handler : /\ h.at = to /\ h.link = issuing[r].link /\ issuing[r].at = "send"
                          /\ issuing' = [issuing EXCEPT ![r] = h]
  BY <1>1, ProceedsTo DEF Place, AccountsInv
<1>3. issuing[r].link \in Links
  BY <1>2 DEF AccountsInv, AccountsTypeOK
<1> QED
  BY <1>1, <1>2, <1>3, HandlerMoves DEF AtWork

LEMMA IssuerStopsInv ==
  ASSUME AccountsInv, NEW r \in Issuer, IssuerStops(r)
  PROVE  AccountsInv'
<1>1. /\ Resting \in Handler /\ Resting.at = "free"
      /\ issuing' = [issuing EXCEPT ![r] = Resting]
  BY DEF Resting, Handler, Place, IssuerStops
<1>2. /\ UNCHANGED <<mail, link, delivered, clock, issuesMet>> /\ botched \subseteq botched'
      /\ issuing[r].at \in {"send", "consume"} => issuing[r].link \in botched'
  BY DEF IssuerStops
<1> QED
  BY <1>1, <1>2, HandlerMoves DEF AtWork

LEMMA VerifyFindInv ==
  ASSUME AccountsInv, NEW r \in Issuer, NEW t \in delivered, VerifyFind(r, t)
  PROVE  AccountsInv'
<1>1. t \in Links /\ t \in Nat
  BY DEF AccountsInv, AccountsTypeOK
<1>2. PICK h \in Handler : /\ h.at = "verify" /\ h.link = t
                          /\ issuing' = [issuing EXCEPT ![r] = h]
  <2>1. [at |-> "verify", link |-> t] \in Handler
    BY <1>1 DEF Handler, Place
  <2> QED
    BY <2>1 DEF VerifyFind
<1> QED
  BY <1>1, <1>2, HandlerMoves DEF VerifyFind, AtWork

\* A token is used, by the handler that failed to mail it or by the user.
LEMMA UsedInv ==
  ASSUME AccountsInv, NEW r \in Issuer, NEW from \in {"consume", "verify"},
         Proceeds(r, from, "free"), Used(issuing[r].link),
         UNCHANGED <<mail, delivered, clock, issuesMet, botched>>
  PROVE  AccountsInv'
<1>1. AccountsTypeOK
  BY DEF AccountsInv
<1>2. PICK h \in Handler : /\ h.at = "free" /\ issuing[r].at = from
                          /\ issuing' = [issuing EXCEPT ![r] = h]
  BY <1>1, ProceedsTo DEF Place
<1>3. issuing'[r] = h /\ \A q \in Issuer : q # r => issuing'[q] = issuing[q]
  BY <1>1, <1>2 DEF AccountsTypeOK
<1>4. PICK t \in Links : t = issuing[r].link
  BY <1>1, <1>2 DEF AccountsTypeOK
<1>5. /\ link' \in [Links -> Link] /\ Links' = Links /\ link'[t].used
      /\ \A u \in Links : u # t => link'[u] = link[u]
  BY <1>1, <1>4 DEF AccountsTypeOK, Used, Links, Link
<1>6. AccountsTypeOK'
  BY <1>1, <1>2, <1>3, <1>5 DEF AccountsTypeOK
<1>7. MailOK'
  BY <1>2, <1>3 DEF AccountsInv, MailOK, available, configured, originReady, frontendOrigin, isInternalHost
<1>8. Unused' = Unused \ {t} /\ Creating' = Creating
  BY <1>2, <1>3, <1>4, <1>5 DEF Unused, Creating
<1>9. LinksBounded'
  BY <1>1, <1>8, LinksKept DEF AccountsInv
<1>10. IssueAtWork' \subseteq IssueAtWork
  BY <1>2, <1>3 DEF IssueAtWork
<1>11. IssuesApart'
  BY <1>5, <1>8, <1>10 DEF AccountsInv, IssuesApart
<1>12. \A u \in Unused' : MailOf(u)'
  BY <1>2, <1>3, <1>4, <1>8 DEF AccountsInv, MailOf
<1> QED
  BY <1>6, <1>7, <1>9, <1>11, <1>12 DEF AccountsInv

LEMMA IssueCloseInv ==
  ASSUME AccountsInv, NEW r \in Issuer, IssueClose(r)
  PROVE  AccountsInv'
<1>1. AccountsTypeOK /\ UNCHANGED <<mail, delivered, clock, issuesMet, botched>>
  BY DEF AccountsInv, IssueClose
<1>2. PICK h \in Handler : /\ h.at = "create" /\ issuing[r].at = "close"
                          /\ issuing' = [issuing EXCEPT ![r] = h]
  BY <1>1, ProceedsTo DEF Place, IssueClose
<1>3. issuing'[r] = h /\ \A q \in Issuer : q # r => issuing'[q] = issuing[q]
  BY <1>1, <1>2 DEF AccountsTypeOK
<1>4. /\ link' \in [Links -> Link] /\ Links' = Links
      /\ \A t \in Links : link'[t].used
  <2>1. link' = [t \in Links |-> [link[t] EXCEPT !.used = TRUE]]
    BY DEF IssueClose
  <2>2. \A t \in Links : link[t] \in Link
    BY <1>1 DEF AccountsTypeOK
  <2> QED
    BY <2>1, <2>2 DEF Links, Link
<1>5. AccountsTypeOK'
  BY <1>1, <1>2, <1>3, <1>4 DEF AccountsTypeOK
<1>6. MailOK'
  BY <1>1, <1>2, <1>3 DEF AccountsInv, MailOK, available, configured, originReady, frontendOrigin, isInternalHost
<1>7. Unused' = {}
  BY <1>4 DEF Unused
<1>8. LinksBounded'
  <2> DEFINE C == Creating'
  <2>1. C \in SUBSET Issuer
    BY DEF Creating
  <2>2. Cardinality(C) \in Nat /\ Cardinality(C) <= Cardinality(Issuer)
    BY <2>1, IssuerAssumption, FS_Subset, FS_CardinalityType
  <2> HIDE DEF C
  <2>3. Cardinality({}) + Cardinality(C) <= Cardinality(Issuer)
    BY <1>1, <2>2, FS_EmptySet, OpenFinite
  <2> QED
    BY <1>7, <2>3 DEF LinksBounded, C
<1>9. IssueAtWork' = IssueAtWork
  BY <1>2, <1>3 DEF IssueAtWork
<1>10. IssuesApart'
  BY <1>1, <1>7, <1>9 DEF AccountsInv, IssuesApart
<1> QED
  BY <1>5, <1>6, <1>7, <1>8, <1>10 DEF AccountsInv

LEMMA IssueCreateInv ==
  ASSUME AccountsInv, NEW r \in Issuer, IssueCreate(r)
  PROVE  AccountsInv'
<1>1. /\ AccountsTypeOK /\ UNCHANGED <<mail, delivered, clock, issuesMet, botched>>
      /\ issuing[r].at = "create"
  BY DEF AccountsInv, IssueCreate
<1>2. PICK t \in Nat : t = Cardinality(Links) + 1
  BY <1>1 DEF AccountsTypeOK
<1>3. PICK h \in Handler : /\ h.at = "send" /\ h.link = t
                          /\ issuing' = [issuing EXCEPT ![r] = h]
  <2>1. [at |-> "send", link |-> t] \in Handler
    BY DEF Handler, Place
  <2> QED
    BY <1>2, <2>1 DEF IssueCreate
<1>4. issuing'[r] = h /\ \A q \in Issuer : q # r => issuing'[q] = issuing[q]
  BY <1>1, <1>3 DEF AccountsTypeOK
<1>5. link' = [n \in 1..t |-> IF n = t THEN [used |-> FALSE, created |-> clock] ELSE link[n]]
  BY <1>2 DEF IssueCreate
<1>6. /\ Links' = 1..t /\ Links = 1..(t - 1) /\ Cardinality(Links') = t
      /\ link' \in [Links' -> Link] /\ link'[t].used = FALSE
      /\ \A n \in Links : link'[n] = link[n]
  <2>1. Links' = 1..t /\ Links = 1..(t - 1)
    BY <1>1, <1>2, <1>5 DEF AccountsTypeOK, Links
  <2>2. Cardinality(1..t) = t
    BY FS_Interval
  <2>3. [used |-> FALSE, created |-> clock] \in Link
    BY <1>1 DEF AccountsTypeOK, Link
  <2>4. link' \in [1..t -> Link]
    BY <1>1, <1>5, <2>1, <2>3 DEF AccountsTypeOK
  <2>5. t \in 1..t /\ \A n \in 1..(t - 1) : n \in 1..t /\ n # t
    BY <1>1, <1>2 DEF AccountsTypeOK
  <2>6. link'[t].used = FALSE /\ \A n \in 1..(t - 1) : link'[n] = link[n]
    BY <1>5, <2>5
  <2> QED
    BY <2>1, <2>2, <2>4, <2>6
<1>7. AccountsTypeOK'
  <2>1. Cardinality(Links') \in Nat /\ Links' = 1..Cardinality(Links')
    BY <1>6
  <2>2. issuing' \in [Issuer -> Handler] /\ Links \subseteq Links' /\ t \in Links'
    <3>1. t \in 1..t /\ 1..(t - 1) \subseteq 1..t
      BY <1>1, <1>2 DEF AccountsTypeOK
    <3> QED
      BY <1>1, <1>3, <1>6, <3>1 DEF AccountsTypeOK
  <2> QED
    BY <1>1, <1>3, <1>4, <1>6, <2>1, <2>2 DEF AccountsTypeOK
<1>8. MailOK'
  BY <1>1, <1>3, <1>4 DEF AccountsInv, MailOK, available, configured, originReady, frontendOrigin, isInternalHost
<1>9. Unused' = Unused \cup {t} /\ t \notin Unused
  <2>1. Links' = Links \cup {t} /\ t \notin Links
    <3>1. t > 0
      BY <1>1, <1>2 DEF AccountsTypeOK
    <3>2. 1..t = (1..(t - 1)) \cup {t} /\ t \notin 1..(t - 1)
      BY <3>1
    <3> QED
      BY <1>6, <3>2
  <2> QED
    BY <1>6, <2>1 DEF Unused
<1>10. r \in Creating /\ Creating' = Creating \ {r}
  BY <1>1, <1>3, <1>4 DEF Creating
<1>11. LinksBounded'
  <2> DEFINE U == Unused \cup {t}
             C == Creating \ {r}
  <2>1. Cardinality(U) = Cardinality(Unused) + 1 /\ Cardinality(C) = Cardinality(Creating) - 1
    BY <1>1, <1>9, <1>10, OpenFinite, FS_AddElement, FS_RemoveElement
  <2> HIDE DEF U, C
  <2>2. Cardinality(U) + Cardinality(C) <= Cardinality(Issuer)
    BY <1>1, <2>1, OpenFinite DEF AccountsInv, LinksBounded
  <2> QED
    BY <1>9, <1>10, <2>2 DEF LinksBounded, U, C
<1>12. IssueAtWork' = IssueAtWork /\ Creating \subseteq IssueAtWork
  BY <1>1, <1>3, <1>4 DEF IssueAtWork, Creating
<1>13. IssuesApart'
  BY <1>1, <1>6, <1>9, <1>10, <1>12 DEF AccountsInv, IssuesApart
<1>14. ASSUME NEW u \in Unused' PROVE MailOf(u)'
  <2>1. CASE u = t
    BY <1>3, <1>4, <2>1 DEF MailOf
  <2>2. CASE u # t
    BY <1>1, <1>4, <1>9, <1>14, <2>2 DEF AccountsInv, MailOf
  <2> QED
    BY <2>1, <2>2
<1> QED
  BY <1>7, <1>8, <1>11, <1>13, <1>14 DEF AccountsInv

LEMMA AccountsNextInv == AccountsInv /\ [AccountsNext]_accountVars => AccountsInv'
<1> SUFFICES ASSUME AccountsInv, [AccountsNext]_accountVars PROVE AccountsInv'
  OBVIOUS
<1>1. CASE ClockTick \/ Login \/ UNCHANGED accountVars
  <2>1. UNCHANGED <<mail, link, delivered, issuing, issuesMet, botched>>
    BY <1>1 DEF ClockTick, Login, accountVars
  <2>2. clock' \in Nat /\ Links' = Links
    BY <1>1 DEF ClockTick, Login, accountVars, AccountsInv, AccountsTypeOK, Links
  <2>3. AccountsTypeOK'
    BY <2>1, <2>2 DEF AccountsInv, AccountsTypeOK
  <2>4. MailOK'
    BY <2>1 DEF AccountsInv, MailOK, available, configured, originReady, frontendOrigin, isInternalHost
  <2>5. Unused' = Unused /\ Creating' = Creating /\ IssueAtWork' = IssueAtWork
    BY <2>1, <2>2 DEF Unused, Creating, IssueAtWork
  <2>6. LinksBounded' /\ IssuesApart'
    BY <2>1, <2>2, <2>5 DEF AccountsInv, LinksBounded, IssuesApart
  <2>7. \A t \in Unused' : MailOf(t)'
    BY <2>1, <2>5 DEF AccountsInv, MailOf
  <2> QED
    BY <2>3, <2>4, <2>6, <2>7 DEF AccountsInv
<1>2. ASSUME NEW r \in Issuer, ConsumeToken(r) \/ Verify(r) PROVE AccountsInv'
  BY <1>2, UsedInv DEF ConsumeToken, Verify
<1> QED
  BY <1>1, <1>2, RegistersInv, IssueCloseInv, IssueCreateInv, MailsInv, IssuerStopsInv, VerifyFindInv
  DEF AccountsNext

LEMMA AccountsInitInv == AccountsInit => AccountsInv
<1> SUFFICES ASSUME AccountsInit PROVE AccountsInv
  OBVIOUS
<1>1. Links = {} /\ Cardinality(Links) = 0 /\ Unused = {} /\ Creating = {} /\ IssueAtWork = {}
  BY FS_EmptySet DEF AccountsInit, Links, Unused, Creating, IssueAtWork, Resting
<1>2. AccountsTypeOK
  <2>1. link \in [Links -> Link] /\ Links = 1..Cardinality(Links)
    BY <1>1 DEF AccountsInit, Links
  <2> QED
    BY <1>1, <2>1, MailAssumption DEF AccountsInit, AccountsTypeOK, Resting, Handler, Place
<1>3. MailOK
  BY DEF AccountsInit, MailOK, Resting
<1>4. LinksBounded /\ IssuesApart
  BY <1>1, <1>2, OpenFinite, FS_EmptySet DEF LinksBounded, IssuesApart
<1> QED
  BY <1>1, <1>2, <1>3, <1>4 DEF AccountsInv

LEMMA AccountsInvHolds == AccountsSpec => []AccountsInv
  BY AccountsInitInv, AccountsNextInv, PTL DEF AccountsSpec

-----------------------------------------------------------------------------
(* The theorems. *)

\* A user has one link that works unless two issues ran at once, and then no more than
\* handlers can run at once; a link in production leads to a public page
\* (issueVerification, frontendOrigin).
THEOREM LinkHolds == AccountsSpec => []OneLink
<1> DEFINE usable == {t \in Links : Usable(t)}
<1>1. ASSUME AccountsInv
      PROVE  IF issuesMet THEN Cardinality(usable) <= Cardinality(Issuer)
             ELSE usable \subseteq {Cardinality(Links)}
  <2>1. usable \in SUBSET Unused
    BY DEF Usable, Unused
  <2>2. Cardinality(usable) \in Nat /\ Cardinality(usable) <= Cardinality(Unused)
    BY <1>1, <2>1, OpenFinite, FS_Subset, FS_CardinalityType DEF AccountsInv
  <2>3. ~issuesMet => usable \subseteq {Cardinality(Links)}
    BY <1>1, <2>1 DEF AccountsInv, IssuesApart
  <2> HIDE DEF usable
  <2>4. Cardinality(usable) <= Cardinality(Issuer)
    BY <1>1, <2>2, OpenFinite DEF AccountsInv, LinksBounded
  <2> QED
    BY <2>3, <2>4
<1>2. ASSUME AccountsInv, delivered # {}, mail.production
      PROVE  frontendOrigin(mail) = {"public https"}
  <2>1. frontendOrigin(mail) # {} /\ mail.origin \in Origin
    BY <1>2 DEF AccountsInv, MailOK, available, originReady, AccountsTypeOK, MailSettings
  <2> QED
    BY <1>2, <2>1 DEF frontendOrigin, isInternalHost, Origin
<1>3. AccountsInv => OneLink
  BY <1>1, <1>2 DEF OneLink
<1> QED
  BY <1>3, AccountsInvHolds, PTL

\* A user who is refused another mail has a link on its way or in the mail, unless a
\* handler stopped in the middle (resendVerification).
THEOREM LimitedHolds == AccountsSpec => []LimitedHasMail
<1>1. AccountsInv => LimitedHasMail
  BY DEF AccountsInv, MailOf, Limited, LimitedHasMail
<1> QED
  BY <1>1, AccountsInvHolds, PTL

-----------------------------------------------------------------------------
(* Billing. *)

BillingSpec == BillingInit /\ [][BillingNext]_billingVars

SubscriptionStatus == LaterStatus \cup {"trialing", "canceled"}
Subscription == [id : Nat, status : SubscriptionStatus, ends : Expiry, canceling : BOOLEAN]
Event == [number : Nat, type : {"completed", "updated", "deleted"}, subscription : Subscription]

\* What is at Stripe is what the event said.
Current(e) ==
  /\ e.type = "deleted" => stripe.status = "canceled"
  /\ e.type # "deleted" => e.subscription = stripe
  /\ e.type = "updated" => stripe.status \in LaterStatus
  /\ e.type = "completed" => stripe.status \in {"active", "trialing"} /\ ~stripe.canceling

\* The events are numbered as they are sent, and the newest tells what is at Stripe.
StripeOK ==
  /\ stripe \in Subscription
  /\ stripe.status # "canceled" => stripe.ends \in Day
  /\ events \subseteq Event /\ IsFiniteSet(events)
  /\ \A e \in events : 0 < e.number /\ e.number <= newest
  /\ \A e, f \in events : e.number = f.number => e = f
  /\ \A e \in events : e.number = newest => Current(e)

Account(input) == [plan |-> input.plan, status |-> input.status,
                   subscription |-> input.subscription, canceling |-> input.canceling]

\* What a handler made of an event tells what is at Stripe, if it tells when that ends.
Tells(input) ==
  input.expires = stripe.ends =>
    /\ input.plan = "pro" <=> isEntitledStatus(stripe.status)
    /\ input.plan = "pro" => /\ input.status = mapStripeStatus(stripe.status)
                             /\ input.canceling = stripe.canceling

\* The same of the two rows, which agree.
RowsTell ==
  plan.expires = stripe.ends =>
    /\ account.plan = "pro" <=> isEntitledStatus(stripe.status)
    /\ account.plan = "pro" => /\ account.status = mapStripeStatus(stripe.status)
                               /\ account.canceling = stripe.canceling

RowsAgree ==
  /\ account.plan = "pro" <=> plan.plan = "PRO"
  /\ plan.status = orgStatus(account.status, account.plan = "pro")

\* A handler that works alone has written the user's row from what it has in hand.
HandlersOK ==
  ~torn =>
    /\ \A v, w \in Busy : v = w
    /\ \A w \in Busy : /\ account = Account(handling[w].input)
                       /\ applied = newest => Tells(handling[w].input)
    /\ Busy = {} /\ applied > 0 => RowsAgree /\ (applied = newest => RowsTell)

AppliedOK ==
  /\ handling = [w \in Webhook |-> handling[w]]
  /\ applied \in Nat /\ applied <= newest
  /\ applied = 0 => Busy = {} /\ plan.plan = "FREE"
  /\ applied = 0 /\ newest = 0 => ~isEntitledStatus(stripe.status)

BillingInv == StripeOK /\ HandlersOK /\ AppliedOK

-----------------------------------------------------------------------------
(* Stripe. *)

LEMMA EventsNumbered ==
  ASSUME BillingInv
  PROVE  /\ newest \in Nat
         /\ \A x : /\ IsFiniteSet(events \cup {x})
                   /\ x \notin events => Cardinality(events \cup {x}) = newest + 1
  BY FS_CardinalityType, FS_AddElement DEF BillingInv, StripeOK, newest

\* What a new event says is what is at Stripe, and none is as new.
LEMMA EmitsInv ==
  ASSUME BillingInv, NEW type \in {"completed", "updated", "deleted"},
         NEW subscription \in Subscription, Emits(type, subscription),
         subscription.status # "canceled" => subscription.ends \in Day,
         type = "deleted" => subscription.status = "canceled",
         type = "updated" => subscription.status \in LaterStatus,
         type = "completed" =>
           subscription.status \in {"active", "trialing"} /\ ~subscription.canceling
  PROVE  BillingInv'
<1>1. StripeOK /\ newest \in Nat
  BY EventsNumbered DEF BillingInv
<1>2. PICK n \in Nat : n = newest + 1
  BY <1>1
<1>3. PICK e : /\ e \in Event /\ e.number = n /\ e.type = type
               /\ type # "deleted" => e.subscription = subscription
               /\ events' = events \cup {e}
  <2> DEFINE e == [number |-> n, type |-> type,
                   subscription |-> IF type = "deleted" THEN [stripe EXCEPT !.status = "canceled"]
                                    ELSE subscription]
  <2>1. [stripe EXCEPT !.status = "canceled"] \in Subscription
    BY <1>1 DEF StripeOK, Subscription, SubscriptionStatus
  <2>2. e \in Event
    BY <2>1 DEF Event
  <2> QED
    BY <1>2, <2>2 DEF Emits
<1>4. stripe' = subscription /\ UNCHANGED <<account, plan, handling, day, applied, torn>>
  BY DEF Emits
<1>5. e \notin events
  BY <1>1, <1>2, <1>3 DEF StripeOK
<1>6. newest' = n /\ IsFiniteSet(events')
  BY <1>2, <1>3, <1>5, EventsNumbered DEF newest
<1>7. StripeOK'
  <2>1. stripe' \in Subscription /\ (stripe'.status # "canceled" => stripe'.ends \in Day)
    BY <1>4
  <2>2. events' \subseteq Event /\ \A f \in events' : 0 < f.number /\ f.number <= newest'
    BY <1>1, <1>2, <1>3, <1>6 DEF StripeOK, Event
  <2>3. \A f, g \in events' : f.number = g.number => f = g
    BY <1>1, <1>2, <1>3 DEF StripeOK, Event
  <2>4. \A f \in events' : f.number = newest' => f = e
    BY <1>1, <1>2, <1>3, <1>6 DEF StripeOK, Event
  <2>5. Current(e)'
    BY <1>3, <1>4 DEF Current
  <2> QED
    BY <1>6, <2>1, <2>2, <2>3, <2>4, <2>5 DEF StripeOK
<1>8. applied' # newest' /\ Busy' = Busy
  BY <1>1, <1>2, <1>4, <1>6 DEF BillingInv, AppliedOK, Busy
<1>9. HandlersOK' /\ AppliedOK'
  BY <1>1, <1>2, <1>4, <1>6, <1>8 DEF BillingInv, HandlersOK, AppliedOK, RowsAgree, Account
<1> QED
  BY <1>7, <1>9 DEF BillingInv

LEMMA StripeNextInv ==
  ASSUME BillingInv, StripeCheckout \/ StripeUpdate \/ StripeDelete
  PROVE  BillingInv'
<1>1. StripeOK
  BY DEF BillingInv
<1>2. ASSUME NEW status \in {"active", "trialing"}, NEW ends \in Day,
             Emits("completed", [id |-> stripe.id + 1, status |-> status, ends |-> ends,
                                 canceling |-> FALSE])
      PROVE  BillingInv'
  <2> DEFINE s == [id |-> stripe.id + 1, status |-> status, ends |-> ends, canceling |-> FALSE]
  <2>1. s \in Subscription /\ s.status = status /\ s.ends = ends /\ s.canceling = FALSE
    BY <1>1 DEF StripeOK, Subscription, SubscriptionStatus, LaterStatus, Expiry
  <2>2. Emits("completed", s)
    BY <1>2
  <2> HIDE DEF s
  <2> QED
    BY <2>1, <2>2, EmitsInv
<1>3. ASSUME NEW status \in LaterStatus, NEW ends \in Day, NEW canceling \in BOOLEAN,
             Emits("updated", [stripe EXCEPT !.status = status, !.ends = ends,
                                             !.canceling = canceling])
      PROVE  BillingInv'
  <2> DEFINE s == [stripe EXCEPT !.status = status, !.ends = ends, !.canceling = canceling]
  <2>1. s \in Subscription /\ s.status = status /\ s.ends = ends
    BY <1>1 DEF StripeOK, Subscription, SubscriptionStatus, LaterStatus, Expiry
  <2>2. Emits("updated", s)
    BY <1>3
  <2> HIDE DEF s
  <2> QED
    BY <2>1, <2>2, EmitsInv
<1>4. CASE StripeDelete
  <2> DEFINE s == [NoSubscription EXCEPT !.id = stripe.id]
  <2>1. s \in Subscription /\ s.status = "canceled"
    BY <1>1 DEF StripeOK, NoSubscription, Subscription, SubscriptionStatus, Expiry
  <2>2. Emits("deleted", s)
    BY <1>4 DEF StripeDelete
  <2> HIDE DEF s
  <2> QED
    BY <2>1, <2>2, EmitsInv
<1> QED
  BY <1>2, <1>3, <1>4 DEF StripeCheckout, StripeUpdate

-----------------------------------------------------------------------------
(* The handlers. *)

\* Whatever a handler makes of the newest event tells what is at Stripe.
LEMMA InputTells ==
  ASSUME BillingInv, NEW e \in events, e.number = newest, NEW input \in Inputs(e)
  PROVE  Tells(input)
<1>1. /\ e \in Event /\ Current(e) /\ stripe \in Subscription /\ newest \in Nat
      /\ stripe.status # "canceled" => stripe.ends \in Day
  BY EventsNumbered DEF BillingInv, StripeOK
<1>2. \A d \in Day : d # NoExpiry
  BY NoExpiryAssumption, BillingBounds DEF Day
<1>3. CASE e.type = "completed"
  <2>1. \A f \in events : f.number >= e.number => f = e
    BY <1>1 DEF BillingInv, StripeOK, Event
  <2>2. e.subscription = stripe /\ stripe.status \in {"active", "trialing"} /\ ~stripe.canceling
    BY <1>1, <1>3 DEF Current
  <2>3. PICK s \in {[stripe EXCEPT !.status = "active", !.ends = NoExpiry], stripe} :
          input = [plan |-> "pro", status |-> mapStripeStatus(s.status), subscription |-> s.id,
                   expires |-> s.ends, canceling |-> FALSE]
    BY <1>3, <2>1, <2>2 DEF Inputs, onCheckoutCompleted
  <2>4. CASE s = stripe
    BY <1>1, <2>2, <2>3, <2>4 DEF Tells, isEntitledStatus, Subscription
  <2>5. CASE s = [stripe EXCEPT !.status = "active", !.ends = NoExpiry]
    <3>1. s.ends = NoExpiry
      BY <1>1, <2>5 DEF Subscription
    <3> QED
      BY <1>1, <1>2, <2>2, <2>3, <3>1 DEF Tells
  <2> QED
    BY <2>3, <2>4, <2>5
<1>4. CASE e.type = "updated"
  <2>1. e.subscription = stripe /\ stripe.status \in LaterStatus
    BY <1>1, <1>4 DEF Current
  <2>2. input.plan = IF isEntitledStatus(stripe.status) THEN "pro" ELSE "free"
    BY <1>4, <2>1 DEF Inputs, onSubscriptionUpdated, LaterStatus
  <2>3. input.status = mapStripeStatus(stripe.status) /\ input.canceling = stripe.canceling
    BY <1>4, <2>1 DEF Inputs, onSubscriptionUpdated, LaterStatus, mapLifecycleStatus
  <2> QED
    BY <2>2, <2>3 DEF Tells
<1>5. CASE e.type = "deleted"
  BY <1>1, <1>5 DEF Current, Inputs, onSubscriptionDeleted, Tells, isEntitledStatus
<1> QED
  BY <1>1, <1>3, <1>4, <1>5 DEF Event

\* What the handlers leave alone.
LEMMA StripeStays ==
  ASSUME BillingInv, UNCHANGED <<stripe, events>>
  PROVE  StripeOK' /\ newest' = newest
  BY DEF BillingInv, StripeOK, newest, Current

LEMMA WebhookUserInv ==
  ASSUME BillingInv, NEW w \in Webhook, NEW e \in events, WebhookUser(w, e)
  PROVE  BillingInv'
<1>1. /\ UNCHANGED <<stripe, events, plan>> /\ applied' = e.number /\ torn' = (Busy # {})
      /\ handling[w] = NoEvent /\ AppliedOK
  BY DEF BillingInv, WebhookUser
<1>2. PICK input \in Inputs(e) : /\ account' = Account(input)
                                /\ handling' = [handling EXCEPT ![w] = [number |-> e.number, input |-> input]]
  BY DEF WebhookUser, Account
<1>3. StripeOK' /\ newest' = newest
  BY <1>1, StripeStays
<1>4. e.number \in Nat /\ 0 < e.number /\ e.number <= newest
  BY DEF BillingInv, StripeOK, Event
<1>5. /\ handling' = [v \in Webhook |-> handling'[v]]
      /\ handling'[w].input = input /\ handling'[w].number = e.number
      /\ \A v \in Webhook : v # w => handling'[v] = handling[v]
  BY <1>1, <1>2 DEF AppliedOK
<1>6. handling'[w] # NoEvent
  BY <1>4, <1>5 DEF NoEvent
<1>7. Busy' = Busy \cup {w}
  BY <1>5, <1>6 DEF Busy
<1>8. AppliedOK'
  BY <1>1, <1>3, <1>4, <1>5 DEF AppliedOK
<1>9. HandlersOK'
  <2> SUFFICES ASSUME Busy = {} PROVE HandlersOK'
    BY <1>1 DEF HandlersOK
  <2>1. Busy' = {w}
    BY <1>7
  <2>2. applied' = newest' => Tells(input)'
    <3>1. e.number = newest => Tells(input)
      BY InputTells
    <3> QED
      BY <1>1, <1>3, <3>1 DEF Tells
  <2>3. account' = Account(handling'[w].input)
    BY <1>2, <1>5
  <2>4. applied' = newest' => Tells(handling[w].input)'
    BY <1>5, <2>2 DEF Tells
  <2> QED
    BY <2>1, <2>3, <2>4 DEF HandlersOK, Account
<1> QED
  BY <1>3, <1>8, <1>9 DEF BillingInv

LEMMA WebhookOrganizationInv ==
  ASSUME BillingInv, NEW w \in Webhook, WebhookOrganization(w)
  PROVE  BillingInv'
<1>1. /\ UNCHANGED <<stripe, events, account, applied, torn>> /\ handling[w] # NoEvent
      /\ plan' = OrganizationOf(handling[w].input)
      /\ handling' = [handling EXCEPT ![w] = NoEvent] /\ AppliedOK
  BY DEF BillingInv, WebhookOrganization
<1>2. StripeOK' /\ newest' = newest
  BY <1>1, StripeStays
<1>3. /\ w \in Busy /\ Busy' = Busy \ {w}
      /\ \A v \in Busy' : handling'[v] = handling[v]
  BY <1>1 DEF Busy, AppliedOK
<1>4. AppliedOK'
  BY <1>1, <1>2, <1>3 DEF AppliedOK
<1>5. ASSUME ~torn PROVE Busy' = {} /\ RowsAgree' /\ (applied = newest => RowsTell')
  <2>1. /\ Busy' = {} /\ account = Account(handling[w].input)
        /\ applied = newest => Tells(handling[w].input)
    BY <1>3, <1>5 DEF BillingInv, HandlersOK
  <2>2. RowsAgree'
    BY <1>1, <2>1 DEF RowsAgree, OrganizationOf, Account
  <2>3. applied = newest => RowsTell'
    BY <1>1, <2>1 DEF RowsTell, Tells, OrganizationOf, Account
  <2> QED
    BY <2>1, <2>2, <2>3
<1>6. HandlersOK'
  BY <1>1, <1>2, <1>5 DEF HandlersOK
<1> QED
  BY <1>2, <1>4, <1>6 DEF BillingInv

LEMMA WebhookFailsInv ==
  ASSUME BillingInv, NEW w \in Webhook, WebhookFails(w)
  PROVE  BillingInv'
<1>1. StripeOK' /\ newest' = newest
  BY StripeStays DEF WebhookFails
<1>2. HandlersOK'
  BY DEF WebhookFails, HandlersOK
<1>3. Busy' \subseteq Busy
  BY DEF WebhookFails, BillingInv, AppliedOK, Busy
<1>4. AppliedOK'
  BY <1>1, <1>3 DEF WebhookFails, BillingInv, AppliedOK
<1> QED
  BY <1>1, <1>2, <1>4 DEF BillingInv

LEMMA BillingNextInv == BillingInv /\ [BillingNext]_billingVars => BillingInv'
<1> SUFFICES ASSUME BillingInv, [BillingNext]_billingVars PROVE BillingInv'
  OBVIOUS
<1>1. CASE DayPasses \/ UNCHANGED billingVars
  <2>1. UNCHANGED <<stripe, events, account, plan, handling, applied, torn>>
    BY <1>1 DEF DayPasses, billingVars
  <2>2. StripeOK' /\ newest' = newest
    BY <2>1, StripeStays
  <2>3. HandlersOK' /\ AppliedOK'
    BY <2>1, <2>2 DEF BillingInv, HandlersOK, AppliedOK, Busy, RowsAgree, RowsTell, Tells, Account
  <2> QED
    BY <2>2, <2>3 DEF BillingInv
<1> QED
  BY <1>1, StripeNextInv, WebhookUserInv, WebhookOrganizationInv, WebhookFailsInv
  DEF BillingNext

LEMMA BillingInitInv == BillingInit => BillingInv
<1> SUFFICES ASSUME BillingInit PROVE BillingInv
  OBVIOUS
<1>1. newest = 0 /\ IsFiniteSet(events)
  BY FS_EmptySet DEF BillingInit, newest
<1>2. StripeOK
  BY <1>1 DEF BillingInit, StripeOK, NoSubscription, Subscription, SubscriptionStatus, Expiry
<1>3. HandlersOK
  BY DEF BillingInit, HandlersOK, Busy
<1>4. AppliedOK
  BY <1>1 DEF BillingInit, AppliedOK, Busy, NoSubscription, isEntitledStatus
<1> QED
  BY <1>2, <1>3, <1>4 DEF BillingInv

LEMMA BillingInvHolds == BillingSpec => []BillingInv
  BY BillingInitInv, BillingNextInv, PTL DEF BillingSpec

-----------------------------------------------------------------------------
(* The theorems. *)

\* The user's row and the organization's tell one story after a handler that worked
\* alone, whatever the order and number of the events (handleWebhook).
THEOREM PlansHold == BillingSpec => []PlansAgree
<1>1. BillingInv => PlansAgree
  BY DEF BillingInv, HandlersOK, RowsAgree, PlansAgree
<1> QED
  BY <1>1, BillingInvHolds, PTL

\* After the newest event was handled alone, the organization has what the subscription
\* gives the user at Stripe, while its period lasts (onSubscriptionUpdated, isProPlan).
THEOREM StripeFollowed == BillingSpec => []FollowsStripe
<1>1. ASSUME BillingInv, Busy = {}, ~torn, applied = newest, plan.expires = stripe.ends
      PROVE  /\ getSubscription.isPro <=> isEntitledStatus(stripe.status) /\ stripe.ends >= day
             /\ getSubscription.isPro => /\ getSubscription.status = mapStripeStatus(stripe.status)
                                        /\ getSubscription.canceling = stripe.canceling
  <2>1. /\ getSubscription.isPro = isProPlan /\ getSubscription.status = displayStatus
        /\ getSubscription.canceling = account.canceling
    BY DEF getSubscription
  <2>2. stripe.status # "canceled" => stripe.ends \in Day /\ stripe.ends # NoExpiry
    BY <1>1, NoExpiryAssumption, BillingBounds DEF BillingInv, StripeOK, Day
  <2>3. CASE applied = 0
    <3>1. plan.plan = "FREE" /\ ~isEntitledStatus(stripe.status)
      BY <1>1, <2>3 DEF BillingInv, AppliedOK
    <3> QED
      BY <2>1, <3>1 DEF isProPlan
  <2>4. CASE applied > 0
    <3>1. RowsAgree /\ RowsTell
      BY <1>1, <2>4 DEF BillingInv, HandlersOK
    <3>2. CASE ~isEntitledStatus(stripe.status)
      BY <1>1, <2>1, <3>1, <3>2 DEF RowsAgree, RowsTell, isProPlan
    <3>3. CASE isEntitledStatus(stripe.status)
      <4>1. /\ account.plan = "pro" /\ plan.plan = "PRO"
            /\ account.status = mapStripeStatus(stripe.status)
            /\ account.canceling = stripe.canceling
        BY <1>1, <3>1, <3>3 DEF RowsAgree, RowsTell
      <4>2. plan.status \notin {"inactive", "canceled"}
        BY <3>1, <3>3, <4>1 DEF RowsAgree, orgStatus, mapStripeStatus, isEntitledStatus
      <4>3. stripe.ends # NoExpiry
        BY <2>2, <3>3 DEF isEntitledStatus
      <4>4. isProPlan <=> stripe.ends >= day
        BY <1>1, <4>1, <4>2, <4>3 DEF isProPlan
      <4> QED
        BY <2>1, <3>3, <4>1, <4>4 DEF displayStatus
    <3> QED
      BY <3>2, <3>3
  <2> QED
    BY <1>1, <2>3, <2>4 DEF BillingInv, AppliedOK
<1>2. BillingInv => FollowsStripe
  BY <1>1 DEF FollowsStripe
<1> QED
  BY <1>2, BillingInvHolds, PTL

-----------------------------------------------------------------------------
(* Organizations. *)

OrganizationsSpec == OrganizationsInit /\ [][OrganizationsNext]_orgVars

Membership == [user : User, committed : BOOLEAN]
ProjectRow == {NoProject} \cup [owner : User, org : Nat \cup {NoOrg}]
Stage == {"free", "create", "commit", "adopt", "acting"}

OrgTypeOK ==
  /\ membership \in Seq(Membership)
  /\ projects \in [Project -> ProjectRow]
  /\ environments \in [Environment -> SUBSET [project : Project, by : User]]
  /\ ensuring \in [Ensurer -> [at : Stage, user : User \cup {NoUser}, org : Nat \cup {NoOrg}]]

\* The organization of a request is its user's, and committed once it is passed on.
RequestOK(r) ==
  /\ ensuring[r].at # "free" => ensuring[r].user \in User
  /\ ensuring[r].at = "commit" =>
       ensuring[r].org \in DOMAIN membership /\ membership[ensuring[r].org].user = ensuring[r].user
  /\ ensuring[r].at \in {"adopt", "acting"} => ensuring[r].org \in MembershipsOf(ensuring[r].user)

\* A project in an organization is in one of its owner's.
ProjectsOK ==
  \A p \in Project : projects[p].org # NoOrg => projects[p].org \in MembershipsOf(projects[p].owner)

\* An environment is of one application, of whoever wrote it.
EnvironmentsOK ==
  \A e \in Environment : \A row \in environments[e] :
    projects[row.project].owner = row.by /\ environments[e] = {row}

\* The requests that will still add an organization of the user.
Pending(u) == {r \in Ensurer : ensuring[r].user = u /\ ensuring[r].at \in {"create", "commit"}}

\* The first requests of a user add one organization each, and then there are no more.
FirstsBounded(u) == Cardinality(MembershipsOf(u)) + Cardinality(Pending(u)) <= Cardinality(Ensurer)

\* Only one of a user's requests was a first one at a time, and all later ones find what
\* it created.
FirstAlone(u) ==
  u \notin met =>
    /\ \A r, q \in AtFirst(u) : r = q
    /\ Pending(u) # {} => MembershipsOf(u) = {}
    /\ \A o, p \in MembershipsOf(u) : o = p

OrgInv ==
  /\ OrgTypeOK
  /\ \A r \in Ensurer : RequestOK(r)
  /\ ProjectsOK
  /\ EnvironmentsOK
  /\ \A u \in User : FirstsBounded(u) /\ FirstAlone(u)

-----------------------------------------------------------------------------
(* Memberships and their number. *)

LEMMA MembershipsInOrder ==
  ASSUME OrgTypeOK, NEW u
  PROVE  /\ MembershipsOf(u) \subseteq Nat /\ MembershipsOf(u) \subseteq DOMAIN membership
         /\ IsFiniteSet(MembershipsOf(u)) /\ Cardinality(MembershipsOf(u)) \in Nat
<1>1. Len(membership) \in Nat /\ DOMAIN membership = 1..Len(membership)
  BY DEF OrgTypeOK
<1>2. MembershipsOf(u) \subseteq 1..Len(membership)
  BY <1>1 DEF MembershipsOf
<1>3. IsFiniteSet(1..Len(membership))
  BY <1>1, FS_Interval
<1>4. IsFiniteSet(MembershipsOf(u))
  BY <1>2, <1>3, FS_Subset
<1> QED
  BY <1>1, <1>2, <1>4, FS_CardinalityType

\* The home of a user with a membership is one of them.
LEMMA HomeIsOne ==
  ASSUME OrgTypeOK, NEW u
  PROVE  IF MembershipsOf(u) = {} THEN Home(u) = NoOrg
         ELSE Home(u) \in MembershipsOf(u) /\ Home(u) # NoOrg
<1>1. CASE MembershipsOf(u) = {}
  BY <1>1 DEF Home
<1>2. CASE MembershipsOf(u) # {}
  <2> DEFINE S == MembershipsOf(u)
  <2>1. S \subseteq Nat /\ S # {}
    BY <1>2, MembershipsInOrder
  <2>2. PICK m \in S : \A n \in S : <<n, m>> \notin OpToRel(<, Nat)
    BY <2>1, NatLessThanWellFounded, WFMin
  <2>3. ASSUME NEW n \in S PROVE m <= n
    <3>1. m \in Nat /\ n \in Nat
      BY <2>1
    <3>2. n < m => <<n, m>> \in OpToRel(<, Nat)
      BY <3>1 DEF OpToRel
    <3>3. ~(n < m)
      BY <2>2, <2>3, <3>2, Zenon
    <3> QED
      BY <3>1, <3>3
  <2>4. Home(u) \in MembershipsOf(u)
    BY <1>2, <2>3 DEF Home
  <2> QED
    BY <1>2, <2>1, <2>4, NobodyAssumption
<1> QED
  BY <1>1, <1>2

LEMMA PendingFinite ==
  ASSUME NEW u
  PROVE  /\ IsFiniteSet(Pending(u)) /\ Cardinality(Pending(u)) \in Nat
         /\ Cardinality(Pending(u)) <= Cardinality(Ensurer) /\ Cardinality(Ensurer) \in Nat
<1>1. Pending(u) \in SUBSET Ensurer
  BY DEF Pending
<1> QED
  BY <1>1, EnsurerAssumption, FS_Subset, FS_CardinalityType

\* No membership is added, and a request that still adds one is the first or was there.
LEMMA FirstsKept ==
  ASSUME OrgTypeOK, NEW u, FirstsBounded(u), MembershipsOf(u)' = MembershipsOf(u),
         Pending(u)' \subseteq Pending(u) \/ MembershipsOf(u) = {}
  PROVE  FirstsBounded(u)'
<1> DEFINE P == Pending(u)'
<1>1. /\ Cardinality(MembershipsOf(u)) \in Nat /\ Cardinality(Ensurer) \in Nat
      /\ IsFiniteSet(Pending(u)) /\ Cardinality(Pending(u)) \in Nat
  BY MembershipsInOrder, PendingFinite
<1>2. P \in SUBSET Ensurer
  BY DEF Pending
<1>3. Cardinality(P) \in Nat /\ Cardinality(P) <= Cardinality(Ensurer)
  BY <1>2, EnsurerAssumption, FS_Subset, FS_CardinalityType
<1>4. CASE P \subseteq Pending(u)
  <2>1. Cardinality(P) <= Cardinality(Pending(u))
    BY <1>1, <1>4, FS_Subset
  <2> HIDE DEF P
  <2>2. Cardinality(MembershipsOf(u)) + Cardinality(P) <= Cardinality(Ensurer)
    BY <1>1, <1>3, <2>1 DEF FirstsBounded
  <2> QED
    BY <2>2 DEF FirstsBounded, P
<1>5. CASE MembershipsOf(u) = {}
  <2>1. Cardinality(MembershipsOf(u)) = 0
    BY <1>5, FS_EmptySet
  <2> HIDE DEF P
  <2>2. Cardinality(MembershipsOf(u)) + Cardinality(P) <= Cardinality(Ensurer)
    BY <1>1, <1>3, <2>1
  <2> QED
    BY <2>2 DEF FirstsBounded, P
<1> QED
  BY <1>4, <1>5

\* A membership is committed, and its request adds no other.
LEMMA BoundCommitted ==
  ASSUME OrgTypeOK, NEW u, FirstsBounded(u), NEW o, MembershipsOf(u)' = MembershipsOf(u) \cup {o},
         NEW r \in Pending(u), Pending(u)' = Pending(u) \ {r}
  PROVE  FirstsBounded(u)'
<1> DEFINE M == MembershipsOf(u) \cup {o}
           P == Pending(u) \ {r}
<1>1. /\ Cardinality(MembershipsOf(u)) \in Nat /\ Cardinality(Ensurer) \in Nat
      /\ IsFiniteSet(Pending(u)) /\ Cardinality(Pending(u)) \in Nat
      /\ IsFiniteSet(MembershipsOf(u))
  BY MembershipsInOrder, PendingFinite
<1>2. Cardinality(P) = Cardinality(Pending(u)) - 1
  BY <1>1, FS_RemoveElement
<1>3. Cardinality(M) <= Cardinality(MembershipsOf(u)) + 1 /\ Cardinality(M) \in Nat
  <2>1. Cardinality(M) = IF o \in MembershipsOf(u) THEN Cardinality(MembershipsOf(u))
                         ELSE Cardinality(MembershipsOf(u)) + 1
    BY <1>1, FS_AddElement
  <2> HIDE DEF M
  <2> QED
    BY <1>1, <2>1
<1> HIDE DEF M, P
<1>4. Cardinality(M) + Cardinality(P) <= Cardinality(Ensurer)
  BY <1>1, <1>2, <1>3 DEF FirstsBounded
<1> QED
  BY <1>4 DEF FirstsBounded, M, P

-----------------------------------------------------------------------------
(* The steps. *)

Request == [at : Stage, user : User \cup {NoUser}, org : Nat \cup {NoOrg}]

RequestsOK ==
  /\ \A r \in Ensurer : RequestOK(r)
  /\ \A u \in User : FirstsBounded(u) /\ FirstAlone(u)

LEMMA MembershipsSame ==
  ASSUME UNCHANGED membership, NEW u
  PROVE  MembershipsOf(u)' = MembershipsOf(u)
  BY DEF MembershipsOf

\* A request ends, or goes on with an organization that is its user's.
LEMMA RequestPasses ==
  ASSUME OrgInv, NEW r \in Ensurer, NEW h \in Request, h.at \in {"free", "acting"},
         h.at = "acting" => h.user \in User /\ h.org \in MembershipsOf(h.user),
         ensuring' = [ensuring EXCEPT ![r] = h], UNCHANGED <<membership, met>>
  PROVE  RequestsOK'
<1>1. ensuring'[r] = h /\ \A q \in Ensurer : q # r => ensuring'[q] = ensuring[q]
  BY DEF OrgInv, OrgTypeOK
<1>2. ASSUME NEW q \in Ensurer PROVE RequestOK(q)'
  BY <1>1, MembershipsSame DEF OrgInv, RequestOK
<1>3. ASSUME NEW u \in User PROVE FirstsBounded(u)' /\ FirstAlone(u)'
  <2>1. Pending(u)' \subseteq Pending(u) /\ AtFirst(u)' \subseteq AtFirst(u)
    BY <1>1 DEF Pending, AtFirst
  <2>2. FirstsBounded(u)'
    BY <2>1, MembershipsSame, FirstsKept DEF OrgInv
  <2>3. FirstAlone(u)'
    BY <2>1, MembershipsSame DEF OrgInv, FirstAlone
  <2> QED
    BY <2>2, <2>3
<1> QED
  BY <1>2, <1>3 DEF RequestsOK

LEMMA EndsRequestOK ==
  ASSUME OrgInv, NEW r \in Ensurer, EndsRequest(r), UNCHANGED <<membership, met>>
  PROVE  RequestsOK' /\ ensuring' \in [Ensurer -> Request]
<1>1. FreeEnsurer \in Request
  BY DEF FreeEnsurer, Request, Stage
<1>2. ensuring' = [ensuring EXCEPT ![r] = FreeEnsurer]
  BY DEF EndsRequest
<1> QED
  BY <1>1, <1>2, RequestPasses DEF FreeEnsurer, OrgInv, OrgTypeOK, Request

LEMMA EnsureFindInv ==
  ASSUME OrgInv, NEW r \in Ensurer, NEW u \in User, EnsureFind(r, u)
  PROVE  OrgInv'
<1>1. OrgTypeOK /\ UNCHANGED <<membership, projects, environments>>
  BY DEF OrgInv, EnsureFind
<1>2. Home(u) \in Nat \cup {NoOrg}
  BY <1>1, HomeIsOne, MembershipsInOrder
<1>3. PICK h \in Request :
        /\ h.at = IF Home(u) = NoOrg THEN "create" ELSE "acting"
        /\ h.user = u /\ h.org = Home(u)
        /\ ensuring' = [ensuring EXCEPT ![r] = h]
  <2> DEFINE h == [at |-> IF Home(u) = NoOrg THEN "create" ELSE "acting",
                   user |-> u, org |-> Home(u)]
  <2>1. h \in Request
    BY <1>2 DEF Request, Stage
  <2> QED
    BY <2>1 DEF EnsureFind
<1>4. OrgTypeOK'
  BY <1>1, <1>3 DEF OrgTypeOK, Request, EnsureFind
<1>5. ProjectsOK' /\ EnvironmentsOK'
  BY <1>1, MembershipsSame DEF OrgInv, ProjectsOK, EnvironmentsOK
<1>6. CASE Home(u) # NoOrg
  <2>1. UNCHANGED met /\ h.org \in MembershipsOf(h.user)
    BY <1>1, <1>3, <1>6, HomeIsOne DEF EnsureFind
  <2>2. RequestsOK'
    BY <1>1, <1>3, <1>6, <2>1, RequestPasses
  <2> QED
    BY <1>4, <1>5, <2>2 DEF OrgInv, RequestsOK
<1>7. CASE Home(u) = NoOrg
  <2>1. ensuring'[r] = h /\ \A q \in Ensurer : q # r => ensuring'[q] = ensuring[q]
    BY <1>1, <1>3 DEF OrgTypeOK
  <2>2. MembershipsOf(u) = {} /\ h.at = "create" /\ ensuring[r].at = "free"
    BY <1>1, <1>3, <1>7, HomeIsOne DEF EnsureFind
  <2>3. ASSUME NEW q \in Ensurer PROVE RequestOK(q)'
    BY <1>1, <1>3, <2>1, <2>2, MembershipsSame DEF OrgInv, RequestOK
  <2>4. ASSUME NEW v \in User PROVE FirstsBounded(v)'
    <3>1. v # u => Pending(v)' \subseteq Pending(v)
      BY <1>3, <2>1 DEF Pending
    <3> QED
      BY <1>1, <2>2, <3>1, MembershipsSame, FirstsKept DEF OrgInv
  <2>5. ASSUME NEW v \in User PROVE FirstAlone(v)'
    <3>1. CASE v # u
      <4>1. /\ Pending(v)' \subseteq Pending(v) /\ AtFirst(v)' \subseteq AtFirst(v)
            /\ v \notin met' => v \notin met
        BY <1>3, <2>1, <3>1 DEF Pending, AtFirst, EnsureFind
      <4> QED
        BY <1>1, <4>1, MembershipsSame DEF OrgInv, FirstAlone
    <3>2. CASE v = u
      <4>1. u \notin met' => AtFirst(u) = {}
        BY <1>7 DEF EnsureFind
      <4>2. AtFirst(u)' \subseteq AtFirst(u) \cup {r}
        BY <2>1 DEF AtFirst
      <4> QED
        BY <1>1, <2>2, <3>2, <4>1, <4>2, MembershipsSame DEF FirstAlone
    <3> QED
      BY <3>1, <3>2
  <2> QED
    BY <1>4, <1>5, <2>3, <2>4, <2>5 DEF OrgInv
<1> QED
  BY <1>6, <1>7

LEMMA EnsureCreateInv ==
  ASSUME OrgInv, NEW r \in Ensurer, EnsureCreate(r)
  PROVE  OrgInv'
<1>1. OrgTypeOK /\ ensuring[r].at = "create" /\ UNCHANGED <<projects, environments, met>>
  BY DEF OrgInv, EnsureCreate
<1>2. ensuring[r].user \in User /\ ensuring[r] \in Request
  BY <1>1 DEF OrgInv, RequestOK, OrgTypeOK, Request
<1>3. PICK n \in Nat : n = Len(membership) + 1
  BY <1>1 DEF OrgTypeOK
<1>4. PICK m \in Membership : /\ m = [user |-> ensuring[r].user, committed |-> FALSE]
                              /\ membership' = Append(membership, m)
  BY <1>2 DEF EnsureCreate, Membership
<1>5. /\ membership' \in Seq(Membership) /\ Len(membership') = n
      /\ membership'[n] = m /\ DOMAIN membership' = DOMAIN membership \cup {n}
      /\ \A o \in DOMAIN membership : membership'[o] = membership[o]
      /\ n \notin DOMAIN membership
  BY <1>1, <1>3, <1>4 DEF OrgTypeOK
<1>6. \A u : MembershipsOf(u)' = MembershipsOf(u)
  <2>1. m.committed = FALSE
    BY <1>4
  <2> QED
    BY <1>5, <2>1 DEF MembershipsOf
<1>7. PICK h \in Request :
        /\ h.at = "commit" /\ h.org = n /\ h.user = ensuring[r].user
        /\ ensuring' = [ensuring EXCEPT ![r] = h]
  <2> DEFINE h == [ensuring[r] EXCEPT !.at = "commit", !.org = n]
  <2>1. h \in Request /\ h.at = "commit" /\ h.org = n /\ h.user = ensuring[r].user
    BY <1>2 DEF Request, Stage
  <2>2. ensuring' = [ensuring EXCEPT ![r] = h]
    BY <1>1, <1>2, <1>5 DEF EnsureCreate, OrgTypeOK
  <2> QED
    BY <2>1, <2>2
<1>8. ensuring'[r] = h /\ \A q \in Ensurer : q # r => ensuring'[q] = ensuring[q]
  BY <1>1, <1>7 DEF OrgTypeOK
<1>9. OrgTypeOK'
  BY <1>1, <1>5, <1>7 DEF OrgTypeOK, Request
<1>10. ASSUME NEW q \in Ensurer PROVE RequestOK(q)'
  <2>1. CASE q = r
    BY <1>2, <1>4, <1>5, <1>7, <1>8, <2>1 DEF RequestOK
  <2>2. CASE q # r
    BY <1>5, <1>6, <1>8, <2>2 DEF OrgInv, RequestOK
  <2> QED
    BY <2>1, <2>2
<1>11. ProjectsOK' /\ EnvironmentsOK'
  BY <1>1, <1>6 DEF OrgInv, ProjectsOK, EnvironmentsOK
<1>12. ASSUME NEW u \in User PROVE FirstsBounded(u)' /\ FirstAlone(u)'
  <2>1. Pending(u)' = Pending(u) /\ AtFirst(u)' = AtFirst(u)
    BY <1>1, <1>7, <1>8 DEF Pending, AtFirst
  <2> QED
    BY <1>1, <1>6, <2>1 DEF OrgInv, FirstsBounded, FirstAlone
<1> QED
  BY <1>9, <1>10, <1>11, <1>12 DEF OrgInv

LEMMA EnsureCommitInv ==
  ASSUME OrgInv, NEW r \in Ensurer, EnsureCommit(r)
  PROVE  OrgInv'
<1>1. OrgTypeOK /\ ensuring[r].at = "commit" /\ UNCHANGED <<projects, environments, met>>
  BY DEF OrgInv, EnsureCommit
<1>2. PICK o : o = ensuring[r].org
  OBVIOUS
<1>3. PICK w \in User : w = ensuring[r].user
  BY <1>1 DEF OrgInv, RequestOK
<1>4. ensuring[r] \in Request /\ o \in DOMAIN membership /\ membership[o].user = w
  BY <1>1, <1>2, <1>3 DEF OrgInv, RequestOK, OrgTypeOK, Request
<1>5. /\ membership' \in Seq(Membership) /\ DOMAIN membership' = DOMAIN membership
      /\ membership'[o] = [user |-> w, committed |-> TRUE]
      /\ \A p \in DOMAIN membership : p # o => membership'[p] = membership[p]
  <2>1. membership[o] \in Membership /\ membership' = [membership EXCEPT ![o].committed = TRUE]
    BY <1>1, <1>2, <1>4 DEF OrgTypeOK, EnsureCommit
  <2>2. [membership[o] EXCEPT !.committed = TRUE] = [user |-> w, committed |-> TRUE]
    <3> DEFINE row == [membership[o] EXCEPT !.committed = TRUE]
    <3>1. row \in Membership /\ row.user = w /\ row.committed = TRUE
      BY <1>4, <2>1 DEF Membership
    <3> HIDE DEF row
    <3>2. PICK x \in User, b \in BOOLEAN : row = [user |-> x, committed |-> b]
      BY <3>1 DEF Membership
    <3> QED
      BY <3>1, <3>2 DEF row
  <2>3. [user |-> w, committed |-> TRUE] \in Membership
    BY DEF Membership
  <2>4. membership' = [membership EXCEPT ![o] = [user |-> w, committed |-> TRUE]]
    BY <2>1, <2>2
  <2> QED
    BY <1>1, <1>4, <2>3, <2>4 DEF OrgTypeOK
<1>6. MembershipsOf(w)' = MembershipsOf(w) \cup {o}
  BY <1>4, <1>5 DEF MembershipsOf
<1>7. \A u : u # w => MembershipsOf(u)' = MembershipsOf(u)
  BY <1>4, <1>5 DEF MembershipsOf
<1>8. PICK h \in Request :
        /\ h.at = "adopt" /\ h.org = o /\ h.user = w
        /\ ensuring' = [ensuring EXCEPT ![r] = h]
  BY <1>2, <1>3, <1>4 DEF EnsureCommit, Request, Stage
<1>9. ensuring'[r] = h /\ \A q \in Ensurer : q # r => ensuring'[q] = ensuring[q]
  BY <1>1, <1>8 DEF OrgTypeOK
<1>10. OrgTypeOK'
  BY <1>1, <1>5, <1>8 DEF OrgTypeOK, Request
<1>11. ASSUME NEW q \in Ensurer PROVE RequestOK(q)'
  <2>1. CASE q = r
    BY <1>6, <1>8, <1>9, <2>1 DEF RequestOK
  <2>2. CASE q # r
    <3>1. \A p \in DOMAIN membership : membership'[p].user = membership[p].user
      BY <1>4, <1>5
    <3> QED
      BY <1>5, <1>6, <1>7, <1>9, <2>2, <3>1 DEF OrgInv, RequestOK
  <2> QED
    BY <2>1, <2>2
<1>12. ProjectsOK' /\ EnvironmentsOK'
  BY <1>1, <1>6, <1>7 DEF OrgInv, ProjectsOK, EnvironmentsOK
<1>13. ASSUME NEW u \in User PROVE FirstsBounded(u)' /\ FirstAlone(u)'
  <2>1. CASE u # w
    <3>1. Pending(u)' = Pending(u) /\ AtFirst(u)' = AtFirst(u)
      BY <1>3, <1>8, <1>9, <2>1 DEF Pending, AtFirst
    <3> QED
      BY <1>1, <1>7, <2>1, <3>1 DEF OrgInv, FirstsBounded, FirstAlone
  <2>2. CASE u = w
    <3>1. Pending(u)' = Pending(u) \ {r} /\ r \in Pending(u) /\ AtFirst(u)' = AtFirst(u)
      BY <1>1, <1>3, <1>8, <1>9, <2>2 DEF Pending, AtFirst
    <3>2. FirstsBounded(u)'
      BY <1>1, <1>6, <2>2, <3>1, BoundCommitted DEF OrgInv
    <3>3. Pending(u) \subseteq AtFirst(u)
      BY DEF Pending, AtFirst
    <3>4. FirstAlone(u)'
      BY <1>1, <1>6, <2>2, <3>1, <3>3 DEF OrgInv, FirstAlone
    <3> QED
      BY <3>2, <3>4
  <2> QED
    BY <2>1, <2>2
<1> QED
  BY <1>10, <1>11, <1>12, <1>13 DEF OrgInv

LEMMA EnsureAdoptInv ==
  ASSUME OrgInv, NEW r \in Ensurer, EnsureAdopt(r)
  PROVE  OrgInv'
<1>1. OrgTypeOK /\ UNCHANGED <<membership, environments, met>> /\ ensuring[r].at = "adopt"
  BY DEF OrgInv, EnsureAdopt
<1>2. PICK o \in Nat : o = ensuring[r].org
  BY <1>1, MembershipsInOrder DEF OrgInv, RequestOK
<1>3. PICK w \in User : w = ensuring[r].user
  BY <1>1 DEF OrgInv, RequestOK
<1>4. o \in MembershipsOf(w)
  BY <1>1, <1>2, <1>3 DEF OrgInv, RequestOK
<1>5. PICK h \in Request :
        /\ h.at = "acting" /\ h.org = o /\ h.user = w
        /\ ensuring' = [ensuring EXCEPT ![r] = h]
  <2> DEFINE h == [ensuring[r] EXCEPT !.at = "acting"]
  <2>1. h \in Request /\ h.at = "acting" /\ h.org = o /\ h.user = w
    BY <1>1, <1>2, <1>3 DEF Request, Stage, OrgTypeOK
  <2>2. ensuring' = [ensuring EXCEPT ![r] = h]
    BY <1>1 DEF EnsureAdopt, OrgTypeOK
  <2> QED
    BY <2>1, <2>2
<1>6. RequestsOK'
  BY <1>1, <1>4, <1>5, RequestPasses
<1>7. ASSUME NEW p \in Project
      PROVE  /\ projects'[p] \in ProjectRow /\ projects'[p].owner = projects[p].owner
             /\ projects'[p].org # projects[p].org => projects'[p].org = o /\ projects[p].owner = w
  <2>1. CASE projects[p] = [owner |-> w, org |-> NoOrg]
    BY <1>1, <1>2, <1>3, <2>1 DEF EnsureAdopt, ProjectRow
  <2>2. CASE projects[p] # [owner |-> w, org |-> NoOrg]
    BY <1>1, <1>2, <1>3, <2>2 DEF EnsureAdopt, OrgTypeOK
  <2> QED
    BY <2>1, <2>2
<1>8. OrgTypeOK'
  <2>1. DOMAIN projects' = Project /\ projects' = [p \in Project |-> projects'[p]]
    BY DEF EnsureAdopt
  <2>2. projects' \in [Project -> ProjectRow]
    BY <1>7, <2>1
  <2> QED
    BY <1>1, <1>5, <2>2 DEF OrgTypeOK, Request
<1>9. ProjectsOK'
  BY <1>1, <1>4, <1>7, MembershipsSame DEF OrgInv, ProjectsOK
<1>10. EnvironmentsOK'
  BY <1>1, <1>7 DEF OrgInv, OrgTypeOK, EnvironmentsOK
<1> QED
  BY <1>6, <1>8, <1>9, <1>10 DEF OrgInv, RequestsOK

LEMMA ImportProjectInv ==
  ASSUME OrgInv, NEW r \in Ensurer, NEW p \in Project, ImportProject(r, p)
  PROVE  OrgInv'
<1>1. /\ OrgTypeOK /\ UNCHANGED <<membership, environments, met>>
      /\ ensuring[r].at = "acting" /\ EndsRequest(r) /\ projects[p] = NoProject
  BY DEF OrgInv, ImportProject
<1>2. PICK o \in Nat : o = ensuring[r].org
  BY <1>1, MembershipsInOrder DEF OrgInv, RequestOK
<1>3. PICK w \in User : w = ensuring[r].user
  BY <1>1 DEF OrgInv, RequestOK
<1>4. o \in MembershipsOf(w)
  BY <1>1, <1>2, <1>3 DEF OrgInv, RequestOK
<1>5. projects' = [projects EXCEPT ![p] = [owner |-> w, org |-> o]]
  BY <1>2, <1>3 DEF ImportProject
<1>6. /\ projects' \in [Project -> ProjectRow] /\ projects'[p].owner = w /\ projects'[p].org = o
      /\ \A q \in Project : q # p => projects'[q] = projects[q]
  BY <1>1, <1>5 DEF OrgTypeOK, ProjectRow
<1>7. RequestsOK' /\ ensuring' \in [Ensurer -> Request]
  BY <1>1, EndsRequestOK
<1>8. OrgTypeOK'
  BY <1>1, <1>6, <1>7 DEF OrgTypeOK, Request
<1>9. ProjectsOK'
  BY <1>1, <1>4, <1>6, MembershipsSame DEF OrgInv, ProjectsOK
<1>10. \A e \in Environment : \A row \in environments[e] :
         row.project \in Project /\ row.project # p
  BY <1>1, NobodyAssumption DEF OrgInv, OrgTypeOK, EnvironmentsOK, NoProject
<1>11. EnvironmentsOK'
  BY <1>1, <1>6, <1>10 DEF OrgInv, EnvironmentsOK
<1> QED
  BY <1>7, <1>8, <1>9, <1>11 DEF OrgInv, RequestsOK

\* What a user reaches of an organization of theirs is their own.
LEMMA AccessIsOwn ==
  ASSUME OrgTypeOK, ProjectsOK, NEW u, NEW o \in MembershipsOf(u), NEW p \in Accessible(u, o)
  PROVE  projects[p].owner = u
<1>1. p \in Project /\ (projects[p].owner = u \/ projects[p].org = o)
  BY DEF Accessible
<1>2. ASSUME projects[p].org = o PROVE projects[p].owner = u
  <2>1. o # NoOrg
    BY MembershipsInOrder, NobodyAssumption
  <2>2. o \in MembershipsOf(projects[p].owner)
    BY <1>1, <1>2, <2>1 DEF ProjectsOK
  <2>3. membership[o].user = u /\ membership[o].user = projects[p].owner
    BY <2>2 DEF MembershipsOf
  <2> QED
    BY <2>3
<1> QED
  BY <1>1, <1>2

LEMMA EnvironmentCreateInv ==
  ASSUME OrgInv, NEW r \in Ensurer, NEW e \in Environment, NEW p \in Project,
         EnvironmentCreate(r, e, p)
  PROVE  OrgInv'
<1>1. /\ OrgTypeOK /\ ProjectsOK /\ UNCHANGED <<membership, projects, met>>
      /\ ensuring[r].at = "acting" /\ EndsRequest(r) /\ p \in Reached(r)
  BY DEF OrgInv, EnvironmentCreate
<1>2. PICK w \in User : w = ensuring[r].user
  BY <1>1 DEF OrgInv, RequestOK
<1>3. projects[p].owner = w
  BY <1>1, <1>2, AccessIsOwn DEF OrgInv, RequestOK, Reached
<1>4. environments' = [environments EXCEPT ![e] = {[project |-> p, by |-> w]}]
  BY <1>2 DEF EnvironmentCreate
<1>5. RequestsOK' /\ ensuring' \in [Ensurer -> Request]
  BY <1>1, EndsRequestOK
<1>6. OrgTypeOK'
  BY <1>1, <1>4, <1>5 DEF OrgTypeOK, Request
<1>7. ProjectsOK' /\ EnvironmentsOK'
  BY <1>1, <1>3, <1>4, MembershipsSame DEF OrgInv, OrgTypeOK, ProjectsOK, EnvironmentsOK
<1> QED
  BY <1>5, <1>6, <1>7 DEF OrgInv, RequestsOK

LEMMA OrganizationsNextInv == OrgInv /\ [OrganizationsNext]_orgVars => OrgInv'
<1> SUFFICES ASSUME OrgInv, [OrganizationsNext]_orgVars PROVE OrgInv'
  OBVIOUS
<1>1. CASE UNCHANGED orgVars
  <2>1. OrgTypeOK' /\ ProjectsOK' /\ EnvironmentsOK'
    BY <1>1, MembershipsSame DEF OrgInv, OrgTypeOK, ProjectsOK, EnvironmentsOK, orgVars
  <2>2. ASSUME NEW r \in Ensurer PROVE RequestOK(r)'
    BY <1>1, MembershipsSame DEF OrgInv, RequestOK, orgVars
  <2>3. ASSUME NEW u \in User PROVE FirstsBounded(u)' /\ FirstAlone(u)'
    <3>1. Pending(u)' = Pending(u) /\ AtFirst(u)' = AtFirst(u)
      BY <1>1 DEF Pending, AtFirst, orgVars
    <3> QED
      BY <1>1, <3>1, MembershipsSame DEF OrgInv, FirstsBounded, FirstAlone, orgVars
  <2> QED
    BY <2>1, <2>2, <2>3 DEF OrgInv
<1>2. ASSUME NEW r \in Ensurer, EnsureEnd(r) PROVE OrgInv'
  <2>1. RequestsOK' /\ ensuring' \in [Ensurer -> Request]
    BY <1>2, EndsRequestOK DEF EnsureEnd
  <2>2. OrgTypeOK' /\ ProjectsOK' /\ EnvironmentsOK'
    BY <1>2, <2>1, MembershipsSame
    DEF EnsureEnd, OrgInv, OrgTypeOK, ProjectsOK, EnvironmentsOK, Request
  <2> QED
    BY <2>1, <2>2 DEF OrgInv, RequestsOK
<1>3. ASSUME NEW r \in Ensurer, NEW e \in Environment, EnvironmentDelete(r, e) PROVE OrgInv'
  <2>1. RequestsOK' /\ ensuring' \in [Ensurer -> Request]
    BY <1>3, EndsRequestOK DEF EnvironmentDelete
  <2>2. OrgTypeOK' /\ ProjectsOK' /\ EnvironmentsOK'
    BY <1>3, <2>1, MembershipsSame
    DEF EnvironmentDelete, OrgInv, OrgTypeOK, ProjectsOK, EnvironmentsOK, Request
  <2> QED
    BY <2>1, <2>2 DEF OrgInv, RequestsOK
<1> QED
  BY <1>1, <1>2, <1>3, EnsureFindInv, EnsureCreateInv, EnsureCommitInv, EnsureAdoptInv,
     ImportProjectInv, EnvironmentCreateInv
  DEF OrganizationsNext

LEMMA OrganizationsInitInv == OrganizationsInit => OrgInv
<1> SUFFICES ASSUME OrganizationsInit PROVE OrgInv
  OBVIOUS
<1>1. OrgTypeOK
  BY DEF OrganizationsInit, OrgTypeOK, ProjectRow, FreeEnsurer, Stage
<1>2. ProjectsOK /\ EnvironmentsOK /\ \A r \in Ensurer : RequestOK(r)
  BY DEF OrganizationsInit, ProjectsOK, EnvironmentsOK, RequestOK, FreeEnsurer, NoProject
<1>3. ASSUME NEW u \in User PROVE FirstsBounded(u) /\ FirstAlone(u)
  <2>1. MembershipsOf(u) = {} /\ Pending(u) = {} /\ AtFirst(u) = {}
    BY DEF OrganizationsInit, MembershipsOf, Pending, AtFirst, FreeEnsurer
  <2>2. Cardinality(Ensurer) \in Nat
    BY EnsurerAssumption, FS_CardinalityType
  <2> QED
    BY <2>1, <2>2, FS_EmptySet DEF FirstsBounded, FirstAlone
<1> QED
  BY <1>1, <1>2, <1>3 DEF OrgInv

LEMMA OrgInvHolds == OrganizationsSpec => []OrgInv
  BY OrganizationsInitInv, OrganizationsNextInv, PTL DEF OrganizationsSpec

-----------------------------------------------------------------------------
(* The theorems. *)

\* A user reaches no project of another user and has written nothing under one, and every
\* way to read tells a user the same (organizations.service.ts ensureForUser and the
\* services' access checks).
THEOREM IsolationHolds == OrganizationsSpec => []Isolation
<1>1. ASSUME OrgInv, NEW u \in User
      PROVE  /\ \A org \in {NoOrg, Home(u)} \ {NoOrg} :
                  \A p \in Accessible(u, org) : projects[p].owner = u
             /\ \A e \in Environment : \A row \in environments[e] :
                  row.by = u => projects[row.project].owner = u
  <2>1. Home(u) # NoOrg => Home(u) \in MembershipsOf(u)
    BY <1>1, HomeIsOne DEF OrgInv
  <2> QED
    BY <1>1, <2>1, AccessIsOwn DEF OrgInv, EnvironmentsOK
<1>2. ASSUME NEW u
      PROVE  findProjects(u) = loadGraph(u).projects /\ findDeployments(u, {}) = loadGraph(u).rows
  BY DEF findProjects, loadGraph, reachable, Accessible, findDeployments, findApplications
<1>3. ASSUME EnvironmentsOK, NEW u, NEW p \in Project
      PROVE  /\ findApplication(u, p) # {} <=> p \in findApplications(u)
             /\ assertApplicationAccess(u, p) <=> p \in findProjects(u)
             /\ findEvents(u, p) = findDeployments(u, {p})
             /\ search(u, {p}).rows = findEvents(u, p)
  <2>1. /\ findApplication(u, p) # {} <=> p \in findApplications(u)
        /\ assertApplicationAccess(u, p) <=> p \in findProjects(u)
    BY DEF findApplication, findApplications, assertApplicationAccess, findProjects, reachable, Accessible
  <2>2. findEvents(u, p) = findDeployments(u, {p})
    BY DEF findEvents, findApplication, findDeployments, findApplications, RowsOf
  <2>3. search(u, {p}).rows = findEvents(u, p)
    BY <1>3 DEF search, loadGraph, findEvents, findApplication, RowsOf, EnvironmentsOK
  <2> QED
    BY <2>1, <2>2, <2>3
<1>4. ASSUME NEW u, NEW e \in Environment
      PROVE  findDeployment(u, e) \subseteq findDeployments(u, {})
  BY DEF findDeployment, findDeployments, findApplications
<1>5. OrgInv => Isolation
  BY <1>1, <1>2, <1>3, <1>4 DEF OrgInv, Isolation
<1> QED
  BY <1>5, OrgInvHolds, PTL

\* A user whose first requests did not meet has one organization, which their projects
\* are in; first requests that met left no more than run at once (ensureForUser).
THEOREM OneHomeHolds == OrganizationsSpec => []OneHome
<1>1. ASSUME OrgInv, NEW u \in User
      PROVE  Cardinality(MembershipsOf(u)) <= IF u \in met THEN Cardinality(Ensurer) ELSE 1
  <2>1. /\ Cardinality(MembershipsOf(u)) \in Nat /\ Cardinality(Pending(u)) \in Nat
        /\ Cardinality(Ensurer) \in Nat
    BY <1>1, MembershipsInOrder, PendingFinite DEF OrgInv
  <2>2. CASE u \in met
    BY <1>1, <2>1, <2>2 DEF OrgInv, FirstsBounded
  <2>3. CASE u \notin met
    <3>1. MembershipsOf(u) = {} \/ \E o : MembershipsOf(u) = {o}
      BY <1>1, <2>3 DEF OrgInv, FirstAlone
    <3>2. Cardinality(MembershipsOf(u)) \in {0, 1}
      BY <3>1, FS_EmptySet, FS_Singleton
    <3> QED
      BY <2>3, <3>2
  <2> QED
    BY <2>2, <2>3
<1>2. OrgInv => OneHome
  BY <1>1 DEF OrgInv, ProjectsOK, OneHome
<1> QED
  BY <1>2, OrgInvHolds, PTL
=============================================================================
