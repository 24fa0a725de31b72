------------------------------ MODULE Accounts ------------------------------
(***************************************************************************)
(* Accounts and sessions: registration behind the allowlist, password and  *)
(* OAuth sign-in, linking, rotation and revocation of refresh tokens, and  *)
(* the deletion of an account.  Modelled from auth/service.py,             *)
(* auth/security.py, auth/oauth_providers.py, services/oauth_service.py,   *)
(* services/account_deletion_service.py and the routes that call them.     *)
(*                                                                         *)
(* One action is one transaction, or the reads of a request that a later   *)
(* transaction of it relies on.  Reads that are refused change nothing and *)
(* have no action.  A token, a state value and a password are modelled by  *)
(* the row they are the secret of: presenting a secret is choosing a row.  *)
(* Time only makes the code refuse more: an expired token, flow or pending *)
(* link is one that is not presented any more.  No code clears is_active,  *)
(* so every account is active.                                             *)
(***************************************************************************)
EXTENDS Integers, FiniteSets

CONSTANTS
    Emails,         \* normalised addresses
    Providers,      \* _KNOWN_PROVIDERS with credentials configured
    Subjects,       \* account ids at a provider
    Requests,       \* concurrent API requests
    Development,    \* APP_ENV = development
    None,           \* SQL NULL
    MaxUsers,       \* bound: accounts ever created
    MaxTokens,      \* bound: refresh tokens ever issued
    MaxFlows,       \* bound: OAuth flows ever started
    MaxIdentities   \* bound: identities ever linked

ASSUME BoundsAssumption ==
    /\ MaxUsers \in Nat \ {0}
    /\ MaxTokens \in Nat \ {0}
    /\ MaxFlows \in Nat
    /\ MaxIdentities \in Nat
ASSUME DevelopmentAssumption == Development \in BOOLEAN

UserIds == 1..MaxUsers
TokenIds == 1..MaxTokens
FlowIds == 1..MaxFlows
IdentityIds == 1..MaxIdentities

\* NULL is no value of a nullable column.
ASSUME NullAssumption ==
    None \notin Emails \cup Providers \cup Subjects \cup UserIds \cup TokenIds

VARIABLES
    users,        \* users, without the seed row
    approved,     \* approved_emails
    tokens,       \* refresh_tokens
    flows,        \* oauth_flow_states
    pendings,     \* oauth_pending_links
    identities,   \* oauth_identities
    req           \* each request's local state

vars == <<users, approved, tokens, flows, pendings, identities, req>>

oauth == <<flows, pendings, identities>>

-----------------------------------------------------------------------------
(* Rows and local states.  Ids are never used twice; of a deleted row only *)
(* that it is "gone" is left.                                              *)

Gone(empty) == [empty EXCEPT !.row = "gone"]

NoUser == [row |-> "free", email |-> None, password |-> FALSE]

User == {NoUser, Gone(NoUser)} \cup [row : {"live"}, email : Emails, password : BOOLEAN]

NoToken == [row |-> "free", user |-> None, family |-> None,
            used |-> FALSE, revoked |-> FALSE]

\* A family is named by its first token.
Token == {NoToken, Gone(NoToken)} \cup
         [row : {"live"}, user : UserIds, family : TokenIds, used : BOOLEAN, revoked : BOOLEAN]

NoFlow == [row |-> "free", intent |-> "login", user |-> None]

\* A flow with intent "link" has the user that started it, one with "login" none.
Flow == {NoFlow, Gone(NoFlow)} \cup
        [row : {"live"}, intent : {"login", "link"}, user : UserIds \cup {None}]

\* A pending link has no key of its own that anything else refers to.
Pending == [provider : Providers, subject : Subjects, email : Emails]

NoIdentity == [row |-> "free", user |-> None, provider |-> None, subject |-> None]

Identity == {NoIdentity, Gone(NoIdentity)} \cup
            [row : {"live"}, user : UserIds, provider : Providers, subject : Subjects]

Stages == {"idle", "insert", "session", "identify",
           "claim", "revoke", "revoking", "expunge",
           "consume", "exchange", "link", "login", "confirm", "unlink"}

\* email, password and boot describe the account a registration creates; boot
\* is TRUE when no ApprovedEmail row was found and one is added with it.
\* provider and subject are the external identity.
RequestState ==
    [pc : Stages, user : UserIds \cup {None}, email : Emails \cup {None},
     password : BOOLEAN, boot : BOOLEAN, token : TokenIds \cup {None},
     family : SUBSET TokenIds, flow : FlowIds \cup {None},
     provider : Providers \cup {None}, subject : Subjects \cup {None},
     identity : IdentityIds \cup {None}]

Idle == [pc |-> "idle", user |-> None, email |-> None, password |-> FALSE,
         boot |-> FALSE, token |-> None, family |-> {}, flow |-> None,
         provider |-> None, subject |-> None, identity |-> None]

Init ==
    /\ users = [u \in UserIds |-> NoUser]
    /\ approved = {}
    /\ tokens = [t \in TokenIds |-> NoToken]
    /\ flows = [f \in FlowIds |-> NoFlow]
    /\ pendings = {}
    /\ identities = [i \in IdentityIds |-> NoIdentity]
    /\ req = [c \in Requests |-> Idle]

-----------------------------------------------------------------------------
(* Helpers                                                                 *)

LiveUsers == {u \in UserIds : users[u].row = "live"}
LiveTokens == {t \in TokenIds : tokens[t].row = "live"}
LiveIdentities == {i \in IdentityIds : identities[i].row = "live"}

UserOf(e) == {u \in LiveUsers : users[u].email = e}

Members(f) == {t \in LiveTokens : tokens[t].family = f}

Linked(p, s) == {i \in LiveIdentities : identities[i].provider = p
                                        /\ identities[i].subject = s}

Goto(c, state) == req' = [req EXCEPT ![c] = state]

End(c) == Goto(c, Idle)

At(c, pc) == req[c].pc = pc

\* Rows are numbered in the order of their creation.
NextId(table, ids) == {i \in ids : table[i].row = "free"
                                   /\ \A j \in ids : j < i => table[j].row # "free"}

\* _issue_refresh: the family of a first token is its own.
Issued(t, u, family) ==
    [row |-> "live", user |-> u, family |-> IF family = None THEN t ELSE family,
     used |-> FALSE, revoked |-> FALSE]

\* The constraints are left to a lookup before the insert.
LinkableUnchecked(u, p, s) == u \in LiveUsers

\* Both unique constraints of oauth_identities, and its foreign key.
Linkable(u, p, s) ==
    /\ u \in LiveUsers
    /\ Linked(p, s) = {}
    /\ \A i \in LiveIdentities : ~(identities[i].provider = p /\ identities[i].user = u)

Link(u, p, s) ==
    \E i \in NextId(identities, IdentityIds) :
        identities' = [identities EXCEPT ![i] =
            [row |-> "live", user |-> u, provider |-> p, subject |-> s]]

-----------------------------------------------------------------------------
(* Registration                                                            *)

\* _ensure_email_available and _require_approval: what a registration is
\* told about its address.  The bootstrap counts the real users.
Approval(e) ==
    IF e \in approved THEN "found"
    ELSE IF Development \/ LiveUsers = {} THEN "added"
    ELSE "refused"

Admissible(e) == UserOf(e) = {} /\ Approval(e) # "refused"

Register(c, e) ==
    /\ At(c, "idle")
    /\ Admissible(e)
    /\ Goto(c, [Idle EXCEPT !.pc = "insert", !.email = e, !.password = TRUE,
                            !.boot = (Approval(e) = "added")])
    /\ UNCHANGED <<users, approved, tokens, oauth>>

\* _create_approved_user: users.email and approved_emails.email are unique.
InsertAdmitted(c) ==
    /\ UserOf(req[c].email) = {}
    /\ req[c].boot => req[c].email \notin approved

Insert(c) ==
    /\ At(c, "insert")
    /\ InsertAdmitted(c)
    /\ \E u \in NextId(users, UserIds) :
        /\ users' = [users EXCEPT ![u] =
               [row |-> "live", email |-> req[c].email,
                password |-> req[c].password]]
        /\ Goto(c, [Idle EXCEPT !.pc = "session", !.user = u,
               !.provider = req[c].provider, !.subject = req[c].subject])
    /\ approved' = approved \cup {req[c].email}
    /\ UNCHANGED <<tokens, oauth>>

InsertRefused(c) ==
    /\ At(c, "insert")
    /\ ~InsertAdmitted(c)
    /\ End(c)
    /\ UNCHANGED <<users, approved, tokens, oauth>>

\* scripts/approve_email.py
ApproveEmail(e) ==
    /\ e \notin approved
    /\ approved' = approved \cup {e}
    /\ UNCHANGED <<users, tokens, oauth, req>>

-----------------------------------------------------------------------------
(* Sessions                                                                *)

\* The password was verified; open_session is a transaction of its own.
Login(c, u) ==
    /\ At(c, "idle")
    /\ u \in LiveUsers
    /\ users[u].password
    /\ Goto(c, [Idle EXCEPT !.pc = "session", !.user = u])
    /\ UNCHANGED <<users, approved, tokens, oauth>>

\* open_session.  A registration through OAuth records its identity next.
OpenSession(c) ==
    /\ At(c, "session")
    /\ req[c].user \in LiveUsers
    /\ \E t \in NextId(tokens, TokenIds) :
        tokens' = [tokens EXCEPT ![t] = Issued(t, req[c].user, None)]
    /\ IF req[c].provider = None THEN End(c)
       ELSE Goto(c, [req[c] EXCEPT !.pc = "identify"])
    /\ UNCHANGED <<users, approved, oauth>>

\* The account was deleted meanwhile: the foreign key refuses the token.
SessionRefused(c) ==
    /\ At(c, "session")
    /\ req[c].user \notin LiveUsers
    /\ End(c)
    /\ UNCHANGED <<users, approved, tokens, oauth>>

\* As Refresh, without the look at revoked_at.
RefreshIgnoresRevoked(c, t) ==
    /\ At(c, "idle")
    /\ t \in LiveTokens
    /\ Goto(c, [Idle EXCEPT !.pc = "claim", !.token = t])
    /\ UNCHANGED <<users, approved, tokens, oauth>>

\* The reads of refresh up to the claim.
Refresh(c, t) ==
    /\ At(c, "idle")
    /\ t \in LiveTokens
    /\ ~tokens[t].revoked
    /\ Goto(c, [Idle EXCEPT !.token = t,
           !.pc = IF tokens[t].used THEN "revoke" ELSE "claim"])
    /\ UNCHANGED <<users, approved, tokens, oauth>>

\* UPDATE without the condition.
ClaimableTwice(t) == t \in LiveTokens

\* _claim_token: UPDATE ... WHERE used_at IS NULL, on one row.
Claimable(t) == t \in LiveTokens /\ ~tokens[t].used

\* The claim, the successor and the commit: the row is locked in between.
Claim(c) ==
    LET t == req[c].token IN
    /\ At(c, "claim")
    /\ Claimable(t)
    /\ \E n \in NextId(tokens, TokenIds) :
        tokens' = [tokens EXCEPT ![t].used = TRUE,
                                 ![n] = Issued(n, tokens[t].user, tokens[t].family)]
    /\ End(c)
    /\ UNCHANGED <<users, approved, oauth>>

ClaimLost(c) ==
    /\ At(c, "claim")
    /\ ~Claimable(req[c].token)
    /\ Goto(c, [req[c] EXCEPT !.pc = "revoke"])
    /\ UNCHANGED <<users, approved, tokens, oauth>>

Logout(c, t) ==
    /\ At(c, "idle")
    /\ t \in LiveTokens
    /\ Goto(c, [Idle EXCEPT !.pc = "revoke", !.token = t])
    /\ UNCHANGED <<users, approved, tokens, oauth>>

\* _revoke_family reads the rows of the family ...
RevokeRead(c) ==
    /\ At(c, "revoke")
    /\ Goto(c, [req[c] EXCEPT !.pc = "revoking",
                              !.family = Members(tokens[req[c].token].family)])
    /\ UNCHANGED <<users, approved, tokens, oauth>>

\* ... and writes those it read; an update of a vanished row is refused.
RevokeWrite(c) ==
    /\ At(c, "revoking")
    /\ tokens' = IF req[c].family \subseteq LiveTokens
                 THEN [t \in TokenIds |-> [tokens[t] EXCEPT
                           !.revoked = @ \/ t \in req[c].family]]
                 ELSE tokens
    /\ End(c)
    /\ UNCHANGED <<users, approved, oauth>>

\* DELETE /auth/me: authenticated by an access token and the password.
DeleteAccount(c, u) ==
    /\ At(c, "idle")
    /\ u \in LiveUsers
    /\ users[u].password
    /\ Goto(c, [Idle EXCEPT !.pc = "expunge", !.user = u])
    /\ UNCHANGED <<users, approved, tokens, oauth>>

\* Foreign keys are not enforced.
CascadeNothing(table, ids, u, empty) == table

\* The row of users and, by ON DELETE CASCADE, every row that refers to it.
Cascade(table, ids, u, empty) ==
    [i \in ids |-> IF table[i].row = "live" /\ table[i].user = u THEN Gone(empty)
                   ELSE table[i]]

Expunge(c) ==
    LET u == req[c].user IN
    /\ At(c, "expunge")
    /\ users' = [users EXCEPT ![u] = Gone(NoUser)]
    /\ tokens' = Cascade(tokens, TokenIds, u, NoToken)
    /\ flows' = Cascade(flows, FlowIds, u, NoFlow)
    /\ identities' = Cascade(identities, IdentityIds, u, NoIdentity)
    /\ End(c)
    /\ UNCHANGED <<approved, pendings>>

-----------------------------------------------------------------------------
(* OAuth: flows                                                            *)

\* /auth/oauth/{provider}/start and, for a signed-in user, /link.
StartFlow(intent, u) ==
    /\ IF intent = "link" THEN u \in LiveUsers ELSE u = None
    /\ \E f \in NextId(flows, FlowIds) :
        flows' = [flows EXCEPT ![f] = [row |-> "live", intent |-> intent, user |-> u]]
    /\ UNCHANGED <<users, approved, tokens, pendings, identities, req>>

\* complete_callback reads the flow.  The provider is that of the URL.
Callback(c, f, p) ==
    /\ At(c, "idle")
    /\ flows[f].row = "live"
    /\ Goto(c, [Idle EXCEPT !.pc = "consume", !.flow = f, !.provider = p,
                            !.user = flows[f].user])
    /\ UNCHANGED <<users, approved, tokens, oauth>>

\* The row is deleted and the deletion committed, before anything else.
Consume(c) ==
    /\ At(c, "consume")
    /\ flows' = [flows EXCEPT ![req[c].flow] = Gone(NoFlow)]
    /\ Goto(c, [req[c] EXCEPT !.pc = "exchange", !.flow = None])
    /\ UNCHANGED <<users, approved, tokens, pendings, identities>>

\* resolve_identity: the provider's answer, a subject and the address it
\* verified, if any; a flow that links goes by the subject alone.  Denial
\* and failure end the request (Crash).
Exchange(c, s, e) ==
    /\ At(c, "exchange")
    /\ IF req[c].user = None
       THEN Goto(c, [req[c] EXCEPT !.pc = "login", !.subject = s, !.email = e])
       ELSE Goto(c, [req[c] EXCEPT !.pc = "link", !.subject = s])
    /\ UNCHANGED <<users, approved, tokens, oauth>>

-----------------------------------------------------------------------------
(* OAuth: outcomes                                                         *)

\* _complete_link
CompleteLink(c) ==
    LET r == req[c] IN
    /\ At(c, "link")
    /\ IF Linkable(r.user, r.provider, r.subject)
       THEN Link(r.user, r.provider, r.subject)
       ELSE UNCHANGED identities
    /\ End(c)
    /\ UNCHANGED <<users, approved, tokens, flows, pendings>>

\* _complete_login, an identity that is linked.  The session that follows is
\* a plain one: no identity has to be recorded after it.
LoginKnown(c) ==
    \E i \in Linked(req[c].provider, req[c].subject) :
        /\ At(c, "login")
        /\ Goto(c, [Idle EXCEPT !.pc = "session", !.user = identities[i].user])
        /\ UNCHANGED <<users, approved, tokens, oauth>>

\* An unknown identity whose verified address has an account.
LoginPending(c) ==
    LET r == req[c] IN
    /\ At(c, "login")
    /\ Linked(r.provider, r.subject) = {}
    /\ r.email # None
    /\ UserOf(r.email) # {}
    /\ pendings' = pendings \cup {[provider |-> r.provider, subject |-> r.subject,
                                   email |-> r.email]}
    /\ End(c)
    /\ UNCHANGED <<users, approved, tokens, flows, identities>>

\* register_oauth_user: the same gate, no password.
LoginRegister(c) ==
    LET r == req[c] IN
    /\ At(c, "login")
    /\ Linked(r.provider, r.subject) = {}
    /\ r.email # None
    /\ Admissible(r.email)
    /\ Goto(c, [r EXCEPT !.pc = "insert", !.boot = (Approval(r.email) = "added"),
                         !.user = None])
    /\ UNCHANGED <<users, approved, tokens, oauth>>

LoginRefused(c) ==
    LET r == req[c] IN
    /\ At(c, "login")
    /\ Linked(r.provider, r.subject) = {}
    /\ r.email = None \/ (UserOf(r.email) = {} /\ Approval(r.email) = "refused")
    /\ End(c)
    /\ UNCHANGED <<users, approved, tokens, oauth>>

\* The identity that created the account, in a transaction of its own; a
\* violated constraint is not handled and ends the request.
Identify(c) ==
    LET r == req[c] IN
    /\ At(c, "identify")
    /\ IF Linkable(r.user, r.provider, r.subject)
       THEN Link(r.user, r.provider, r.subject)
       ELSE UNCHANGED identities
    /\ End(c)
    /\ UNCHANGED <<users, approved, tokens, flows, pendings>>

\* confirm_pending_link, up to the verified password.
Confirm(c, x) ==
    \E u \in UserOf(x.email) :
        /\ At(c, "idle")
        /\ users[u].password
        /\ Goto(c, [Idle EXCEPT !.pc = "confirm", !.user = u, !.email = x.email,
                                !.provider = x.provider, !.subject = x.subject])
        /\ UNCHANGED <<users, approved, tokens, oauth>>

ConfirmCommit(c) ==
    LET r == req[c] IN
    /\ At(c, "confirm")
    /\ IF Linkable(r.user, r.provider, r.subject)
       THEN /\ Link(r.user, r.provider, r.subject)
            /\ pendings' = pendings \ {[provider |-> r.provider,
                                        subject |-> r.subject, email |-> r.email]}
            /\ Goto(c, [Idle EXCEPT !.pc = "session", !.user = r.user])
       ELSE /\ UNCHANGED <<identities, pendings>>
            /\ End(c)
    /\ UNCHANGED <<users, approved, tokens, flows>>

\* unlink: the last identity of an account without a password is kept.
Unlink(c, i) ==
    LET u == identities[i].user IN
    /\ At(c, "idle")
    /\ i \in LiveIdentities
    /\ users[u].password \/ \E j \in LiveIdentities \ {i} : identities[j].user = u
    /\ Goto(c, [Idle EXCEPT !.pc = "unlink", !.identity = i])
    /\ UNCHANGED <<users, approved, tokens, oauth>>

UnlinkCommit(c) ==
    /\ At(c, "unlink")
    /\ identities' = [identities EXCEPT ![req[c].identity] = Gone(NoIdentity)]
    /\ End(c)
    /\ UNCHANGED <<users, approved, tokens, flows, pendings>>

-----------------------------------------------------------------------------
\* A request ends between two transactions: its process or connection dies,
\* or an outside call fails.
Crash(c) ==
    /\ ~At(c, "idle")
    /\ End(c)
    /\ UNCHANGED <<users, approved, tokens, oauth>>

SessionStep(c) ==
    \/ \E e \in Emails : Register(c, e)
    \/ Insert(c)
    \/ InsertRefused(c)
    \/ \E u \in UserIds : Login(c, u)
    \/ OpenSession(c)
    \/ SessionRefused(c)
    \/ \E t \in TokenIds : Refresh(c, t)
    \/ Claim(c)
    \/ ClaimLost(c)
    \/ \E t \in TokenIds : Logout(c, t)
    \/ RevokeRead(c)
    \/ RevokeWrite(c)
    \/ \E u \in UserIds : DeleteAccount(c, u)
    \/ Expunge(c)

OAuthStep(c) ==
    \/ \E f \in FlowIds, p \in Providers : Callback(c, f, p)
    \/ Consume(c)
    \/ \E s \in Subjects, e \in Emails \cup {None} : Exchange(c, s, e)
    \/ CompleteLink(c)
    \/ LoginKnown(c)
    \/ LoginPending(c)
    \/ LoginRegister(c)
    \/ LoginRefused(c)
    \/ Identify(c)
    \/ \E x \in pendings : Confirm(c, x)
    \/ ConfirmCommit(c)
    \/ \E i \in IdentityIds : Unlink(c, i)
    \/ UnlinkCommit(c)

Environment ==
    \/ \E e \in Emails : ApproveEmail(e)
    \/ \E u \in UserIds : StartFlow("link", u)
    \/ StartFlow("login", None)

Next ==
    \/ \E c \in Requests : SessionStep(c) \/ OAuthStep(c) \/ Crash(c)
    \/ Environment

Spec == Init /\ [][Next]_vars

-----------------------------------------------------------------------------
(* Properties                                                              *)

\* The columns and the local variables of requests have their types; in
\* particular every refresh token that was issued is in a family, which is
\* what logout and reuse detection revoke (_issue_refresh).
TypeOK ==
    /\ users \in [UserIds -> User]
    /\ approved \subseteq Emails
    /\ tokens \in [TokenIds -> Token]
    /\ flows \in [FlowIds -> Flow]
    /\ pendings \subseteq Pending
    /\ identities \in [IdentityIds -> Identity]
    /\ req \in [Requests -> RequestState]

Open(t) == t \in LiveTokens /\ ~tokens[t].used /\ ~tokens[t].revoked

\* A family has at most one token that would still be honoured, however many
\* requests present the same token at once (service.py, refresh).
OneOpenToken ==
    \A s, t \in TokenIds :
        Open(s) /\ Open(t) /\ tokens[s].family = tokens[t].family => s = t

\* Nothing of family f can be refreshed, and nobody is about to claim it.
Closed(f) ==
    /\ \E t \in Members(f) : tokens[t].revoked
    /\ \A t \in Members(f) : ~Open(t)
    /\ \A c \in Requests : At(c, "claim") => req[c].token \notin Members(f)

\* A family that logout or reuse detection has closed, with no rotation of it
\* in flight, stays closed: no order of refreshes, lost answers and retries
\* opens it again.  Only the deletion of the account takes it away.
ClosedForGood ==
    [][\A f \in TokenIds : Closed(f) => Closed(f)' \/ Members(f)' = {}]_vars

\* Two accounts never share an address, and an external identity leads to
\* one account, an account to one identity of a provider.
OneAccount ==
    /\ \A u, v \in LiveUsers : users[u].email = users[v].email => u = v
    /\ \A i, j \in LiveIdentities :
        /\ identities[i].provider = identities[j].provider
        /\ \/ identities[i].subject = identities[j].subject
           \/ identities[i].user = identities[j].user
        => i = j

\* No row refers to a deleted account: the answer of DELETE /auth/me is true.
DeletedIsGone ==
    /\ \A t \in LiveTokens : tokens[t].user \in LiveUsers
    /\ \A i \in LiveIdentities : identities[i].user \in LiveUsers
    /\ \A f \in FlowIds : flows[f].row = "live" /\ flows[f].user # None
                          => flows[f].user \in LiveUsers

=============================================================================
