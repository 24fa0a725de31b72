--------------------------- MODULE AccountsProofs ---------------------------
(***************************************************************************)
(* Theorems about Accounts, for any number of addresses, providers,        *)
(* subjects, requests and ids.                                             *)
(***************************************************************************)
EXTENDS Accounts, TLAPS

-----------------------------------------------------------------------------
(* The inductive invariant                                                 *)

\* What a request has read by the time it is at a stage.
ReadsOK(r) ==
    /\ r.pc \in {"session", "identify", "expunge", "link", "confirm"} => r.user \in UserIds
    /\ r.pc \in {"insert", "confirm"} => r.email \in Emails
    /\ r.pc \in {"claim", "revoke"} => r.token \in TokenIds
    /\ r.pc = "consume" => r.flow \in FlowIds
    /\ r.pc = "unlink" => r.identity \in IdentityIds
    /\ r.pc \in {"consume", "exchange", "identify", "link", "login", "confirm"}
        => r.provider \in Providers
    /\ r.pc \in {"identify", "link", "login", "confirm"} => r.subject \in Subjects
    /\ r.pc \in {"insert", "session"} => r.provider = None \/ r.subject \in Subjects

RequestsOK == \A c \in Requests : ReadsOK(req[c])

\* A family is named by a token that was issued, so a fresh id names none;
\* its tokens are of one user, and all but one of them are used.
FamilyOK ==
    /\ \A t \in LiveTokens : tokens[tokens[t].family].row # "free"
    /\ \A s, t \in LiveTokens : tokens[s].family = tokens[t].family =>
        /\ tokens[s].user = tokens[t].user
        /\ ~tokens[s].used /\ ~tokens[t].used => s = t

AccountInv ==
    /\ TypeOK
    /\ RequestsOK
    /\ FamilyOK
    /\ OneAccount
    /\ DeletedIsGone

-----------------------------------------------------------------------------
(* Lemmas                                                                  *)

\* A request moves on to a state of the right type with the reads it needs.
LEMMA RequestStep ==
    ASSUME NEW c \in Requests, NEW r \in RequestState,
           req \in [Requests -> RequestState], RequestsOK,
           ReadsOK(r), Goto(c, r)
    PROVE  req' \in [Requests -> RequestState] /\ RequestsOK'
<1>1. req' \in [Requests -> RequestState]
  BY DEF Goto
<1>2. \A d \in Requests : req'[d] = IF d = c THEN r ELSE req[d]
  BY DEF Goto
<1>3. RequestsOK'
  BY <1>2 DEF RequestsOK
<1> QED BY <1>1, <1>3

LEMMA IdleOK == Idle \in RequestState /\ ReadsOK(Idle)
BY NullAssumption DEF Idle, RequestState, Stages, ReadsOK

\* A request ends.
LEMMA EndStep ==
    ASSUME NEW c \in Requests,
           req \in [Requests -> RequestState], RequestsOK, End(c)
    PROVE  req' \in [Requests -> RequestState] /\ RequestsOK'
BY IdleOK, RequestStep DEF End

\* A step that leaves the tables alone.
LEMMA TablesKept ==
    ASSUME AccountInv, UNCHANGED <<users, approved, tokens, oauth>>,
           req' \in [Requests -> RequestState], RequestsOK'
    PROVE  AccountInv'
<1> USE DEF oauth
<1>1. TypeOK'
  BY DEF AccountInv, TypeOK
<1>2. FamilyOK'
  BY DEF AccountInv, FamilyOK, LiveTokens
<1>3. OneAccount'
  BY DEF AccountInv, OneAccount, LiveUsers, LiveIdentities
<1>4. DeletedIsGone'
  BY DEF AccountInv, DeletedIsGone, LiveUsers, LiveIdentities, LiveTokens
<1> QED BY <1>1, <1>2, <1>3, <1>4 DEF AccountInv

LEMMA EndOnly ==
    ASSUME AccountInv, NEW c \in Requests, End(c),
           UNCHANGED <<users, approved, tokens, oauth>>
    PROVE  AccountInv'
BY EndStep, TablesKept DEF AccountInv, TypeOK

\* A step that only moves a request.
LEMMA GotoOnly ==
    ASSUME AccountInv, NEW c \in Requests, NEW r \in RequestState, ReadsOK(r), Goto(c, r),
           UNCHANGED <<users, approved, tokens, oauth>>
    PROVE  AccountInv'
BY RequestStep, TablesKept DEF AccountInv, TypeOK

\* New ids are of rows that nothing has been written to.
LEMMA NextIdFree ==
    ASSUME NEW table, NEW ids, NEW i \in NextId(table, ids)
    PROVE  i \in ids /\ table[i].row = "free"
BY DEF NextId

-----------------------------------------------------------------------------
(* Steps that read                                                         *)

LEMMA RegisterInv ==
    ASSUME AccountInv, NEW c \in Requests, NEW e \in Emails, Register(c, e)
    PROVE  AccountInv'
<1> DEFINE r == [Idle EXCEPT !.pc = "insert", !.email = e, !.password = TRUE,
                            !.boot = (Approval(e) = "added")]
<1>1. r \in RequestState /\ ReadsOK(r)
  BY NullAssumption DEF Idle, RequestState, Stages, ReadsOK
<1> HIDE DEF r
<1>2. Goto(c, r) /\ UNCHANGED <<users, approved, tokens, oauth>>
  BY DEF Register, r
<1> QED BY <1>1, <1>2, GotoOnly

LEMMA LoginInv ==
    ASSUME AccountInv, NEW c \in Requests, NEW u \in UserIds, Login(c, u)
    PROVE  AccountInv'
<1> DEFINE r == [Idle EXCEPT !.pc = "session", !.user = u]
<1>1. r \in RequestState /\ ReadsOK(r)
  BY NullAssumption DEF Idle, RequestState, Stages, ReadsOK
<1> HIDE DEF r
<1>2. Goto(c, r) /\ UNCHANGED <<users, approved, tokens, oauth>>
  BY DEF Login, r
<1> QED BY <1>1, <1>2, GotoOnly

LEMMA RefreshInv ==
    ASSUME AccountInv, NEW c \in Requests, NEW t \in TokenIds, Refresh(c, t)
    PROVE  AccountInv'
<1> DEFINE r == [Idle EXCEPT !.token = t, !.pc = IF tokens[t].used THEN "revoke" ELSE "claim"]
<1>1. r \in RequestState /\ ReadsOK(r)
  BY NullAssumption DEF Idle, RequestState, Stages, ReadsOK
<1> HIDE DEF r
<1>2. Goto(c, r) /\ UNCHANGED <<users, approved, tokens, oauth>>
  BY DEF Refresh, r
<1> QED BY <1>1, <1>2, GotoOnly

LEMMA ClaimLostInv ==
    ASSUME AccountInv, NEW c \in Requests, ClaimLost(c)
    PROVE  AccountInv'
<1> DEFINE r == [req[c] EXCEPT !.pc = "revoke"]
<1>0. req[c] \in RequestState /\ ReadsOK(req[c])
  BY DEF AccountInv, TypeOK, RequestsOK
<1>1. r \in RequestState /\ ReadsOK(r)
  BY <1>0 DEF ClaimLost, At, RequestState, Stages, ReadsOK
<1> HIDE DEF r
<1>2. Goto(c, r) /\ UNCHANGED <<users, approved, tokens, oauth>>
  BY DEF ClaimLost, r
<1> QED BY <1>1, <1>2, GotoOnly

LEMMA LogoutInv ==
    ASSUME AccountInv, NEW c \in Requests, NEW t \in TokenIds, Logout(c, t)
    PROVE  AccountInv'
<1> DEFINE r == [Idle EXCEPT !.pc = "revoke", !.token = t]
<1>1. r \in RequestState /\ ReadsOK(r)
  BY NullAssumption DEF Idle, RequestState, Stages, ReadsOK
<1> HIDE DEF r
<1>2. Goto(c, r) /\ UNCHANGED <<users, approved, tokens, oauth>>
  BY DEF Logout, r
<1> QED BY <1>1, <1>2, GotoOnly

LEMMA RevokeReadInv ==
    ASSUME AccountInv, NEW c \in Requests, RevokeRead(c)
    PROVE  AccountInv'
<1> DEFINE F == Members(tokens[req[c].token].family)
           r == [req[c] EXCEPT !.pc = "revoking", !.family = F]
<1>0. req[c] \in RequestState /\ ReadsOK(req[c])
  BY DEF AccountInv, TypeOK, RequestsOK
<1>1. F \subseteq TokenIds
  BY DEF Members, LiveTokens
<1>2. Goto(c, r) /\ UNCHANGED <<users, approved, tokens, oauth>>
  BY DEF RevokeRead
<1> HIDE DEF F
<1>3. r \in RequestState
  BY <1>0, <1>1 DEF RequestState, Stages
<1>4. r.pc = "revoking"
  BY <1>0 DEF RequestState
<1> HIDE DEF r
<1>5. ReadsOK(r)
  BY <1>4 DEF ReadsOK
<1> QED BY <1>2, <1>3, <1>5, GotoOnly

LEMMA DeleteAccountInv ==
    ASSUME AccountInv, NEW c \in Requests, NEW u \in UserIds, DeleteAccount(c, u)
    PROVE  AccountInv'
<1> DEFINE r == [Idle EXCEPT !.pc = "expunge", !.user = u]
<1>1. r \in RequestState /\ ReadsOK(r)
  BY NullAssumption DEF Idle, RequestState, Stages, ReadsOK
<1> HIDE DEF r
<1>2. Goto(c, r) /\ UNCHANGED <<users, approved, tokens, oauth>>
  BY DEF DeleteAccount, r
<1> QED BY <1>1, <1>2, GotoOnly

LEMMA CallbackInv ==
    ASSUME AccountInv, NEW c \in Requests, NEW f \in FlowIds, NEW p \in Providers,
           Callback(c, f, p)
    PROVE  AccountInv'
<1> DEFINE r == [Idle EXCEPT !.pc = "consume", !.flow = f, !.provider = p,
                            !.user = flows[f].user]
<1>0. flows[f].user \in UserIds \cup {None}
  BY DEF AccountInv, TypeOK, Flow, NoFlow, Gone
<1>1. r \in RequestState /\ ReadsOK(r)
  BY <1>0, NullAssumption DEF Idle, RequestState, Stages, ReadsOK
<1> HIDE DEF r
<1>2. Goto(c, r) /\ UNCHANGED <<users, approved, tokens, oauth>>
  BY DEF Callback, r
<1> QED BY <1>1, <1>2, GotoOnly

LEMMA ExchangeInv ==
    ASSUME AccountInv, NEW c \in Requests, NEW s \in Subjects, NEW e \in Emails \cup {None},
           Exchange(c, s, e)
    PROVE  AccountInv'
<1> DEFINE a == [req[c] EXCEPT !.pc = "login", !.subject = s, !.email = e]
           b == [req[c] EXCEPT !.pc = "link", !.subject = s]
<1>0. req[c] \in RequestState /\ ReadsOK(req[c]) /\ req[c].pc = "exchange"
  BY DEF AccountInv, TypeOK, RequestsOK, Exchange, At
<1>1. a \in RequestState /\ ReadsOK(a)
  BY <1>0 DEF RequestState, Stages, ReadsOK
<1>2. req[c].user # None => b \in RequestState /\ ReadsOK(b)
  BY <1>0 DEF RequestState, Stages, ReadsOK
<1> HIDE DEF a, b
<1>3. /\ IF req[c].user = None THEN Goto(c, a) ELSE Goto(c, b)
      /\ UNCHANGED <<users, approved, tokens, oauth>>
  BY DEF Exchange, a, b
<1> QED BY <1>1, <1>2, <1>3, GotoOnly

LEMMA LoginKnownInv ==
    ASSUME AccountInv, NEW c \in Requests, LoginKnown(c)
    PROVE  AccountInv'
<1>1. PICK i \in LiveIdentities :
        /\ Goto(c, [Idle EXCEPT !.pc = "session", !.user = identities[i].user])
        /\ UNCHANGED <<users, approved, tokens, oauth>>
  BY DEF LoginKnown, Linked
<1> DEFINE r == [Idle EXCEPT !.pc = "session", !.user = identities[i].user]
<1>2. identities[i].user \in UserIds
  BY DEF AccountInv, TypeOK, LiveIdentities, Identity, NoIdentity, Gone
<1>3. r \in RequestState /\ ReadsOK(r)
  BY <1>2, NullAssumption DEF Idle, RequestState, Stages, ReadsOK
<1> HIDE DEF r
<1>4. Goto(c, r) /\ UNCHANGED <<users, approved, tokens, oauth>>
  BY <1>1 DEF r
<1> QED BY <1>3, <1>4, GotoOnly

LEMMA LoginRegisterInv ==
    ASSUME AccountInv, NEW c \in Requests, LoginRegister(c)
    PROVE  AccountInv'
<1> DEFINE r == [req[c] EXCEPT !.pc = "insert", !.boot = (Approval(req[c].email) = "added"),
                         !.user = None]
<1>0. /\ req[c] \in RequestState /\ ReadsOK(req[c])
      /\ req[c].pc = "login" /\ req[c].email # None
  BY DEF AccountInv, TypeOK, RequestsOK, LoginRegister, At
<1> DEFINE b == (Approval(req[c].email) = "added")
<1>1. b \in BOOLEAN
  OBVIOUS
<1> HIDE DEF b
<1>2. [req[c] EXCEPT !.pc = "insert", !.boot = b, !.user = None] \in RequestState
  BY <1>0, <1>1 DEF RequestState, Stages
<1>3. r \in RequestState
  BY <1>2 DEF b
<1>4. r.pc = "insert" /\ r.email = req[c].email /\ r.subject = req[c].subject
  BY <1>0 DEF RequestState
<1>5. req[c].email \in Emails /\ req[c].subject \in Subjects
  BY <1>0 DEF RequestState, ReadsOK
<1>6. Goto(c, r) /\ UNCHANGED <<users, approved, tokens, oauth>>
  BY DEF LoginRegister
<1> HIDE DEF r
<1>7. ReadsOK(r)
  BY <1>4, <1>5 DEF ReadsOK
<1> QED BY <1>3, <1>6, <1>7, GotoOnly

LEMMA ConfirmInv ==
    ASSUME AccountInv, NEW c \in Requests, NEW x \in pendings, Confirm(c, x)
    PROVE  AccountInv'
<1>1. PICK u \in UserOf(x.email) :
        /\ Goto(c, [Idle EXCEPT !.pc = "confirm", !.user = u, !.email = x.email,
                                !.provider = x.provider, !.subject = x.subject])
        /\ UNCHANGED <<users, approved, tokens, oauth>>
  BY DEF Confirm
<1> DEFINE r == [Idle EXCEPT !.pc = "confirm", !.user = u, !.email = x.email,
                                !.provider = x.provider, !.subject = x.subject]
<1>2. x \in Pending /\ u \in UserIds
  BY DEF AccountInv, TypeOK, UserOf, LiveUsers
<1>3. r \in RequestState /\ ReadsOK(r)
  BY <1>2, NullAssumption DEF Idle, RequestState, Stages, ReadsOK, Pending
<1> HIDE DEF r
<1>4. Goto(c, r) /\ UNCHANGED <<users, approved, tokens, oauth>>
  BY <1>1 DEF r
<1> QED BY <1>3, <1>4, GotoOnly

LEMMA UnlinkInv ==
    ASSUME AccountInv, NEW c \in Requests, NEW i \in IdentityIds, Unlink(c, i)
    PROVE  AccountInv'
<1> DEFINE r == [Idle EXCEPT !.pc = "unlink", !.identity = i]
<1>1. r \in RequestState /\ ReadsOK(r)
  BY NullAssumption DEF Idle, RequestState, Stages, ReadsOK
<1> HIDE DEF r
<1>2. Goto(c, r) /\ UNCHANGED <<users, approved, tokens, oauth>>
  BY DEF Unlink, r
<1> QED BY <1>1, <1>2, GotoOnly

-----------------------------------------------------------------------------
(* Steps that write                                                        *)

\* A live row has its columns.
LEMMA LiveToken ==
    ASSUME TypeOK, NEW t \in LiveTokens
    PROVE  /\ t \in TokenIds
           /\ tokens[t] \in [row : {"live"}, user : UserIds, family : TokenIds,
                             used : BOOLEAN, revoked : BOOLEAN]
BY DEF TypeOK, LiveTokens, Token, NoToken, Gone

LEMMA LiveIdentity ==
    ASSUME TypeOK, NEW i \in LiveIdentities
    PROVE  /\ i \in IdentityIds
           /\ identities[i] \in [row : {"live"}, user : UserIds, provider : Providers,
                                 subject : Subjects]
BY DEF TypeOK, LiveIdentities, Identity, NoIdentity, Gone

\* A step that changes only the allowlist, the pending links and the requests.
LEMMA RowsKept ==
    ASSUME AccountInv, UNCHANGED <<users, tokens, flows, identities>>,
           approved' \subseteq Emails, pendings' \subseteq Pending,
           req' \in [Requests -> RequestState], RequestsOK'
    PROVE  AccountInv'
<1>1. TypeOK'
  BY DEF AccountInv, TypeOK
<1>2. FamilyOK'
  BY DEF AccountInv, FamilyOK, LiveTokens
<1>3. OneAccount'
  BY DEF AccountInv, OneAccount, LiveUsers, LiveIdentities
<1>4. DeletedIsGone'
  BY DEF AccountInv, DeletedIsGone, LiveUsers, LiveIdentities, LiveTokens
<1> QED BY <1>1, <1>2, <1>3, <1>4 DEF AccountInv

LEMMA ApproveEmailInv ==
    ASSUME AccountInv, NEW e \in Emails, ApproveEmail(e)
    PROVE  AccountInv'
<1>1. UNCHANGED <<users, tokens, flows, identities>>
  BY DEF ApproveEmail, oauth
<1>2. approved' \subseteq Emails /\ pendings' \subseteq Pending
  BY DEF ApproveEmail, oauth, AccountInv, TypeOK
<1>3. req' \in [Requests -> RequestState] /\ RequestsOK'
  BY DEF ApproveEmail, AccountInv, TypeOK, RequestsOK
<1> QED BY <1>1, <1>2, <1>3, RowsKept

LEMMA LoginPendingInv ==
    ASSUME AccountInv, NEW c \in Requests, LoginPending(c)
    PROVE  AccountInv'
<1>1. UNCHANGED <<users, approved, tokens, flows, identities>> /\ End(c)
  BY DEF LoginPending
<1>2. /\ req[c].provider \in Providers /\ req[c].subject \in Subjects
      /\ req[c].email \in Emails
  BY DEF LoginPending, At, AccountInv, TypeOK, RequestsOK, ReadsOK, RequestState
<1>3. pendings' \subseteq Pending
  BY <1>2 DEF LoginPending, AccountInv, TypeOK, Pending
<1>4. req' \in [Requests -> RequestState] /\ RequestsOK'
  BY <1>1, EndStep DEF AccountInv, TypeOK
<1> QED BY <1>1, <1>3, <1>4, RowsKept DEF AccountInv, TypeOK

\* An account is created: no other has its address.
LEMMA InsertInv ==
    ASSUME AccountInv, NEW c \in Requests, Insert(c)
    PROVE  AccountInv'
<1>1. PICK u \in NextId(users, UserIds) :
        /\ users' = [users EXCEPT ![u] = [row |-> "live", email |-> req[c].email,
                                          password |-> req[c].password]]
        /\ Goto(c, [Idle EXCEPT !.pc = "session", !.user = u,
               !.provider = req[c].provider, !.subject = req[c].subject])
  BY DEF Insert
<1>2. u \in UserIds /\ users[u].row = "free"
  BY <1>1, NextIdFree
<1>3. /\ req[c] \in RequestState /\ ReadsOK(req[c]) /\ req[c].pc = "insert"
      /\ UserOf(req[c].email) = {}
      /\ approved' = approved \cup {req[c].email}
      /\ UNCHANGED <<tokens, flows, pendings, identities>>
  BY DEF Insert, InsertAdmitted, At, AccountInv, TypeOK, RequestsOK, oauth
<1>4. req[c].email \in Emails /\ req[c].password \in BOOLEAN
  BY <1>3 DEF RequestState, ReadsOK
<1> DEFINE r == [Idle EXCEPT !.pc = "session", !.user = u,
               !.provider = req[c].provider, !.subject = req[c].subject]
<1>5. r \in RequestState /\ ReadsOK(r)
  BY <1>2, <1>3, NullAssumption DEF Idle, RequestState, Stages, ReadsOK
<1> HIDE DEF r
<1>6. req' \in [Requests -> RequestState] /\ RequestsOK'
  BY <1>1, <1>5, RequestStep DEF AccountInv, TypeOK, r
<1>7. users' \in [UserIds -> User]
  BY <1>1, <1>2, <1>4 DEF AccountInv, TypeOK, User
<1>8. TypeOK'
  BY <1>3, <1>4, <1>6, <1>7 DEF AccountInv, TypeOK
<1>9. /\ LiveUsers' = LiveUsers \cup {u}
      /\ \A v \in LiveUsers : users'[v] = users[v]
      /\ users'[u].email = req[c].email
  BY <1>1, <1>2 DEF LiveUsers, AccountInv, TypeOK
<1>10. FamilyOK'
  BY <1>3 DEF AccountInv, FamilyOK, LiveTokens
<1>11. \A v, w \in LiveUsers' : users'[v].email = users'[w].email => v = w
  BY <1>3, <1>9 DEF AccountInv, OneAccount, UserOf
<1>12. OneAccount'
  BY <1>3, <1>11 DEF AccountInv, OneAccount, LiveIdentities
<1>13. DeletedIsGone'
  BY <1>3, <1>9 DEF AccountInv, DeletedIsGone, LiveTokens, LiveIdentities
<1> QED BY <1>6, <1>8, <1>10, <1>12, <1>13 DEF AccountInv

\* A step that changes only the tokens and the requests.
LEMMA TokensStep ==
    ASSUME AccountInv, UNCHANGED <<users, approved, oauth>>,
           tokens' \in [TokenIds -> Token], FamilyOK',
           \A t \in LiveTokens' : tokens'[t].user \in LiveUsers,
           req' \in [Requests -> RequestState], RequestsOK'
    PROVE  AccountInv'
<1> USE DEF oauth
<1>1. TypeOK'
  BY DEF AccountInv, TypeOK
<1>2. OneAccount'
  BY DEF AccountInv, OneAccount, LiveUsers, LiveIdentities
<1>3. DeletedIsGone'
  BY DEF AccountInv, DeletedIsGone, LiveUsers, LiveIdentities
<1> QED BY <1>1, <1>2, <1>3 DEF AccountInv

\* The first token of a family: no token issued before is in it.
LEMMA OpenSessionInv ==
    ASSUME AccountInv, NEW c \in Requests, OpenSession(c)
    PROVE  AccountInv'
<1>1. PICK n \in NextId(tokens, TokenIds) :
        tokens' = [tokens EXCEPT ![n] = Issued(n, req[c].user, None)]
  BY DEF OpenSession
<1>2. n \in TokenIds /\ tokens[n].row = "free"
  BY <1>1, NextIdFree
<1>3. /\ req[c] \in RequestState /\ ReadsOK(req[c]) /\ req[c].pc = "session"
      /\ req[c].user \in LiveUsers
      /\ UNCHANGED <<users, approved, oauth>>
  BY DEF OpenSession, At, AccountInv, TypeOK, RequestsOK
<1>4. Issued(n, req[c].user, None) = [row |-> "live", user |-> req[c].user, family |-> n,
                                      used |-> FALSE, revoked |-> FALSE]
  BY DEF Issued
<1>5. tokens' \in [TokenIds -> Token]
  BY <1>1, <1>2, <1>3, <1>4 DEF AccountInv, TypeOK, Token, LiveUsers
<1>6. /\ LiveTokens' = LiveTokens \cup {n} /\ n \notin LiveTokens
      /\ \A t \in TokenIds : t # n => tokens'[t] = tokens[t]
      /\ tokens'[n] = Issued(n, req[c].user, None)
  BY <1>1, <1>2, <1>4 DEF LiveTokens, AccountInv, TypeOK
<1>7. \A t \in LiveTokens : tokens[t].family \in TokenIds /\ tokens[t].family # n
  BY <1>2, LiveToken DEF AccountInv, FamilyOK
<1>8. \A t \in LiveTokens' : tokens'[tokens'[t].family].row # "free"
  <2>1. tokens'[tokens'[n].family].row # "free"
    BY <1>4, <1>6
  <2>2. ASSUME NEW t \in LiveTokens
        PROVE  tokens'[tokens'[t].family].row # "free"
    <3>1. tokens'[t] = tokens[t] /\ tokens'[tokens[t].family] = tokens[tokens[t].family]
      BY <1>6, <1>7, LiveToken DEF AccountInv
    <3> QED BY <3>1 DEF AccountInv, FamilyOK
  <2> QED BY <1>6, <2>1, <2>2
<1>9. \A s, t \in LiveTokens' : tokens'[s].family = tokens'[t].family =>
        /\ tokens'[s].user = tokens'[t].user
        /\ ~tokens'[s].used /\ ~tokens'[t].used => s = t
  <2>1. \A t \in LiveTokens : t \in TokenIds /\ t # n /\ tokens'[t] = tokens[t]
    BY <1>6 DEF LiveTokens
  <2>2. tokens'[n].family = n
    BY <1>4, <1>6
  <2> QED BY <1>6, <1>7, <2>1, <2>2 DEF AccountInv, FamilyOK
<1>10. FamilyOK'
  BY <1>8, <1>9 DEF FamilyOK
<1>11. \A t \in LiveTokens' : tokens'[t].user \in LiveUsers
  <2>1. tokens'[n].user \in LiveUsers
    BY <1>3, <1>4, <1>6
  <2> QED BY <1>6, <2>1 DEF AccountInv, DeletedIsGone, LiveTokens
<1> DEFINE r == [req[c] EXCEPT !.pc = "identify"]
<1>12. req[c].provider # None => r \in RequestState /\ ReadsOK(r)
  BY <1>3, NullAssumption DEF RequestState, Stages, ReadsOK
<1>13. IF req[c].provider = None THEN End(c) ELSE Goto(c, r)
  BY DEF OpenSession
<1> HIDE DEF r
<1>14. req' \in [Requests -> RequestState] /\ RequestsOK'
  BY <1>12, <1>13, EndStep, RequestStep DEF AccountInv, TypeOK
<1> QED BY <1>3, <1>5, <1>10, <1>11, <1>14, TokensStep

\* The rotation: the claimed token was the only unused one of its family.
LEMMA ClaimInv ==
    ASSUME AccountInv, NEW c \in Requests, Claim(c)
    PROVE  AccountInv'
<1> DEFINE t == req[c].token
           f == tokens[t].family
<1>1. PICK n \in NextId(tokens, TokenIds) :
        tokens' = [tokens EXCEPT ![t].used = TRUE, ![n] = Issued(n, tokens[t].user, f)]
  BY DEF Claim
<1>2. n \in TokenIds /\ tokens[n].row = "free"
  BY <1>1, NextIdFree
<1>3. /\ t \in LiveTokens /\ ~tokens[t].used /\ End(c)
      /\ UNCHANGED <<users, approved, oauth>>
  BY DEF Claim, Claimable
<1>4. /\ t \in TokenIds /\ t # n
      /\ tokens[t] \in [row : {"live"}, user : UserIds, family : TokenIds,
                        used : BOOLEAN, revoked : BOOLEAN]
  BY <1>2, <1>3, LiveToken DEF AccountInv, LiveTokens
<1>5. Issued(n, tokens[t].user, f) = [row |-> "live", user |-> tokens[t].user, family |-> f,
                                      used |-> FALSE, revoked |-> FALSE]
  BY <1>4, NullAssumption DEF Issued
<1>6. /\ tokens'[n] = Issued(n, tokens[t].user, f)
      /\ tokens'[t] = [tokens[t] EXCEPT !.used = TRUE]
      /\ \A s \in TokenIds : s # t /\ s # n => tokens'[s] = tokens[s]
      /\ DOMAIN tokens' = TokenIds
  BY <1>1, <1>2, <1>4 DEF AccountInv, TypeOK
<1>7. tokens' \in [TokenIds -> Token]
  <2>1. tokens'[n] \in Token
    BY <1>4, <1>5, <1>6 DEF Token
  <2>2. tokens'[t] \in Token
    BY <1>4, <1>6 DEF Token
  <2>3. \A s \in TokenIds : tokens'[s] \in Token
    BY <1>6, <2>1, <2>2 DEF AccountInv, TypeOK
  <2> QED BY <1>1, <1>6, <2>3 DEF AccountInv, TypeOK
<1>8. /\ tokens'[t].row = "live" /\ tokens'[t].user = tokens[t].user
      /\ tokens'[t].family = f /\ tokens'[t].used = TRUE
  BY <1>4, <1>6
<1>9. /\ tokens'[n].row = "live" /\ tokens'[n].user = tokens[t].user
      /\ tokens'[n].family = f /\ tokens'[n].used = FALSE
  BY <1>5, <1>6
<1>10. /\ LiveTokens' = LiveTokens \cup {n} /\ n \notin LiveTokens
       /\ \A s \in LiveTokens : s \in TokenIds /\ s # n
       /\ \A s \in LiveTokens : s # t => tokens'[s] = tokens[s]
  BY <1>2, <1>3, <1>4, <1>6, <1>8, <1>9 DEF LiveTokens
<1>11. \A s \in LiveTokens : tokens[s].family \in TokenIds /\ tokens[tokens[s].family].row # "free"
  BY LiveToken DEF AccountInv, FamilyOK
<1>12. \A g \in TokenIds : tokens[g].row # "free" => tokens'[g].row # "free"
  BY <1>6, <1>8, <1>9
<1> HIDE DEF t, f
<1>13. \A s \in LiveTokens' : tokens'[tokens'[s].family].row # "free"
  BY <1>3, <1>8, <1>9, <1>10, <1>11, <1>12 DEF f
<1>14. \A s \in LiveTokens : tokens[s].family = f =>
          tokens[s].user = tokens[t].user /\ (~tokens[s].used => s = t)
  BY <1>3 DEF AccountInv, FamilyOK, f
<1>15. \A s \in LiveTokens : tokens'[s].family = tokens[s].family
                             /\ tokens'[s].user = tokens[s].user
                             /\ (~tokens'[s].used => s # t /\ ~tokens[s].used)
  BY <1>8, <1>10 DEF f
<1>16. \A s, v \in LiveTokens' : tokens'[s].family = tokens'[v].family =>
        /\ tokens'[s].user = tokens'[v].user
        /\ ~tokens'[s].used /\ ~tokens'[v].used => s = v
  BY <1>9, <1>10, <1>14, <1>15 DEF AccountInv, FamilyOK
<1>17. FamilyOK'
  BY <1>13, <1>16 DEF FamilyOK
<1>18. \A s \in LiveTokens' : tokens'[s].user \in LiveUsers
  BY <1>3, <1>9, <1>10, <1>15 DEF AccountInv, DeletedIsGone
<1>19. req' \in [Requests -> RequestState] /\ RequestsOK'
  BY <1>3, EndStep DEF AccountInv, TypeOK
<1> QED BY <1>3, <1>7, <1>17, <1>18, <1>19, TokensStep

LEMMA RevokeWriteInv ==
    ASSUME AccountInv, NEW c \in Requests, RevokeWrite(c)
    PROVE  AccountInv'
<1>1. /\ End(c) /\ UNCHANGED <<users, approved, oauth>>
      /\ tokens' = IF req[c].family \subseteq LiveTokens
                   THEN [t \in TokenIds |-> [tokens[t] EXCEPT
                             !.revoked = @ \/ t \in req[c].family]]
                   ELSE tokens
  BY DEF RevokeWrite
<1>2. req' \in [Requests -> RequestState] /\ RequestsOK'
  BY <1>1, EndStep DEF AccountInv, TypeOK
<1>3. CASE tokens' = tokens
  BY <1>1, <1>2, <1>3, TablesKept
<1>4. CASE /\ req[c].family \subseteq LiveTokens
           /\ tokens' = [t \in TokenIds |-> [tokens[t] EXCEPT
                             !.revoked = @ \/ t \in req[c].family]]
  <2> DEFINE F == req[c].family
  <2>1. ASSUME NEW t \in TokenIds
        PROVE  /\ tokens'[t] \in Token
               /\ tokens'[t].row = tokens[t].row
               /\ tokens'[t].user = tokens[t].user
               /\ tokens'[t].family = tokens[t].family
               /\ tokens'[t].used = tokens[t].used
    <3>1. tokens'[t] = [tokens[t] EXCEPT !.revoked = @ \/ t \in F]
      BY <1>4
    <3>2. CASE tokens[t].row = "live"
      <4>1. tokens[t] \in [row : {"live"}, user : UserIds, family : TokenIds,
                           used : BOOLEAN, revoked : BOOLEAN]
        BY <3>2, LiveToken DEF AccountInv, LiveTokens
      <4>2. (tokens[t].revoked \/ t \in F) \in BOOLEAN
        OBVIOUS
      <4> QED BY <3>1, <4>1, <4>2 DEF Token
    <3>3. CASE tokens[t].row # "live"
      <4>1. tokens[t] = NoToken \/ tokens[t] = Gone(NoToken)
        BY <3>3 DEF AccountInv, TypeOK, Token
      <4>2. t \notin F
        BY <1>4, <3>3 DEF LiveTokens
      <4>3. tokens[t].revoked = FALSE
        BY <4>1 DEF NoToken, Gone
      <4>4. (tokens[t].revoked \/ t \in F) = FALSE
        BY <4>2, <4>3
      <4>5. tokens'[t] = [tokens[t] EXCEPT !.revoked = FALSE]
        BY <3>1, <4>4
      <4> DEFINE Empty == [row : {"free", "gone"}, user : {None}, family : {None},
                           used : BOOLEAN, revoked : BOOLEAN]
      <4>6. tokens[t] \in Empty
        <5>1. NoToken \in Empty
          BY DEF NoToken
        <5>2. Gone(NoToken) \in Empty
          BY <5>1 DEF Gone
        <5> QED BY <4>1, <5>1, <5>2
      <4>7. tokens'[t] = tokens[t]
        BY <4>3, <4>5, <4>6
      <4> QED BY <4>7 DEF AccountInv, TypeOK
    <3> QED BY <3>2, <3>3
  <2>2. tokens' \in [TokenIds -> Token]
    BY <1>4, <2>1
  <2>3. LiveTokens' = LiveTokens
    BY <2>1 DEF LiveTokens
  <2>4. \A t \in LiveTokens : t \in TokenIds /\ tokens[t].family \in TokenIds
    BY LiveToken DEF AccountInv
  <2>5. FamilyOK'
    BY <2>1, <2>3, <2>4 DEF AccountInv, FamilyOK
  <2>6. \A t \in LiveTokens' : tokens'[t].user \in LiveUsers
    BY <2>1, <2>3, <2>4 DEF AccountInv, DeletedIsGone
  <2> QED BY <1>1, <1>2, <2>2, <2>5, <2>6, TokensStep
<1> QED BY <1>1, <1>3, <1>4

\* The deletion takes every row of the account with it, and no other.
LEMMA ExpungeInv ==
    ASSUME AccountInv, NEW c \in Requests, Expunge(c)
    PROVE  AccountInv'
<1> DEFINE u == req[c].user
<1>1. /\ End(c) /\ UNCHANGED <<approved, pendings>>
      /\ users' = [users EXCEPT ![u] = Gone(NoUser)]
      /\ tokens' = Cascade(tokens, TokenIds, u, NoToken)
      /\ flows' = Cascade(flows, FlowIds, u, NoFlow)
      /\ identities' = Cascade(identities, IdentityIds, u, NoIdentity)
      /\ u \in UserIds
  BY DEF Expunge, At, AccountInv, TypeOK, RequestsOK, ReadsOK
<1>2. req' \in [Requests -> RequestState] /\ RequestsOK'
  BY <1>1, EndStep DEF AccountInv, TypeOK
<1> HIDE DEF u
<1>3. /\ users' \in [UserIds -> User] /\ LiveUsers' = LiveUsers \ {u}
      /\ \A v \in LiveUsers' : users'[v] = users[v]
  BY <1>1 DEF AccountInv, TypeOK, User, LiveUsers, Gone, NoUser
<1>4. /\ tokens' \in [TokenIds -> Token]
      /\ LiveTokens' = {t \in LiveTokens : tokens[t].user # u}
      /\ \A t \in LiveTokens' : tokens'[t] = tokens[t]
      /\ \A t \in TokenIds : tokens[t].row # "free" => tokens'[t].row # "free"
  BY <1>1 DEF AccountInv, TypeOK, Token, LiveTokens, Gone, NoToken, Cascade
<1>5. /\ flows' \in [FlowIds -> Flow]
      /\ \A f \in FlowIds : flows'[f].row = "live" =>
            flows'[f] = flows[f] /\ flows[f].user # u
  BY <1>1 DEF AccountInv, TypeOK, Flow, Gone, NoFlow, Cascade
<1>6. /\ identities' \in [IdentityIds -> Identity]
      /\ LiveIdentities' = {i \in LiveIdentities : identities[i].user # u}
      /\ \A i \in LiveIdentities' : identities'[i] = identities[i]
  BY <1>1 DEF AccountInv, TypeOK, Identity, LiveIdentities, Gone, NoIdentity, Cascade
<1>7. TypeOK'
  BY <1>1, <1>2, <1>3, <1>4, <1>5, <1>6 DEF AccountInv, TypeOK
<1>8. \A t \in LiveTokens : tokens[t].family \in TokenIds
  BY LiveToken DEF AccountInv
<1>9. FamilyOK'
  BY <1>4, <1>8 DEF AccountInv, FamilyOK
<1>10. OneAccount'
  BY <1>3, <1>6 DEF AccountInv, OneAccount
<1>11. DeletedIsGone'
  BY <1>3, <1>4, <1>5, <1>6 DEF AccountInv, DeletedIsGone
<1> QED BY <1>2, <1>7, <1>9, <1>10, <1>11 DEF AccountInv

\* A step that changes only the flows and the requests.
LEMMA FlowsStep ==
    ASSUME AccountInv, UNCHANGED <<users, approved, tokens, pendings, identities>>,
           flows' \in [FlowIds -> Flow],
           \A f \in FlowIds : flows'[f].row = "live" /\ flows'[f].user # None
                              => flows'[f].user \in LiveUsers,
           req' \in [Requests -> RequestState], RequestsOK'
    PROVE  AccountInv'
<1>1. TypeOK'
  BY DEF AccountInv, TypeOK
<1>2. FamilyOK'
  BY DEF AccountInv, FamilyOK, LiveTokens
<1>3. OneAccount'
  BY DEF AccountInv, OneAccount, LiveUsers, LiveIdentities
<1>4. DeletedIsGone'
  BY DEF AccountInv, DeletedIsGone, LiveUsers, LiveIdentities, LiveTokens
<1> QED BY <1>1, <1>2, <1>3, <1>4 DEF AccountInv

LEMMA StartFlowInv ==
    ASSUME AccountInv, NEW intent \in {"login", "link"}, NEW u \in UserIds \cup {None},
           StartFlow(intent, u)
    PROVE  AccountInv'
<1>1. PICK f \in NextId(flows, FlowIds) :
        flows' = [flows EXCEPT ![f] = [row |-> "live", intent |-> intent, user |-> u]]
  BY DEF StartFlow
<1>2. f \in FlowIds
  BY <1>1, NextIdFree
<1>3. flows' \in [FlowIds -> Flow]
  BY <1>1, <1>2 DEF AccountInv, TypeOK, Flow
<1>4. u = None \/ u \in LiveUsers
  BY DEF StartFlow
<1>5. \A g \in FlowIds : flows'[g].row = "live" /\ flows'[g].user # None
                         => flows'[g].user \in LiveUsers
  BY <1>1, <1>2, <1>4 DEF AccountInv, TypeOK, DeletedIsGone
<1>6. UNCHANGED <<users, approved, tokens, pendings, identities, req>>
  BY DEF StartFlow
<1>7. req' \in [Requests -> RequestState] /\ RequestsOK'
  BY <1>6 DEF AccountInv, TypeOK, RequestsOK
<1> QED BY <1>3, <1>5, <1>6, <1>7, FlowsStep

LEMMA ConsumeInv ==
    ASSUME AccountInv, NEW c \in Requests, Consume(c)
    PROVE  AccountInv'
<1> DEFINE r == [req[c] EXCEPT !.pc = "exchange", !.flow = None]
           f == req[c].flow
<1>1. /\ flows' = [flows EXCEPT ![f] = Gone(NoFlow)] /\ Goto(c, r)
      /\ UNCHANGED <<users, approved, tokens, pendings, identities>>
      /\ req[c] \in RequestState /\ ReadsOK(req[c]) /\ req[c].pc = "consume"
  BY DEF Consume, At, AccountInv, TypeOK, RequestsOK
<1>2. r \in RequestState /\ ReadsOK(r) /\ f \in FlowIds
  BY <1>1 DEF RequestState, Stages, ReadsOK
<1> HIDE DEF r, f
<1>3. req' \in [Requests -> RequestState] /\ RequestsOK'
  BY <1>1, <1>2, RequestStep DEF AccountInv, TypeOK
<1>4. flows' \in [FlowIds -> Flow]
  BY <1>1, <1>2 DEF AccountInv, TypeOK, Flow
<1>5. \A g \in FlowIds : flows'[g].row = "live" /\ flows'[g].user # None
                         => flows'[g].user \in LiveUsers
  BY <1>1, <1>2 DEF AccountInv, TypeOK, DeletedIsGone, Gone, NoFlow
<1> QED BY <1>1, <1>3, <1>4, <1>5, FlowsStep

\* A step that changes only the identities, the pending links and the requests.
LEMMA IdentitiesStep ==
    ASSUME AccountInv, UNCHANGED <<users, approved, tokens, flows>>,
           pendings' \subseteq Pending, identities' \in [IdentityIds -> Identity],
           \A i, j \in LiveIdentities' :
                /\ identities'[i].provider = identities'[j].provider
                /\ \/ identities'[i].subject = identities'[j].subject
                   \/ identities'[i].user = identities'[j].user
                => i = j,
           \A i \in LiveIdentities' : identities'[i].user \in LiveUsers,
           req' \in [Requests -> RequestState], RequestsOK'
    PROVE  AccountInv'
<1>1. TypeOK'
  BY DEF AccountInv, TypeOK
<1>2. FamilyOK'
  BY DEF AccountInv, FamilyOK, LiveTokens
<1>3. OneAccount'
  BY DEF AccountInv, OneAccount, LiveUsers
<1>4. DeletedIsGone'
  BY DEF AccountInv, DeletedIsGone, LiveUsers, LiveTokens
<1> QED BY <1>1, <1>2, <1>3, <1>4 DEF AccountInv

\* A new identity passes both unique constraints.
LEMMA LinkStep ==
    ASSUME AccountInv, NEW u \in UserIds, NEW p \in Providers, NEW s \in Subjects,
           Linkable(u, p, s), Link(u, p, s),
           UNCHANGED <<users, approved, tokens, flows>>, pendings' \subseteq Pending,
           req' \in [Requests -> RequestState], RequestsOK'
    PROVE  AccountInv'
<1> DEFINE x == [row |-> "live", user |-> u, provider |-> p, subject |-> s]
<1>1. PICK i \in NextId(identities, IdentityIds) :
        identities' = [identities EXCEPT ![i] = x]
  BY DEF Link
<1>2. i \in IdentityIds /\ identities[i].row = "free"
  BY <1>1, NextIdFree
<1>3. identities' \in [IdentityIds -> Identity]
  BY <1>1, <1>2 DEF AccountInv, TypeOK, Identity
<1>4. /\ LiveIdentities' = LiveIdentities \cup {i} /\ i \notin LiveIdentities
      /\ \A j \in LiveIdentities : identities'[j] = identities[j]
      /\ identities'[i] = x
  BY <1>1, <1>2 DEF LiveIdentities, AccountInv, TypeOK
<1>5. \A j \in LiveIdentities : identities[j].provider = p =>
        identities[j].subject # s /\ identities[j].user # u
  BY DEF Linkable, Linked
<1>6. \A j, k \in LiveIdentities' :
        /\ identities'[j].provider = identities'[k].provider
        /\ \/ identities'[j].subject = identities'[k].subject
           \/ identities'[j].user = identities'[k].user
        => j = k
  BY <1>4, <1>5 DEF AccountInv, OneAccount
<1>7. \A j \in LiveIdentities' : identities'[j].user \in LiveUsers
  BY <1>4 DEF AccountInv, DeletedIsGone, Linkable
<1> QED BY <1>3, <1>6, <1>7, IdentitiesStep

\* _complete_link and the last step of a registration: linked, or nothing.
LEMMA LinkOrNot ==
    ASSUME AccountInv, NEW c \in Requests, NEW u \in UserIds, NEW p \in Providers,
           NEW s \in Subjects,
           IF Linkable(u, p, s) THEN Link(u, p, s) ELSE UNCHANGED identities,
           End(c), UNCHANGED <<users, approved, tokens, flows, pendings>>
    PROVE  AccountInv'
<1>1. req' \in [Requests -> RequestState] /\ RequestsOK'
  BY EndStep DEF AccountInv, TypeOK
<1>2. pendings' \subseteq Pending /\ approved' \subseteq Emails
  BY DEF AccountInv, TypeOK
<1>3. CASE Linkable(u, p, s)
  BY <1>1, <1>2, <1>3, LinkStep
<1>4. CASE ~Linkable(u, p, s)
  BY <1>1, <1>2, <1>4, RowsKept
<1> QED BY <1>3, <1>4

LEMMA CompleteLinkInv ==
    ASSUME AccountInv, NEW c \in Requests, CompleteLink(c) \/ Identify(c)
    PROVE  AccountInv'
<1>1. /\ req[c].user \in UserIds /\ req[c].provider \in Providers /\ req[c].subject \in Subjects
  BY DEF CompleteLink, Identify, At, AccountInv, TypeOK, RequestsOK, ReadsOK
<1>2. /\ IF Linkable(req[c].user, req[c].provider, req[c].subject)
         THEN Link(req[c].user, req[c].provider, req[c].subject) ELSE UNCHANGED identities
      /\ End(c) /\ UNCHANGED <<users, approved, tokens, flows, pendings>>
  BY DEF CompleteLink, Identify
<1> QED BY <1>1, <1>2, LinkOrNot

LEMMA ConfirmCommitInv ==
    ASSUME AccountInv, NEW c \in Requests, ConfirmCommit(c)
    PROVE  AccountInv'
<1> DEFINE u == req[c].user
           p == req[c].provider
           s == req[c].subject
           r == [Idle EXCEPT !.pc = "session", !.user = u]
<1>1. /\ u \in UserIds /\ p \in Providers /\ s \in Subjects
      /\ UNCHANGED <<users, approved, tokens, flows>>
  BY DEF ConfirmCommit, At, AccountInv, TypeOK, RequestsOK, ReadsOK
<1>2. r \in RequestState /\ ReadsOK(r)
  BY <1>1, NullAssumption DEF Idle, RequestState, Stages, ReadsOK
<1>3. CASE Linkable(u, p, s)
  <2>1. Link(u, p, s) /\ Goto(c, r) /\ pendings' \subseteq pendings
    BY <1>3 DEF ConfirmCommit
  <2> HIDE DEF r, u, p, s
  <2>2. req' \in [Requests -> RequestState] /\ RequestsOK'
    BY <1>2, <2>1, RequestStep DEF AccountInv, TypeOK
  <2>3. pendings' \subseteq Pending
    BY <2>1 DEF AccountInv, TypeOK
  <2> QED BY <1>1, <1>3, <2>1, <2>2, <2>3, LinkStep
<1>4. CASE ~Linkable(u, p, s)
  BY <1>1, <1>4, EndOnly DEF ConfirmCommit, oauth
<1> QED BY <1>3, <1>4

LEMMA UnlinkCommitInv ==
    ASSUME AccountInv, NEW c \in Requests, UnlinkCommit(c)
    PROVE  AccountInv'
<1> DEFINE i == req[c].identity
<1>1. /\ identities' = [identities EXCEPT ![i] = Gone(NoIdentity)]
      /\ End(c) /\ UNCHANGED <<users, approved, tokens, flows, pendings>>
      /\ i \in IdentityIds
  BY DEF UnlinkCommit, At, AccountInv, TypeOK, RequestsOK, ReadsOK
<1>2. req' \in [Requests -> RequestState] /\ RequestsOK'
  BY <1>1, EndStep DEF AccountInv, TypeOK
<1> HIDE DEF i
<1>3. identities' \in [IdentityIds -> Identity]
  BY <1>1 DEF AccountInv, TypeOK, Identity
<1>4. /\ LiveIdentities' = LiveIdentities \ {i}
      /\ \A j \in LiveIdentities' : identities'[j] = identities[j]
  BY <1>1 DEF LiveIdentities, AccountInv, TypeOK, Gone, NoIdentity
<1>5. \A j, k \in LiveIdentities' :
        /\ identities'[j].provider = identities'[k].provider
        /\ \/ identities'[j].subject = identities'[k].subject
           \/ identities'[j].user = identities'[k].user
        => j = k
  BY <1>4 DEF AccountInv, OneAccount
<1>6. \A j \in LiveIdentities' : identities'[j].user \in LiveUsers
  BY <1>4 DEF AccountInv, DeletedIsGone
<1>7. pendings' \subseteq Pending
  BY <1>1 DEF AccountInv, TypeOK
<1> QED BY <1>1, <1>2, <1>3, <1>5, <1>6, <1>7, IdentitiesStep

-----------------------------------------------------------------------------
(* The invariant holds                                                     *)

LEMMA InitInv ==
    ASSUME Init
    PROVE  AccountInv
<1>1. TypeOK
  BY IdleOK DEF Init, TypeOK, User, Token, Flow, Identity
<1>2. RequestsOK
  BY IdleOK DEF Init, RequestsOK
<1>3. LiveUsers = {} /\ LiveTokens = {} /\ LiveIdentities = {}
  BY DEF Init, LiveUsers, LiveTokens, LiveIdentities, NoUser, NoToken, NoIdentity
<1>4. \A f \in FlowIds : flows[f].row = "free"
  BY DEF Init, NoFlow
<1> QED BY <1>1, <1>2, <1>3, <1>4 DEF AccountInv, FamilyOK, OneAccount, DeletedIsGone

LEMMA SessionStepInv ==
    ASSUME AccountInv, NEW c \in Requests, SessionStep(c)
    PROVE  AccountInv'
<1>1. CASE \E e \in Emails : Register(c, e)
  BY <1>1, RegisterInv
<1>2. CASE Insert(c)
  BY <1>2, InsertInv
<1>3. CASE InsertRefused(c) \/ SessionRefused(c)
  BY <1>3, EndOnly DEF InsertRefused, SessionRefused
<1>4. CASE \E u \in UserIds : Login(c, u)
  BY <1>4, LoginInv
<1>5. CASE OpenSession(c)
  BY <1>5, OpenSessionInv
<1>6. CASE \E t \in TokenIds : Refresh(c, t)
  BY <1>6, RefreshInv
<1>7. CASE Claim(c)
  BY <1>7, ClaimInv
<1>8. CASE ClaimLost(c)
  BY <1>8, ClaimLostInv
<1>9. CASE \E t \in TokenIds : Logout(c, t)
  BY <1>9, LogoutInv
<1>10. CASE RevokeRead(c)
  BY <1>10, RevokeReadInv
<1>11. CASE RevokeWrite(c)
  BY <1>11, RevokeWriteInv
<1>12. CASE \E u \in UserIds : DeleteAccount(c, u)
  BY <1>12, DeleteAccountInv
<1>13. CASE Expunge(c)
  BY <1>13, ExpungeInv
<1> QED BY <1>1, <1>2, <1>3, <1>4, <1>5, <1>6, <1>7, <1>8, <1>9, <1>10, <1>11, <1>12, <1>13
        DEF SessionStep

LEMMA OAuthStepInv ==
    ASSUME AccountInv, NEW c \in Requests, OAuthStep(c)
    PROVE  AccountInv'
<1>1. CASE \E f \in FlowIds, p \in Providers : Callback(c, f, p)
  BY <1>1, CallbackInv
<1>2. CASE Consume(c)
  BY <1>2, ConsumeInv
<1>3. CASE \E s \in Subjects, e \in Emails \cup {None} : Exchange(c, s, e)
  BY <1>3, ExchangeInv
<1>4. CASE CompleteLink(c) \/ Identify(c)
  BY <1>4, CompleteLinkInv
<1>5. CASE LoginKnown(c)
  BY <1>5, LoginKnownInv
<1>6. CASE LoginPending(c)
  BY <1>6, LoginPendingInv
<1>7. CASE LoginRegister(c)
  BY <1>7, LoginRegisterInv
<1>8. CASE LoginRefused(c)
  BY <1>8, EndOnly DEF LoginRefused
<1>9. CASE \E x \in pendings : Confirm(c, x)
  BY <1>9, ConfirmInv
<1>10. CASE ConfirmCommit(c)
  BY <1>10, ConfirmCommitInv
<1>11. CASE \E i \in IdentityIds : Unlink(c, i)
  BY <1>11, UnlinkInv
<1>12. CASE UnlinkCommit(c)
  BY <1>12, UnlinkCommitInv
<1> QED BY <1>1, <1>2, <1>3, <1>4, <1>5, <1>6, <1>7, <1>8, <1>9, <1>10, <1>11, <1>12
        DEF OAuthStep

LEMMA NextInv ==
    ASSUME AccountInv, [Next]_vars
    PROVE  AccountInv'
<1>1. CASE \E c \in Requests : SessionStep(c) \/ OAuthStep(c) \/ Crash(c)
  <2>1. PICK c \in Requests : SessionStep(c) \/ OAuthStep(c) \/ Crash(c)
    BY <1>1
  <2>2. CASE Crash(c)
    BY <2>2, EndOnly DEF Crash
  <2> QED BY <2>1, <2>2, SessionStepInv, OAuthStepInv
<1>2. CASE Environment
  BY <1>2, ApproveEmailInv, StartFlowInv DEF Environment
<1>3. CASE UNCHANGED vars
  BY <1>3, TablesKept DEF vars, oauth, AccountInv, TypeOK, RequestsOK
<1> QED BY <1>1, <1>2, <1>3 DEF Next

\* The invariant: the tables agree with one another, and every request has
\* read what its stage needs.
THEOREM AccountInvariance == Spec => []AccountInv
<1>1. Init => AccountInv
  BY InitInv
<1>2. AccountInv /\ [Next]_vars => AccountInv'
  BY NextInv
<1> QED BY <1>1, <1>2, PTL DEF Spec

\* Columns and local variables have their types (the rows the routes of
\* auth/service.py and oauth_service.py write).
THEOREM AccountTypeCorrect == Spec => []TypeOK
BY AccountInvariance, PTL DEF AccountInv

\* refresh: a family has at most one token that would be honoured, however
\* many requests rotate, replay and revoke at once.
THEOREM OpenTokenUnique == Spec => []OneOpenToken
<1>1. AccountInv => OneOpenToken
  BY DEF AccountInv, FamilyOK, OneOpenToken, Open
<1> QED BY <1>1, AccountInvariance, PTL

\* Addresses and external identities lead to one account, whatever
\* registrations, callbacks and confirmations race.
THEOREM AccountsUnique == Spec => []OneAccount
BY AccountInvariance, PTL DEF AccountInv

\* delete_account: no row refers to an account that is gone, also when a
\* sign-in or a link of it was half done.
THEOREM DeletionIsComplete == Spec => []DeletedIsGone
BY AccountInvariance, PTL DEF AccountInv

-----------------------------------------------------------------------------
(* A closed family stays closed                                            *)

\* Requests that are about to claim were so before.
NoNewClaim == \A d \in Requests : req'[d].pc = "claim" => req'[d] = req[d]

LEMMA GotoNoClaim ==
    ASSUME TypeOK, NEW c \in Requests, NEW r, Goto(c, r), r.pc # "claim"
    PROVE  NoNewClaim
BY DEF TypeOK, Goto, NoNewClaim

LEMMA EndNoClaim ==
    ASSUME TypeOK, NEW c \in Requests, End(c)
    PROVE  NoNewClaim
BY GotoNoClaim DEF End, Idle

\* The family keeps its tokens, none of them becomes open, and nobody new is
\* about to claim one.
LEMMA ClosedStep ==
    ASSUME NEW f \in TokenIds, Closed(f), NoNewClaim, Members(f)' = Members(f),
           \A t \in Members(f) :
                /\ tokens'[t].used = tokens[t].used
                /\ tokens[t].revoked => tokens'[t].revoked
    PROVE  Closed(f)'
<1>1. \E t \in Members(f)' : tokens'[t].revoked
  BY DEF Closed
<1>2. \A t \in Members(f)' : ~(~tokens'[t].used /\ ~tokens'[t].revoked)
  BY DEF Closed, Open, Members
<1>3. \A d \in Requests : req'[d].pc = "claim" => req'[d].token \notin Members(f)'
  BY DEF Closed, NoNewClaim, At
<1> QED BY <1>1, <1>2, <1>3 DEF Closed, Open, At

LEMMA ClosedTokensKept ==
    ASSUME NEW f \in TokenIds, Closed(f), NoNewClaim, UNCHANGED tokens
    PROVE  Closed(f)'
<1>1. Members(f)' = Members(f)
  BY DEF Members, LiveTokens
<1> QED BY <1>1, ClosedStep

LEMMA RefreshKeepsClosed ==
    ASSUME AccountInv, NEW f \in TokenIds, Closed(f), NEW c \in Requests, NEW t \in TokenIds,
           Refresh(c, t)
    PROVE  Closed(f)'
<1> DEFINE r == [Idle EXCEPT !.token = t, !.pc = IF tokens[t].used THEN "revoke" ELSE "claim"]
<1>1. Goto(c, r) /\ UNCHANGED tokens /\ t \in LiveTokens /\ ~tokens[t].revoked
  BY DEF Refresh
<1>2. r.token = t /\ (r.pc = "claim" => ~tokens[t].used)
  BY DEF Idle
<1> HIDE DEF r
<1>3. t \in Members(f) => tokens[t].used
  BY <1>1 DEF Closed, Open
<1>4. Members(f)' = Members(f)
  BY <1>1 DEF Members, LiveTokens
<1>5. \A d \in Requests : req'[d] = IF d = c THEN r ELSE req[d]
  BY <1>1 DEF Goto, AccountInv, TypeOK
<1>6. \A d \in Requests : req'[d].pc = "claim" => req'[d].token \notin Members(f)
  BY <1>2, <1>3, <1>5 DEF Closed, At
<1>7. (\E s \in Members(f) : tokens[s].revoked) /\ (\A s \in Members(f) : ~Open(s))
  BY DEF Closed
<1>8. \A s : Open(s)' = Open(s)
  BY <1>1 DEF Open, LiveTokens
<1> QED BY <1>1, <1>4, <1>6, <1>7, <1>8 DEF Closed, At

LEMMA OpenSessionKeepsClosed ==
    ASSUME AccountInv, NEW f \in TokenIds, Closed(f), NEW c \in Requests, OpenSession(c)
    PROVE  Closed(f)'
<1>1. PICK n \in NextId(tokens, TokenIds) :
        tokens' = [tokens EXCEPT ![n] = Issued(n, req[c].user, None)]
  BY DEF OpenSession
<1>2. n \in TokenIds /\ tokens[n].row = "free"
  BY <1>1, NextIdFree
<1>3. tokens'[n].row = "live" /\ tokens'[n].family = n
  BY <1>1, <1>2 DEF Issued, AccountInv, TypeOK
<1>4. f # n
  BY <1>2 DEF Closed, Members, AccountInv, FamilyOK
<1>5. \A t \in TokenIds : t # n => tokens'[t] = tokens[t]
  BY <1>1 DEF AccountInv, TypeOK
<1>6. Members(f)' = Members(f) /\ n \notin Members(f)
  BY <1>2, <1>3, <1>4, <1>5 DEF Members, LiveTokens
<1>7. \A t \in Members(f) : tokens'[t] = tokens[t]
  BY <1>5, <1>6 DEF Members, LiveTokens
<1>8. req[c] \in RequestState /\ TypeOK
  BY DEF AccountInv, TypeOK
<1>9. [req[c] EXCEPT !.pc = "identify"].pc # "claim"
  BY <1>8 DEF RequestState
<1>10. NoNewClaim
  BY <1>8, <1>9, EndNoClaim, GotoNoClaim DEF OpenSession
<1> QED BY <1>6, <1>7, <1>10, ClosedStep

LEMMA ClaimKeepsClosed ==
    ASSUME AccountInv, NEW f \in TokenIds, Closed(f), NEW c \in Requests, Claim(c)
    PROVE  Closed(f)'
<1> DEFINE t == req[c].token
<1>1. PICK n \in NextId(tokens, TokenIds) :
        tokens' = [tokens EXCEPT ![t].used = TRUE,
                                 ![n] = Issued(n, tokens[t].user, tokens[t].family)]
  BY DEF Claim
<1>2. n \in TokenIds /\ tokens[n].row = "free"
  BY <1>1, NextIdFree
<1>3. t \in LiveTokens /\ t \notin Members(f) /\ End(c) /\ TypeOK
  BY DEF Claim, Claimable, Closed, At, AccountInv
<1>4. t \in TokenIds /\ t # n /\ tokens[t].family \in TokenIds /\ tokens[t].family # f
  BY <1>2, <1>3, LiveToken DEF Members, LiveTokens
<1>5. tokens'[n].family = tokens[t].family
  BY <1>1, <1>2, <1>4, NullAssumption DEF Issued, TypeOK, AccountInv
<1>6. tokens'[t].family = tokens[t].family
  BY <1>1, <1>2, <1>3, <1>4, LiveToken DEF TypeOK
<1>7. \A s \in TokenIds : s # t /\ s # n => tokens'[s] = tokens[s]
  BY <1>1 DEF AccountInv, TypeOK
<1> HIDE DEF t
<1>8. Members(f)' = Members(f) /\ n \notin Members(f)
  BY <1>2, <1>3, <1>4, <1>5, <1>6, <1>7 DEF Members, LiveTokens
<1>9. \A s \in Members(f) : tokens'[s] = tokens[s]
  BY <1>3, <1>7, <1>8 DEF Members, LiveTokens
<1>10. NoNewClaim
  BY <1>3, EndNoClaim
<1> QED BY <1>8, <1>9, <1>10, ClosedStep

LEMMA RevokeWriteKeepsClosed ==
    ASSUME AccountInv, NEW f \in TokenIds, Closed(f), NEW c \in Requests, RevokeWrite(c)
    PROVE  Closed(f)'
<1>1. NoNewClaim
  BY EndNoClaim DEF RevokeWrite, AccountInv
<1>2. CASE UNCHANGED tokens
  BY <1>1, <1>2, ClosedTokensKept
<1>3. CASE tokens' = [t \in TokenIds |-> [tokens[t] EXCEPT
                             !.revoked = @ \/ t \in req[c].family]]
  <2>1. \A t \in TokenIds : tokens[t] \in Token
    BY DEF AccountInv, TypeOK
  <2>2. ASSUME NEW t \in TokenIds
        PROVE  /\ tokens'[t].row = tokens[t].row /\ tokens'[t].family = tokens[t].family
               /\ tokens'[t].used = tokens[t].used
               /\ tokens'[t].revoked = (tokens[t].revoked \/ t \in req[c].family)
    BY <1>3, <2>1 DEF Token, NoToken, Gone
  <2>3. Members(f)' = Members(f)
    BY <2>2 DEF Members, LiveTokens
  <2>4. \A t \in Members(f) : t \in TokenIds
    BY DEF Members, LiveTokens
  <2> QED BY <1>1, <2>2, <2>3, <2>4, ClosedStep
<1> QED BY <1>2, <1>3 DEF RevokeWrite

\* The account takes its families away whole.
LEMMA ExpungeKeepsClosed ==
    ASSUME AccountInv, NEW f \in TokenIds, Closed(f), NEW c \in Requests, Expunge(c)
    PROVE  Closed(f)' \/ Members(f)' = {}
<1> DEFINE u == req[c].user
<1>1. tokens' = Cascade(tokens, TokenIds, u, NoToken) /\ NoNewClaim
  BY EndNoClaim DEF Expunge, AccountInv
<1>2. \A s, t \in Members(f) : tokens[s].user = tokens[t].user
  BY DEF AccountInv, FamilyOK, Members
<1>3. \A t \in TokenIds : tokens'[t] =
        IF tokens[t].row = "live" /\ tokens[t].user = u THEN Gone(NoToken) ELSE tokens[t]
  BY <1>1 DEF Cascade
<1>4. Gone(NoToken).row = "gone"
  BY DEF Gone, NoToken
<1> HIDE DEF u
<1>5. CASE \E t \in Members(f) : tokens[t].user = u
  <2>1. \A t \in Members(f) : tokens[t].user = u
    BY <1>2, <1>5
  <2> QED BY <1>3, <1>4, <2>1 DEF Members, LiveTokens
<1>6. CASE \A t \in Members(f) : tokens[t].user # u
  <2>1. Members(f)' = Members(f)
    BY <1>3, <1>4, <1>6 DEF Members, LiveTokens
  <2>2. \A t \in Members(f) : tokens'[t] = tokens[t]
    BY <1>3, <1>6 DEF Members, LiveTokens
  <2> QED BY <1>1, <2>1, <2>2, ClosedStep
<1> QED BY <1>5, <1>6

\* Every other step of a request leaves the tokens alone and claims nothing.
LEMMA OtherStep ==
    ASSUME AccountInv, NEW c \in Requests, SessionStep(c) \/ OAuthStep(c) \/ Crash(c)
    PROVE  \/ UNCHANGED tokens /\ NoNewClaim
           \/ \E t \in TokenIds : Refresh(c, t)
           \/ OpenSession(c) \/ Claim(c) \/ RevokeWrite(c) \/ Expunge(c)
<1>0. TypeOK /\ req[c] \in RequestState
  BY DEF AccountInv, TypeOK
<1>1. CASE \/ \E e \in Emails : Register(c, e)
           \/ \E u \in UserIds : Login(c, u)
           \/ \E t \in TokenIds : Logout(c, t)
           \/ \E u \in UserIds : DeleteAccount(c, u)
  BY <1>0, <1>1, GotoNoClaim DEF Register, Login, Logout, DeleteAccount, Idle
<1>2. CASE InsertRefused(c) \/ SessionRefused(c) \/ LoginRefused(c) \/ Crash(c)
  BY <1>0, <1>2, EndNoClaim DEF InsertRefused, SessionRefused, LoginRefused, Crash
<1>3. CASE Insert(c)
  BY <1>0, <1>3, GotoNoClaim DEF Insert, Idle
<1>4. CASE ClaimLost(c) \/ RevokeRead(c)
  <2>1. /\ [req[c] EXCEPT !.pc = "revoke"].pc # "claim"
        /\ \A F : [req[c] EXCEPT !.pc = "revoking", !.family = F].pc # "claim"
    BY <1>0 DEF RequestState
  <2> QED BY <1>0, <1>4, <2>1, GotoNoClaim DEF ClaimLost, RevokeRead
<1>5. CASE \/ \E f \in FlowIds, p \in Providers : Callback(c, f, p)
           \/ \E i \in IdentityIds : Unlink(c, i)
           \/ \E x \in pendings : Confirm(c, x)
           \/ LoginKnown(c)
  BY <1>0, <1>5, GotoNoClaim DEF Callback, Unlink, Confirm, LoginKnown, Idle
<1>6. CASE Consume(c)
  <2>1. [req[c] EXCEPT !.pc = "exchange", !.flow = None].pc # "claim"
    BY <1>0 DEF RequestState
  <2> QED BY <1>0, <1>6, <2>1, GotoNoClaim DEF Consume
<1>7. CASE \E s \in Subjects, e \in Emails \cup {None} : Exchange(c, s, e)
  <2>1. \A s, e : /\ [req[c] EXCEPT !.pc = "login", !.subject = s, !.email = e].pc # "claim"
                  /\ [req[c] EXCEPT !.pc = "link", !.subject = s].pc # "claim"
    BY <1>0 DEF RequestState
  <2> QED BY <1>0, <1>7, <2>1, GotoNoClaim DEF Exchange
<1>8. CASE CompleteLink(c) \/ Identify(c) \/ LoginPending(c) \/ UnlinkCommit(c)
  BY <1>0, <1>8, EndNoClaim DEF CompleteLink, Identify, LoginPending, UnlinkCommit
<1>9. CASE LoginRegister(c)
  <2>1. \A b : [req[c] EXCEPT !.pc = "insert", !.boot = b, !.user = None].pc # "claim"
    BY <1>0 DEF RequestState
  <2> QED BY <1>0, <1>9, <2>1, GotoNoClaim DEF LoginRegister
<1>10. CASE ConfirmCommit(c)
  <2>1. \A u : [Idle EXCEPT !.pc = "session", !.user = u].pc # "claim"
    BY DEF Idle
  <2> QED BY <1>0, <1>10, <2>1, EndNoClaim, GotoNoClaim DEF ConfirmCommit
<1> QED BY <1>1, <1>2, <1>3, <1>4, <1>5, <1>6, <1>7, <1>8, <1>9, <1>10
        DEF SessionStep, OAuthStep

LEMMA ClosedKept ==
    ASSUME AccountInv, [Next]_vars, NEW f \in TokenIds, Closed(f)
    PROVE  Closed(f)' \/ Members(f)' = {}
<1>1. CASE \E c \in Requests : SessionStep(c) \/ OAuthStep(c) \/ Crash(c)
  BY <1>1, OtherStep, ClosedTokensKept, RefreshKeepsClosed, OpenSessionKeepsClosed,
     ClaimKeepsClosed, RevokeWriteKeepsClosed, ExpungeKeepsClosed
<1>2. CASE Environment \/ UNCHANGED vars
  <2>1. UNCHANGED tokens /\ NoNewClaim
    BY <1>2 DEF Environment, ApproveEmail, StartFlow, vars, NoNewClaim
  <2> QED BY <2>1, ClosedTokensKept
<1> QED BY <1>1, <1>2 DEF Next

\* _revoke_family: once logout or reuse detection has closed a family and no
\* rotation of it is in flight, no order of requests opens it again.
THEOREM ClosedStaysClosed == Spec => ClosedForGood
<1>1. AccountInv /\ [Next]_vars
        => [\A f \in TokenIds : Closed(f) => Closed(f)' \/ Members(f)' = {}]_vars
  BY ClosedKept
<1> QED BY <1>1, AccountInvariance, PTL DEF Spec, ClosedForGood

=============================================================================
