------------------------------ MODULE Sessions ------------------------------
(***************************************************************************)
(* The account of one user: refresh tokens and their rotation, the session  *)
(* version that access tokens are checked against, and the links by which a *)
(* password is set (auth.service.ts, users.service.ts, middleware/auth.ts). *)
(*                                                                          *)
(* Every request is one transaction at a time under READ COMMITTED: an      *)
(* UPDATE sees the rows committed when it starts, then takes their locks    *)
(* one by one, in any order, and tests again each row it waited for. What a *)
(* transaction writes is seen when it commits. Tokens and links expire, and *)
(* a rotated token outlives its grace window, at any time: an expired one   *)
(* is one that nobody presents any more, its refusal changes nothing.       *)
(***************************************************************************)
EXTENDS Integers, FiniteSets

CONSTANTS
  Requests,     \* requests that may overlap
  Roles,        \* roles an administrator may give
  NoRole,       \* a change that leaves the role alone
  MaxIssued,    \* bound: refresh tokens and password links ever issued
  MaxVersion    \* bound: revocations of all sessions

ASSUME SessionsAssumption ==
  /\ IsFiniteSet(Requests)
  /\ Roles # {} /\ NoRole \notin Roles
  /\ {MaxIssued, MaxVersion} \subseteq Nat \ {0}

VARIABLES
  user,     \* the row of users
  tok,      \* refresh_tokens, numbered as they are committed
  access,   \* what one access token says, any of those signed so far
  link,     \* user_password_tokens, numbered as they are created
  req       \* what each request is doing, and the locks it holds

vars == <<user, tok, access, link, req>>

Tokens   == 1 .. MaxIssued
Links    == 1 .. MaxIssued
Purposes == {"invite", "reset"}

(* Rows that transactions lock. *)
UserRow == <<"user", 0>>
Tok(t)  == <<"tok", t>>
Lnk(l)  == <<"link", l>>
Rows    == {UserRow} \cup {Tok(t) : t \in Tokens} \cup {Lnk(l) : l \in Links}

(* password: 0 before the first one, then how often it was set. *)
UserRecord == [st : {"none", "active", "inactive", "deleted"}, role : Roles,
               version : Nat, password : Nat]

(* from: the token this one replaced, 0 for one issued by a login. *)
TokenRecord == [st : {"none", "active", "rotated", "revoked"}, from : {0} \cup Tokens]

(* sent: the provider took its email. used: 0, or once the link has set a   *)
(* password, the newest link there was when all open ones were consumed.    *)
LinkRecord == [st : {"none", "open", "consumed", "deleted"}, purpose : Purposes,
               sent : BOOLEAN, used : {0} \cup Links]

(* What login and refresh read of the user before they sign. *)
Claims == [version : Nat, role : Roles \cup {NoRole}, password : Nat]
NoClaims == [version |-> 0, role |-> NoRole, password |-> 0]

Operations == {"none", "login", "refresh", "update", "revoke", "password", "send"}
Places == {"idle", "verified", "stamped", "found", "inserted", "rotated",
           "claimed", "user", "tokens", "revoking", "links", "consuming",
           "sending", "failed"}

(* What an administrator changes: the role or the access (updateUser), or   *)
(* the status (bulkUpdateUserStatus; deactivateUser revokes a second time   *)
(* after updateUser has committed).                                         *)
Change(st, role, again) == [st |-> st, role |-> role, again |-> again]
NoChange == Change("same", NoRole, FALSE)
Changes == {Change("same", role, FALSE) : role \in Roles}
             \cup {Change("active", NoRole, FALSE)}
             \cup {Change("inactive", NoRole, again) : again \in BOOLEAN}

RequestRecord == [op : Operations, at : Places, tok : {0} \cup Tokens,
                  link : {0} \cup Links, read : Claims, change : Changes \cup {NoChange},
                  todo : SUBSET Rows, locks : SUBSET Rows,
                  newest : {0} \cup Links, created : BOOLEAN]

TypeOK ==
  /\ user \in UserRecord
  /\ tok \in [Tokens -> TokenRecord]
  /\ access \in Claims
  /\ link \in [Links -> LinkRecord]
  /\ req \in [Requests -> RequestRecord]

Seen == [version |-> user.version, role |-> user.role, password |-> user.password]

Idle == [op |-> "none", at |-> "idle", tok |-> 0, link |-> 0,
         read |-> NoClaims, change |-> NoChange, todo |-> {}, locks |-> {}, newest |-> 0, created |-> FALSE]

NoToken == [st |-> "none", from |-> 0]
NoLink  == [st |-> "none", purpose |-> "reset", sent |-> FALSE, used |-> 0]

(* Either nobody, or an account that registerSuperAdmin or an earlier       *)
(* invitation left behind.                                                  *)
Init ==
  /\ \E role \in Roles, st \in {"none", "active"} :
       user = [st |-> st, role |-> role, version |-> 0,
               password |-> IF st = "none" THEN 0 ELSE 1]
  /\ tok = [t \in Tokens |-> NoToken]
  /\ access = NoClaims
  /\ link = [l \in Links |-> NoLink]
  /\ req = [r \in Requests |-> Idle]

Exists == user.st \in {"active", "inactive"}
Free(row, r) == \A q \in Requests \ {r} : row \notin req[q].locks

Go(r, place)   == req' = [req EXCEPT ![r].at = place]
Lock(r, row, place) ==
  req' = [req EXCEPT ![r].at = place, ![r].locks = @ \cup {row}]
Stop(r) == req' = [req EXCEPT ![r] = Idle]

At(r, op, place) == req[r].op = op /\ req[r].at = place

UsedTokens == {t \in Tokens : tok[t].st # "none"}
UsedLinks  == {l \in Links : link[l].st # "none"}
NextToken  == Cardinality(UsedTokens) + 1
NextLink   == Cardinality(UsedLinks) + 1
RoomToIssue == Cardinality(UsedTokens) + Cardinality(UsedLinks) < MaxIssued

(* A new session: the token is committed, the access token says what was    *)
(* read when the request began.                                             *)
Issue(read, from, others) ==
  /\ RoomToIssue
  /\ tok' = [others EXCEPT ![NextToken] = [st |-> "active", from |-> from]]
  /\ access' \in {access, read}

Revokers == {r \in Requests : req[r].op \in {"update", "revoke", "password"}}
RoomToRevoke == user.version + Cardinality(Revokers) < MaxVersion

---------------------------------------------------------------------------
(* Login and refresh. *)

LoginBegin(r) ==
  /\ req[r].at = "idle"
  /\ user.st = "active" /\ user.password > 0
  /\ req' = [req EXCEPT ![r] = [Idle EXCEPT !.op = "login", !.at = "verified", !.read = Seen]]
  /\ UNCHANGED <<user, tok, access, link>>

(* last_login_at, by the id alone. *)
LoginStamp(r) ==
  /\ At(r, "login", "verified")
  /\ Free(UserRow, r)
  /\ Go(r, "stamped")
  /\ UNCHANGED <<user, tok, access, link>>

(* Mutant: the version is read again before signing. *)
LoginIssueFresh(r) ==
  /\ At(r, "login", "stamped")
  /\ Exists
  /\ Issue([req[r].read EXCEPT !.version = user.version], 0, tok)
  /\ Stop(r)
  /\ UNCHANGED <<user, link>>

LoginIssue(r) ==
  /\ At(r, "login", "stamped")
  /\ Exists
  /\ Issue(req[r].read, 0, tok)
  /\ Stop(r)
  /\ UNCHANGED <<user, link>>

(* The look-up of the presented token, outside the transaction. A rotated   *)
(* one is refused, and after the grace window everything is revoked.        *)
RefreshLookup(r, t) ==
  /\ req[r].at = "idle"
  /\ \/ /\ tok[t].st = "active"
        /\ req' = [req EXCEPT ![r] = [Idle EXCEPT !.op = "refresh", !.at = "found", !.tok = t]]
     \/ /\ tok[t].st = "rotated" /\ RoomToRevoke
        /\ req' = [req EXCEPT ![r] = [Idle EXCEPT !.op = "revoke", !.at = "tokens"]]
  /\ UNCHANGED <<user, tok, access, link>>

RefreshBegin(r) ==
  /\ At(r, "refresh", "found")
  /\ IF user.st = "active"
     THEN req' = [req EXCEPT ![r].at = "inserted", ![r].read = Seen]
     ELSE Stop(r)
  /\ UNCHANGED <<user, tok, access, link>>

(* Mutant: only a revoked token is refused. *)
RotatableUnlessRevoked(t) == tok[t].st # "revoked"

(* Of two refreshes with one token only one can rotate it. *)
Rotatable(t) == tok[t].st = "active"

RefreshRotate(r) ==
  LET t == req[r].tok IN
  /\ At(r, "refresh", "inserted")
  /\ Free(Tok(t), r)
  /\ IF Rotatable(t) THEN Lock(r, Tok(t), "rotated") ELSE Stop(r)
  /\ UNCHANGED <<user, tok, access, link>>

RefreshCommit(r) ==
  LET t == req[r].tok IN
  /\ At(r, "refresh", "rotated")
  /\ Issue(req[r].read, t, [tok EXCEPT ![t].st = "rotated"])
  /\ Stop(r)
  /\ UNCHANGED <<user, link>>

(* Mutant: logging out lets the token expire. *)
LogoutExpired(t) ==
  /\ tok[t].st # "none"
  /\ \A r \in Requests : Tok(t) \notin req[r].locks
  /\ tok' = [tok EXCEPT ![t].st = "expired"]
  /\ UNCHANGED <<user, access, link, req>>

(* Logging out revokes the presented token whatever became of it. *)
Logout(t) ==
  /\ tok[t].st # "none"
  /\ \A r \in Requests : Tok(t) \notin req[r].locks
  /\ tok' = [tok EXCEPT ![t].st = "revoked"]
  /\ UNCHANGED <<user, access, link, req>>

---------------------------------------------------------------------------
(* Revoking all sessions. updateUser and bulkUpdateUserStatus lock the user *)
(* first and the tokens next, revokeAllUserSessions the other way round,    *)
(* and setPasswordWithToken holds a link before both.                       *)

UpdateBegin(r, change) ==
  /\ req[r].at = "idle" /\ Exists /\ RoomToRevoke
  /\ req' = [req EXCEPT ![r] = [Idle EXCEPT !.op = "update", !.at = "user", !.change = change]]
  /\ UNCHANGED <<user, tok, access, link>>

RevokedAll(r, op) == At(r, op, "revoking") /\ req[r].todo = {}

(* A status of "active" alone revokes nothing. *)
Reactivate ==
  /\ user.st = "inactive"
  /\ \A r \in Requests : UserRow \notin req[r].locks
  /\ user' = [user EXCEPT !.st = "active"]
  /\ UNCHANGED <<tok, access, link, req>>

WantsUser(r) ==
  \/ req[r].at = "user"
  \/ RevokedAll(r, "revoke") /\ UserRow \notin req[r].locks

LockUser(r) ==
  /\ WantsUser(r)
  /\ Free(UserRow, r)
  /\ IF Exists THEN Lock(r, UserRow, IF req[r].op = "revoke" THEN "revoking" ELSE "tokens")
               ELSE Stop(r)
  /\ UNCHANGED <<user, tok, access, link>>

RevokeBegin(r) ==
  /\ req[r].at = "tokens"
  /\ req' = [req EXCEPT ![r].at = "revoking", ![r].todo = {Tok(t) : t \in UsedTokens}]
  /\ UNCHANGED <<user, tok, access, link>>

RevokeRow(r, t) ==
  /\ req[r].at = "revoking"
  /\ Tok(t) \in req[r].todo /\ Free(Tok(t), r)
  /\ req' = [req EXCEPT ![r].todo = @ \ {Tok(t)}, ![r].locks = @ \cup {Tok(t)}]
  /\ UNCHANGED <<user, tok, access, link>>

Revoked(r) == [t \in Tokens |-> IF Tok(t) \in req[r].locks
                                 THEN [tok[t] EXCEPT !.st = "revoked"] ELSE tok[t]]

Bumped == user.version + 1

CommitUpdate(r) ==
  /\ RevokedAll(r, "update")
  /\ LET change == req[r].change IN
     user' = [user EXCEPT !.st = IF change.st = "same" THEN @ ELSE change.st,
                          !.role = IF change.role = NoRole THEN @ ELSE change.role,
                          !.version = Bumped]
  /\ tok' = Revoked(r)
  /\ req' = [req EXCEPT ![r] = IF req[r].change.again /\ Bumped < MaxVersion
                               THEN [Idle EXCEPT !.op = "revoke", !.at = "tokens"] ELSE Idle]
  /\ UNCHANGED <<access, link>>

CommitRevoke(r) ==
  /\ RevokedAll(r, "revoke") /\ UserRow \in req[r].locks
  /\ user' = [user EXCEPT !.version = Bumped]
  /\ tok' = Revoked(r)
  /\ Stop(r)
  /\ UNCHANGED <<access, link>>

---------------------------------------------------------------------------
(* Password links: issued, emailed, then the older ones are retired. *)

IssueLink(r, purpose, created) ==
  /\ RoomToIssue
  /\ link' = [link EXCEPT ![NextLink] = [NoLink EXCEPT !.st = "open", !.purpose = purpose]]
  /\ req' = [req EXCEPT ![r] = [Idle EXCEPT !.op = "send", !.at = "sending",
                                            !.link = NextLink, !.created = created]]

(* createUser: the account is committed before its invitation is sent. *)
CreateUser(r, role) ==
  /\ req[r].at = "idle" /\ user.st = "none"
  /\ user' = [user EXCEPT !.st = "active", !.role = role]
  /\ IssueLink(r, "invite", TRUE)
  /\ UNCHANGED <<tok, access>>

SendReset(r) ==
  /\ req[r].at = "idle" /\ Exists
  /\ IssueLink(r, "reset", FALSE)
  /\ UNCHANGED <<user, tok, access>>

SendAccepted(r) ==
  /\ At(r, "send", "sending")
  /\ link' = [link EXCEPT ![req[r].link].sent = TRUE]
  /\ Go(r, "links")
  /\ UNCHANGED <<user, tok, access>>

(* The link of a failed send is deleted, and with it the account that was   *)
(* created for it.                                                          *)
SendFailed(r) ==
  /\ At(r, "send", "sending")
  /\ Free(Lnk(req[r].link), r)
  /\ link' = [link EXCEPT ![req[r].link].st = "deleted"]
  /\ IF req[r].created THEN Go(r, "failed") ELSE Stop(r)
  /\ UNCHANGED <<user, tok, access>>

(* The foreign keys delete the tokens and links of a deleted user: nobody   *)
(* finds them again.                                                        *)
Cascade ==
  /\ tok' = [t \in Tokens |-> IF t \in UsedTokens THEN [tok[t] EXCEPT !.st = "revoked"] ELSE tok[t]]
  /\ link' = [l \in Links |-> IF l \in UsedLinks THEN [link[l] EXCEPT !.st = "deleted"] ELSE link[l]]

DeleteUser(r) ==
  /\ At(r, "send", "failed")
  /\ \A row \in Rows : Free(row, r)
  /\ user' = [user EXCEPT !.st = "deleted"]
  /\ Cascade
  /\ Stop(r)
  /\ UNCHANGED access

SetClaim(r, l) ==
  /\ req[r].at = "idle" /\ RoomToRevoke
  /\ link[l].st = "open" /\ Free(Lnk(l), r)
  /\ req' = [req EXCEPT ![r] = [Idle EXCEPT !.op = "password", !.at = "claimed",
                                            !.link = l, !.locks = {Lnk(l)}]]
  /\ UNCHANGED <<user, tok, access, link>>

SetFindUser(r) ==
  /\ At(r, "password", "claimed")
  /\ IF user.st = "active" THEN Go(r, "user") ELSE Stop(r)
  /\ UNCHANGED <<user, tok, access, link>>

(* Mutant: a send retires every other link of its purpose. *)
ToConsumeOthers(r) == {l \in Links \ {req[r].link} :
  /\ link[l].st = "open"
  /\ req[r].op = "send" => link[l].purpose = link[req[r].link].purpose}

(* What the second UPDATE of the links wants: a send retires the older ones *)
(* of its purpose, a new password all that are open.                        *)
ToConsume(r) == {l \in Links \ {req[r].link} :
  /\ link[l].st = "open"
  /\ req[r].op = "send" => l < req[r].link /\ link[l].purpose = link[req[r].link].purpose}

ConsumeBegin(r) ==
  /\ At(r, "send", "links") \/ RevokedAll(r, "password")
  /\ req' = [req EXCEPT ![r].at = "consuming", ![r].todo = {Lnk(l) : l \in ToConsume(r)},
                        ![r].newest = IF req[r].op = "password" THEN NextLink - 1 ELSE 0]
  /\ UNCHANGED <<user, tok, access, link>>

ConsumeRow(r, l) ==
  /\ req[r].at = "consuming"
  /\ Lnk(l) \in req[r].todo /\ Free(Lnk(l), r)
  /\ req' = [req EXCEPT ![r].todo = @ \ {Lnk(l)},
                        ![r].locks = IF link[l].st = "open" THEN @ \cup {Lnk(l)} ELSE @]
  /\ UNCHANGED <<user, tok, access, link>>

ConsumedAll(r, op) == At(r, op, "consuming") /\ req[r].todo = {}

Consumed(r) == [l \in Links |-> IF Lnk(l) \in req[r].locks
                                 THEN [link[l] EXCEPT !.st = "consumed"] ELSE link[l]]

CommitSend(r) ==
  /\ ConsumedAll(r, "send")
  /\ link' = Consumed(r)
  /\ Stop(r)
  /\ UNCHANGED <<user, tok, access>>

CommitPassword(r) ==
  /\ ConsumedAll(r, "password")
  /\ user' = [user EXCEPT !.password = @ + 1, !.version = Bumped]
  /\ tok' = Revoked(r)
  /\ link' = [Consumed(r) EXCEPT ![req[r].link].used = req[r].newest]
  /\ Stop(r)
  /\ UNCHANGED access

---------------------------------------------------------------------------
(* What fails. *)

(* A process is lost, a statement fails or PostgreSQL breaks a deadlock: the *)
(* transaction is rolled back, what was committed before stays.             *)
Dies(r) ==
  /\ req[r].at # "idle"
  /\ Stop(r)
  /\ UNCHANGED <<user, tok, access, link>>

---------------------------------------------------------------------------
RequestStep(r) ==
  \/ LoginBegin(r) \/ LoginStamp(r) \/ LoginIssue(r)
  \/ \E t \in Tokens : RefreshLookup(r, t) \/ RevokeRow(r, t)
  \/ RefreshBegin(r) \/ RefreshRotate(r) \/ RefreshCommit(r)
  \/ \E change \in Changes : UpdateBegin(r, change)
  \/ LockUser(r) \/ RevokeBegin(r) \/ CommitUpdate(r) \/ CommitRevoke(r)
  \/ \E role \in Roles : CreateUser(r, role)
  \/ SendReset(r) \/ SendAccepted(r) \/ SendFailed(r) \/ DeleteUser(r) \/ CommitSend(r)
  \/ \E l \in Links : SetClaim(r, l) \/ ConsumeRow(r, l)
  \/ SetFindUser(r) \/ ConsumeBegin(r) \/ CommitPassword(r)
  \/ Dies(r)

Next ==
  \/ \E r \in Requests : RequestStep(r)
  \/ \E t \in Tokens : Logout(t)
  \/ Reactivate

Spec == Init /\ [][Next]_vars

---------------------------------------------------------------------------
(* Of several refreshes with one token a single one replaces it, and what   *)
(* was replaced is not used again: of the tokens that go back to one login  *)
(* one at most is active, however refreshes, logouts and revocations meet   *)
(* (auth.service.ts:321).                                                   *)
OneLiveEnd == \A t \in Tokens :
  LET heirs == {s \in Tokens : tok[s].from = t} IN
    /\ Cardinality(heirs) <= 1
    /\ heirs # {} => tok[t].st # "active"

(* An access token that requireAuth lets pass says the role the user has,   *)
(* and was signed under the password the user has: login and refresh sign   *)
(* what they read long before, and a change in between has to have moved    *)
(* the version (middleware/auth.ts:27, users.service.ts:621).               *)
Accepted == /\ access # NoClaims /\ user.st = "active"
            /\ access.version = user.version
AccessIsCurrent ==
  Accepted => access.role = user.role /\ access.password = user.password

(* Of the links that were open at one time a single one sets a password,    *)
(* even when two are used at once: each holds its link, so the one that     *)
(* reaches the user second cannot go on (auth.service.ts:540).              *)
OneLinkPerPassword == \A k, l \in Links :
  k < l /\ link[k].used > 0 /\ link[l].used > 0 => link[k].used < l

(* Whatever sends overlap, succeed or fail: once a link of a purpose was    *)
(* delivered and no password was set since, a delivered link of that        *)
(* purpose is open (auth.service.ts:404).                                   *)
DeliveredLinkWorks == \A l \in Links :
  Exists /\ link[l].sent /\ (\A k \in Links : link[k].used < l) =>
    \E m \in Links : /\ m >= l /\ link[m].st = "open" /\ link[m].sent
                    /\ link[m].purpose = link[l].purpose

(* A user with a delivered link can set a password, and with one link only. *)
LinksWork == OneLinkPerPassword /\ DeliveredLinkWorks
=============================================================================
