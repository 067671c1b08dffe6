-------------------------- MODULE Sessions_proofs --------------------------
(* Sessions and password links, for every set of overlapping requests,      *)
(* every set of roles and every number of tokens, links and revocations.    *)
EXTENDS Sessions, FiniteSetTheorems, TLAPS

-----------------------------------------------------------------------------
(* Rows, and the numbers of tokens and links *)

LEMMA RowsDiffer ==
  /\ UserRow \in Rows
  /\ \A t \in Tokens : Tok(t) \in Rows
  /\ \A l \in Links : Lnk(l) \in Rows
  /\ \A t : Tok(t) # UserRow
  /\ \A l : Lnk(l) # UserRow
  /\ \A t, l : Tok(t) # Lnk(l)
  /\ \A t, u : Tok(t) = Tok(u) => t = u
  /\ \A l, m : Lnk(l) = Lnk(m) => l = m
  BY DEF Rows, UserRow, Tok, Lnk

(* Tokens and links are numbered without a gap. *)
Numbered ==
  /\ \E n \in 0..MaxIssued : UsedTokens = 1..n
  /\ \E n \in 0..MaxIssued : UsedLinks = 1..n
  /\ \A t \in Tokens : tok[t].st = "none" => tok[t] = NoToken
  /\ \A l \in Links : link[l].st = "none" => link[l] = NoLink

(* Requests lock, and work on, rows that exist, and a row is locked by one. *)
Existing == \A r \in Requests :
  /\ \A t \in Tokens : Tok(t) \in req[r].todo \cup req[r].locks => t \in UsedTokens
  /\ \A l \in Links : Lnk(l) \in req[r].todo \cup req[r].locks => l \in UsedLinks
  /\ req[r].op = "refresh" => req[r].tok \in UsedTokens
  /\ req[r].op \in {"send", "password"} => req[r].link \in UsedLinks

Exclusive == \A q, r \in Requests : q # r => req[q].locks \cap req[r].locks = {}

Base == TypeOK /\ Numbered /\ Existing /\ Exclusive

LEMMA Counted ==
  ASSUME NEW S, NEW n \in Nat, S = 1..n
  PROVE  Cardinality(S) = n
<1>1. Cardinality(1..n) = n - 1 + 1
  BY FS_Interval
<1> QED BY <1>1

(* The next number is free, and comes right after the others. *)
LEMMA NextNumbers ==
  ASSUME Base
  PROVE  /\ NextToken \in Nat \ {0} /\ NextLink \in Nat \ {0}
         /\ NextToken \notin UsedTokens /\ NextLink \notin UsedLinks
         /\ UsedTokens = 1..(NextToken - 1) /\ UsedLinks = 1..(NextLink - 1)
         /\ NextLink - 1 \in {0} \cup Links
         /\ RoomToIssue => NextToken \in Tokens /\ NextLink \in Links
<1>1. PICK n \in 0..MaxIssued : UsedTokens = 1..n
  BY DEF Base, Numbered
<1>2. PICK m \in 0..MaxIssued : UsedLinks = 1..m
  BY DEF Base, Numbered
<1>3. n \in Nat /\ m \in Nat /\ MaxIssued \in Nat
  BY <1>1, <1>2, SessionsAssumption
<1>4. Cardinality(UsedTokens) = n /\ Cardinality(UsedLinks) = m
  BY <1>1, <1>2, <1>3, Counted
<1>5. NextToken = n + 1 /\ NextLink = m + 1
  BY <1>4 DEF NextToken, NextLink
<1>6. RoomToIssue => n + m < MaxIssued
  BY <1>4 DEF RoomToIssue
<1> QED BY <1>1, <1>2, <1>3, <1>5, <1>6 DEF Tokens, Links

(* What a change may hold. *)
LEMMA ChangeIs ==
  \A change \in Changes \cup {NoChange} :
    /\ change.st \in {"same", "active", "inactive"}
    /\ change.role \in Roles \cup {NoRole}
    /\ change.again \in BOOLEAN
<1> SUFFICES ASSUME NEW change \in Changes \cup {NoChange}
             PROVE  /\ change.st \in {"same", "active", "inactive"}
                    /\ change.role \in Roles \cup {NoRole}
                    /\ change.again \in BOOLEAN
  OBVIOUS
<1>1. \E st \in {"same", "active", "inactive"}, role \in Roles \cup {NoRole}, again \in BOOLEAN :
        change = [st |-> st, role |-> role, again |-> again]
  BY DEF Changes, NoChange, Change
<1> QED BY <1>1

LEMMA IdleIs ==
  /\ Idle \in RequestRecord
  /\ Idle.op = "none" /\ Idle.at = "idle" /\ Idle.todo = {} /\ Idle.locks = {}
  /\ Idle.read = NoClaims
  BY DEF Idle, RequestRecord, Operations, Places, Claims, NoClaims

LEMMA SeenIs ==
  TypeOK => Seen \in Claims /\ Seen # NoClaims
  BY SessionsAssumption DEF TypeOK, Seen, Claims, NoClaims, UserRecord

-----------------------------------------------------------------------------
(* Types *)

LEMMA InitBase == Init => Base
<1> SUFFICES ASSUME Init PROVE Base
  OBVIOUS
<1>1. user \in UserRecord
  BY DEF Init, UserRecord
<1>2. access \in Claims
  BY DEF Init, Claims, NoClaims
<1>3. tok \in [Tokens -> TokenRecord] /\ \A t \in Tokens : tok[t] = NoToken /\ tok[t].st = "none"
  BY DEF Init, NoToken, TokenRecord
<1>4. link \in [Links -> LinkRecord] /\ \A l \in Links : link[l] = NoLink /\ link[l].st = "none"
  BY DEF Init, NoLink, LinkRecord, Purposes
<1>5. req \in [Requests -> RequestRecord]
  BY IdleIs DEF Init
<1>6. UsedTokens = 1..0 /\ UsedLinks = 1..0
  BY <1>3, <1>4 DEF UsedTokens, UsedLinks
<1>7. 0 \in 0..MaxIssued
  BY SessionsAssumption
<1>8. Existing /\ Exclusive
  BY IdleIs DEF Init, Existing, Exclusive
<1> QED BY <1>1, <1>2, <1>3, <1>4, <1>5, <1>6, <1>7, <1>8 DEF Base, TypeOK, Numbered

(* A step of a request touches no other request. *)
OnlyBy(r) ==
  /\ req' \in [Requests -> RequestRecord]
  /\ \A q \in Requests : q # r => req'[q] = req[q]

LEMMA StepReq ==
  ASSUME Base, NEW r \in Requests, RequestStep(r)
  PROVE  OnlyBy(r)
<1>0. req \in [Requests -> RequestRecord] /\ req[r] \in RequestRecord
  BY DEF Base, TypeOK
<1>1. ASSUME NEW new \in RequestRecord, req' = [req EXCEPT ![r] = new] PROVE OnlyBy(r)
  BY <1>0, <1>1 DEF OnlyBy
<1>2. ASSUME Stop(r) PROVE OnlyBy(r)
  BY <1>1, <1>2, IdleIs DEF Stop
<1>3. ASSUME NEW place \in Places, Go(r, place) PROVE OnlyBy(r)
  BY <1>0, <1>3 DEF Go, RequestRecord, OnlyBy
<1>4. ASSUME NEW place \in Places, NEW row \in Rows, Lock(r, row, place) PROVE OnlyBy(r)
  BY <1>0, <1>4 DEF Lock, RequestRecord, OnlyBy
<1>5. /\ NextLink - 1 \in {0} \cup Links
      /\ RoomToIssue => NextLink \in Links
  BY NextNumbers
<1>6. CASE LoginBegin(r)
  <2>1. [Idle EXCEPT !.op = "login", !.at = "verified", !.read = Seen] \in RequestRecord
    BY IdleIs, SeenIs DEF Base, RequestRecord, Operations, Places
  <2> QED BY <1>1, <1>6, <2>1 DEF LoginBegin
<1>7. CASE LoginStamp(r)
  BY <1>3, <1>7 DEF LoginStamp, Places
<1>8. CASE LoginIssue(r)
  BY <1>2, <1>8 DEF LoginIssue
<1>9. ASSUME NEW t \in Tokens, RefreshLookup(r, t) PROVE OnlyBy(r)
  <2>1. [Idle EXCEPT !.op = "refresh", !.at = "found", !.tok = t] \in RequestRecord
    BY IdleIs DEF RequestRecord, Operations, Places
  <2>2. [Idle EXCEPT !.op = "revoke", !.at = "tokens"] \in RequestRecord
    BY IdleIs DEF RequestRecord, Operations, Places
  <2> QED BY <1>1, <1>9, <2>1, <2>2 DEF RefreshLookup
<1>10. ASSUME NEW t \in Tokens, RevokeRow(r, t) PROVE OnlyBy(r)
  <2>1. Tok(t) \in Rows
    BY RowsDiffer
  <2> QED BY <1>0, <1>10, <2>1 DEF RevokeRow, RequestRecord, OnlyBy
<1>11. CASE RefreshBegin(r)
  <2>1. CASE user.st = "active"
    <3>1. [req[r] EXCEPT !.at = "inserted", !.read = Seen] \in RequestRecord
      BY <1>0, SeenIs DEF Base, RequestRecord, Places
    <3>2. req' = [req EXCEPT ![r] = [req[r] EXCEPT !.at = "inserted", !.read = Seen]]
      BY <1>0, <1>11, <2>1 DEF RefreshBegin
    <3> QED BY <1>1, <3>1, <3>2
  <2>2. CASE user.st # "active"
    BY <1>2, <1>11, <2>2 DEF RefreshBegin
  <2> QED BY <2>1, <2>2
<1>12. CASE RefreshRotate(r)
  <2>1. CASE Rotatable(req[r].tok)
    <3>1. req[r].tok \in Tokens
      BY <1>0, <1>12 DEF RefreshRotate, At, Base, Existing, UsedTokens
    <3> QED BY <1>4, <1>12, <2>1, <3>1, RowsDiffer DEF RefreshRotate, Places
  <2>2. CASE ~Rotatable(req[r].tok)
    BY <1>2, <1>12, <2>2 DEF RefreshRotate
  <2> QED BY <2>1, <2>2
<1>13. CASE RefreshCommit(r)
  BY <1>2, <1>13 DEF RefreshCommit
<1>14. ASSUME NEW change \in Changes, UpdateBegin(r, change) PROVE OnlyBy(r)
  <2>1. [Idle EXCEPT !.op = "update", !.at = "user", !.change = change] \in RequestRecord
    BY IdleIs DEF RequestRecord, Operations, Places
  <2> QED BY <1>1, <1>14, <2>1 DEF UpdateBegin
<1>15. CASE LockUser(r)
  <2>1. CASE Exists
    BY <1>4, <1>15, <2>1, RowsDiffer DEF LockUser, Places
  <2>2. CASE ~Exists
    BY <1>2, <1>15, <2>2 DEF LockUser
  <2> QED BY <2>1, <2>2
<1>16. CASE RevokeBegin(r)
  <2>1. {Tok(t) : t \in UsedTokens} \subseteq Rows
    BY RowsDiffer DEF UsedTokens
  <2> QED BY <1>0, <1>16, <2>1 DEF RevokeBegin, RequestRecord, OnlyBy, Places
<1>17. CASE CommitUpdate(r)
  <2>1. [Idle EXCEPT !.op = "revoke", !.at = "tokens"] \in RequestRecord
    BY IdleIs DEF RequestRecord, Operations, Places
  <2> QED BY <1>1, <1>17, <2>1, IdleIs DEF CommitUpdate
<1>18. CASE CommitRevoke(r)
  BY <1>2, <1>18 DEF CommitRevoke
<1>19. ASSUME NEW purpose, NEW created \in BOOLEAN, IssueLink(r, purpose, created) PROVE OnlyBy(r)
  <2>1. [Idle EXCEPT !.op = "send", !.at = "sending", !.link = NextLink,
                     !.created = created] \in RequestRecord
    BY <1>5, <1>19, IdleIs DEF IssueLink, RequestRecord, Operations, Places
  <2> QED BY <1>1, <1>19, <2>1 DEF IssueLink
<1>20. ASSUME NEW role \in Roles, CreateUser(r, role) PROVE OnlyBy(r)
  BY <1>19, <1>20 DEF CreateUser
<1>21. CASE SendReset(r)
  BY <1>19, <1>21 DEF SendReset
<1>22. CASE SendAccepted(r)
  BY <1>3, <1>22 DEF SendAccepted, Places
<1>23. CASE SendFailed(r)
  BY <1>2, <1>3, <1>23 DEF SendFailed, Places
<1>24. CASE DeleteUser(r)
  BY <1>2, <1>24 DEF DeleteUser
<1>25. CASE CommitSend(r)
  BY <1>2, <1>25 DEF CommitSend
<1>26. ASSUME NEW l \in Links, SetClaim(r, l) PROVE OnlyBy(r)
  <2>0. {Lnk(l)} \in SUBSET Rows
    BY RowsDiffer
  <2>1. [Idle EXCEPT !.op = "password", !.at = "claimed", !.link = l,
                     !.locks = {Lnk(l)}] \in RequestRecord
    BY <2>0, IdleIs DEF RequestRecord, Operations, Places
  <2> QED BY <1>1, <1>26, <2>1 DEF SetClaim
<1>27. ASSUME NEW l \in Links, ConsumeRow(r, l) PROVE OnlyBy(r)
  <2>1. Lnk(l) \in Rows
    BY RowsDiffer
  <2> QED BY <1>0, <1>27, <2>1 DEF ConsumeRow, RequestRecord, OnlyBy
<1>28. CASE SetFindUser(r)
  BY <1>2, <1>3, <1>28 DEF SetFindUser, Places
<1>29. CASE ConsumeBegin(r)
  <2>1. {Lnk(l) : l \in ToConsume(r)} \subseteq Rows
    BY RowsDiffer DEF ToConsume
  <2> QED BY <1>0, <1>5, <1>29, <2>1 DEF ConsumeBegin, RequestRecord, OnlyBy, Places
<1>30. CASE CommitPassword(r)
  BY <1>2, <1>30 DEF CommitPassword
<1>31. CASE Dies(r)
  BY <1>2, <1>31 DEF Dies
<1> QED
  BY <1>6, <1>7, <1>8, <1>9, <1>10, <1>11, <1>12, <1>13, <1>14, <1>15, <1>16, <1>17,
     <1>18, <1>20, <1>21, <1>22, <1>23, <1>24, <1>25, <1>26, <1>27, <1>28, <1>29, <1>30,
     <1>31 DEF RequestStep

-----------------------------------------------------------------------------
(* Who writes which table *)

Writes(r) == CommitUpdate(r) \/ CommitRevoke(r) \/ CommitPassword(r)

LEMMA Writers ==
  ASSUME NEW r \in Requests, RequestStep(r)
  PROVE  /\ \/ UNCHANGED <<tok, access>>
            \/ LoginIssue(r) \/ RefreshCommit(r) \/ Writes(r) \/ DeleteUser(r)
         /\ \/ UNCHANGED user
            \/ Writes(r) \/ DeleteUser(r) \/ \E role \in Roles : CreateUser(r, role)
         /\ \/ UNCHANGED link
            \/ SendReset(r) \/ \E role \in Roles : CreateUser(r, role)
            \/ SendAccepted(r) \/ SendFailed(r) \/ DeleteUser(r) \/ CommitSend(r)
            \/ CommitPassword(r)
<1> USE DEF Writes
<1>1. CASE LoginBegin(r) \/ LoginStamp(r) \/ LoginIssue(r)
  BY <1>1 DEF LoginBegin, LoginStamp, LoginIssue
<1>2. CASE \E t \in Tokens : RefreshLookup(r, t) \/ RevokeRow(r, t)
  BY <1>2 DEF RefreshLookup, RevokeRow
<1>3. CASE RefreshBegin(r) \/ RefreshRotate(r) \/ RefreshCommit(r)
  BY <1>3 DEF RefreshBegin, RefreshRotate, RefreshCommit
<1>4. CASE (\E change \in Changes : UpdateBegin(r, change)) \/ LockUser(r) \/ RevokeBegin(r)
  BY <1>4 DEF UpdateBegin, LockUser, RevokeBegin
<1>5. CASE CommitUpdate(r) \/ CommitRevoke(r) \/ CommitPassword(r)
  BY <1>5 DEF CommitUpdate, CommitRevoke, CommitPassword
<1>6. CASE \E role \in Roles : CreateUser(r, role)
  BY <1>6 DEF CreateUser
<1>7. CASE SendReset(r) \/ SendAccepted(r) \/ SendFailed(r) \/ DeleteUser(r) \/ CommitSend(r)
  BY <1>7 DEF SendReset, SendAccepted, SendFailed, DeleteUser, CommitSend
<1>8. CASE \E l \in Links : SetClaim(r, l) \/ ConsumeRow(r, l)
  BY <1>8 DEF SetClaim, ConsumeRow
<1>9. CASE SetFindUser(r) \/ ConsumeBegin(r) \/ Dies(r)
  BY <1>9 DEF SetFindUser, ConsumeBegin, Dies
<1> QED
  BY <1>1, <1>2, <1>3, <1>4, <1>5, <1>6, <1>7, <1>8, <1>9 DEF RequestStep

(* A token written in its place stays one that was issued. *)
SameTokens == \A t \in Tokens :
  /\ tok'[t].st = "none" <=> tok[t].st = "none"
  /\ tok[t].st = "none" => tok'[t] = tok[t]

TokensNumbered ==
  /\ tok \in [Tokens -> TokenRecord]
  /\ \E n \in 0..MaxIssued : UsedTokens = 1..n
  /\ \A t \in Tokens : tok[t].st = "none" => tok[t] = NoToken

LinksNumbered ==
  /\ link \in [Links -> LinkRecord]
  /\ \E n \in 0..MaxIssued : UsedLinks = 1..n
  /\ \A l \in Links : link[l].st = "none" => link[l] = NoLink

LEMMA RewrittenTokens ==
  ASSUME TokensNumbered, tok' \in [Tokens -> TokenRecord], SameTokens
  PROVE  TokensNumbered'
<1>1. UsedTokens' = UsedTokens
  BY DEF UsedTokens, SameTokens
<1> QED BY <1>1 DEF TokensNumbered, SameTokens

LEMMA IssuedToken ==
  ASSUME Base, NEW read \in Claims, NEW from \in {0} \cup Tokens,
         NEW others \in [Tokens -> TokenRecord],
         \A t \in Tokens : /\ others[t].st = "none" <=> tok[t].st = "none"
                           /\ tok[t].st = "none" => others[t] = tok[t],
         Issue(read, from, others)
  PROVE  TokensNumbered' /\ access' \in Claims
<1>1. NextToken \in Tokens /\ UsedTokens = 1..(NextToken - 1) /\ NextToken \in Nat \ {0}
  BY NextNumbers DEF Issue
<1>2. [st |-> "active", from |-> from] \in TokenRecord
  BY DEF TokenRecord
<1>3. tok' = [others EXCEPT ![NextToken] = [st |-> "active", from |-> from]]
  BY DEF Issue
<1>4. tok' \in [Tokens -> TokenRecord]
  BY <1>1, <1>2, <1>3
<1>5. UsedTokens' = UsedTokens \cup {NextToken}
  BY <1>1, <1>3 DEF UsedTokens
<1>6. UsedTokens' = 1..NextToken
  BY <1>1, <1>5
<1>7. NextToken \in 0..MaxIssued
  BY <1>1, SessionsAssumption DEF Tokens
<1>8. \A t \in Tokens : tok'[t].st = "none" => tok'[t] = NoToken
  BY <1>1, <1>3 DEF Base, Numbered
<1>9. access' \in Claims
  BY DEF Base, TypeOK, Issue
<1> QED BY <1>4, <1>6, <1>7, <1>8, <1>9 DEF TokensNumbered

(* What a step adds to its rows is free, and exists. *)
Takes(r) ==
  /\ \A row \in Rows : row \in req'[r].locks => row \in req[r].locks \/ Free(row, r)
  /\ \A t \in Tokens : Tok(t) \in req'[r].todo \cup req'[r].locks =>
       Tok(t) \in req[r].todo \cup req[r].locks \/ t \in UsedTokens
  /\ \A l \in Links : Lnk(l) \in req'[r].todo \cup req'[r].locks =>
       Lnk(l) \in req[r].todo \cup req[r].locks \/ l \in UsedLinks
  /\ req'[r].op \in {"send", "password"} =>
       \/ req[r].op \in {"send", "password"} /\ req'[r].link = req[r].link
       \/ req'[r].link \in UsedLinks'
  /\ req'[r].op = "refresh" =>
       (req[r].op = "refresh" /\ req'[r].tok = req[r].tok) \/ req'[r].tok \in UsedTokens

LEMMA StepTakes ==
  ASSUME Base, NEW r \in Requests, RequestStep(r)
  PROVE  Takes(r)
<1>0. req \in [Requests -> RequestRecord] /\ req[r] \in RequestRecord
  BY DEF Base, TypeOK
<1>1. ASSUME NEW new, new.todo = {} /\ new.locks = {}, new.op \notin {"send", "password"},
             new.op = "refresh" => new.tok \in UsedTokens, req' = [req EXCEPT ![r] = new]
      PROVE  Takes(r)
  BY <1>0, <1>1 DEF Takes
<1>2. ASSUME Stop(r) PROVE Takes(r)
  BY <1>1, <1>2, IdleIs DEF Stop
<1>3. ASSUME NEW place, Go(r, place) PROVE Takes(r)
  BY <1>0, <1>3 DEF Go, Takes, RequestRecord
<1>4. /\ [Idle EXCEPT !.op = "login", !.at = "verified", !.read = Seen].todo = {}
      /\ [Idle EXCEPT !.op = "login", !.at = "verified", !.read = Seen].locks = {}
      /\ [Idle EXCEPT !.op = "revoke", !.at = "tokens"].todo = {}
      /\ [Idle EXCEPT !.op = "revoke", !.at = "tokens"].locks = {}
      /\ [Idle EXCEPT !.op = "login", !.at = "verified", !.read = Seen].op = "login"
      /\ [Idle EXCEPT !.op = "revoke", !.at = "tokens"].op = "revoke"
  BY DEF Idle
<1>5. CASE LoginBegin(r)
  BY <1>1, <1>4, <1>5 DEF LoginBegin
<1>6. CASE LoginStamp(r) \/ SendAccepted(r)
  BY <1>3, <1>6 DEF LoginStamp, SendAccepted
<1>7. CASE LoginIssue(r) \/ RefreshCommit(r) \/ CommitRevoke(r) \/ DeleteUser(r)
             \/ CommitSend(r) \/ CommitPassword(r) \/ Dies(r)
  BY <1>2, <1>7
     DEF LoginIssue, RefreshCommit, CommitRevoke, DeleteUser, CommitSend, CommitPassword, Dies
<1>8. ASSUME NEW t \in Tokens, RefreshLookup(r, t) PROVE Takes(r)
  <2>1. CASE tok[t].st = "active" /\ req' = [req EXCEPT ![r] = [Idle EXCEPT !.op = "refresh", !.at = "found", !.tok = t]]
    <3>1. t \in UsedTokens
      BY <2>1 DEF UsedTokens
    <3> DEFINE new == [Idle EXCEPT !.op = "refresh", !.at = "found", !.tok = t]
    <3>2. new.todo = {} /\ new.locks = {} /\ new.op = "refresh" /\ new.tok = t
      BY DEF Idle
    <3>3. req' = [req EXCEPT ![r] = new]
      BY <2>1
    <3> HIDE DEF new
    <3> QED BY <1>1, <3>1, <3>2, <3>3
  <2>2. CASE req' = [req EXCEPT ![r] = [Idle EXCEPT !.op = "revoke", !.at = "tokens"]]
    BY <1>1, <1>4, <2>2
  <2> QED BY <1>8, <2>1, <2>2 DEF RefreshLookup
<1>9. ASSUME NEW t \in Tokens, RevokeRow(r, t) PROVE Takes(r)
  <2>1. /\ req'[r].todo = req[r].todo \ {Tok(t)}
        /\ req'[r].locks = req[r].locks \cup {Tok(t)}
        /\ UNCHANGED <<req[r].op, req[r].link, req[r].tok>>
    BY <1>0, <1>9 DEF RevokeRow, RequestRecord
  <2>2. Tok(t) \in req[r].todo /\ Free(Tok(t), r)
    BY <1>9 DEF RevokeRow
  <2> QED BY <2>1, <2>2 DEF Takes
<1>10. CASE RefreshBegin(r)
  <2>1. CASE user.st = "active"
    BY <1>0, <1>10, <2>1 DEF RefreshBegin, Takes, RequestRecord
  <2>2. CASE user.st # "active"
    BY <1>2, <1>10, <2>2 DEF RefreshBegin
  <2> QED BY <2>1, <2>2
<1>11. CASE RefreshRotate(r)
  <2>1. CASE Rotatable(req[r].tok)
    <3>1. req[r].tok \in Tokens
      BY <1>11 DEF RefreshRotate, At, Base, Existing, UsedTokens
    <3>2. req[r].tok \in UsedTokens
      BY <2>1, <3>1 DEF Rotatable, UsedTokens
    <3>3. /\ req'[r].todo = req[r].todo
          /\ UNCHANGED <<req[r].op, req[r].link, req[r].tok>>
          /\ req'[r].locks = req[r].locks \cup {Tok(req[r].tok)} /\ Free(Tok(req[r].tok), r)
      BY <1>0, <1>11, <2>1 DEF RefreshRotate, Lock, RequestRecord
    <3> QED BY <3>1, <3>2, <3>3, RowsDiffer DEF Takes
  <2>2. CASE ~Rotatable(req[r].tok)
    BY <1>2, <1>11, <2>2 DEF RefreshRotate
  <2> QED BY <2>1, <2>2
<1>12. ASSUME NEW change \in Changes, UpdateBegin(r, change) PROVE Takes(r)
  <2> DEFINE new == [Idle EXCEPT !.op = "update", !.at = "user", !.change = change]
  <2>1. req' = [req EXCEPT ![r] = new]
    BY <1>12 DEF UpdateBegin
  <2>2. new.todo = {} /\ new.locks = {} /\ new.op = "update"
    BY DEF Idle
  <2> HIDE DEF new
  <2> QED BY <1>1, <2>1, <2>2
<1>13. CASE LockUser(r)
  <2>1. CASE Exists
    <3>1. /\ req'[r].todo = req[r].todo
          /\ UNCHANGED <<req[r].op, req[r].link, req[r].tok>>
          /\ req'[r].locks = req[r].locks \cup {UserRow} /\ Free(UserRow, r)
      BY <1>0, <1>13, <2>1 DEF LockUser, Lock, RequestRecord
    <3> QED BY <3>1, RowsDiffer DEF Takes
  <2>2. CASE ~Exists
    BY <1>2, <1>13, <2>2 DEF LockUser
  <2> QED BY <2>1, <2>2
<1>14. CASE RevokeBegin(r)
  <2>1. /\ req'[r].todo = {Tok(t) : t \in UsedTokens}
        /\ req'[r].locks = req[r].locks
        /\ UNCHANGED <<req[r].op, req[r].link, req[r].tok>>
    BY <1>0, <1>14 DEF RevokeBegin, RequestRecord
  <2> QED BY <2>1, RowsDiffer DEF Takes
<1>15. CASE CommitUpdate(r)
  BY <1>1, <1>4, <1>15, IdleIs DEF CommitUpdate
<1>16. CASE (\E role \in Roles : CreateUser(r, role)) \/ SendReset(r)
  <2>0. PICK purpose, created : IssueLink(r, purpose, created)
    BY <1>16 DEF CreateUser, SendReset
  <2>1. /\ req'[r].todo = {} /\ req'[r].locks = {} /\ req'[r].link = NextLink
        /\ req'[r].op = "send" /\ RoomToIssue
    BY <1>0, <2>0 DEF IssueLink, Idle
  <2>3. link'[NextLink].st = "open"
    BY <2>0, <2>1, NextNumbers DEF IssueLink, NoLink, Base, TypeOK
  <2>2. NextLink \in UsedLinks'
    BY <2>1, <2>3, NextNumbers DEF UsedLinks
  <2> QED BY <2>1, <2>2 DEF Takes
<1>17. CASE SendFailed(r)
  BY <1>2, <1>3, <1>17 DEF SendFailed
<1>18. ASSUME NEW l \in Links, SetClaim(r, l) PROVE Takes(r)
  <2>1. /\ req'[r].todo = {} /\ req'[r].locks = {Lnk(l)} /\ req'[r].link = l
        /\ req'[r].op = "password"
    BY <1>0, <1>18 DEF SetClaim, Idle
  <2>2. Free(Lnk(l), r) /\ l \in UsedLinks /\ l \in UsedLinks'
    BY <1>18 DEF SetClaim, UsedLinks
  <2> QED BY <2>1, <2>2, RowsDiffer DEF Takes
<1>19. ASSUME NEW l \in Links, ConsumeRow(r, l) PROVE Takes(r)
  <2>1. /\ req'[r].todo = req[r].todo \ {Lnk(l)}
        /\ req'[r].locks = IF link[l].st = "open" THEN req[r].locks \cup {Lnk(l)}
                           ELSE req[r].locks
        /\ UNCHANGED <<req[r].op, req[r].link, req[r].tok>>
    BY <1>0, <1>19 DEF ConsumeRow, RequestRecord
  <2>2. Lnk(l) \in req[r].todo /\ Free(Lnk(l), r)
    BY <1>19 DEF ConsumeRow
  <2> QED BY <2>1, <2>2 DEF Takes
<1>20. CASE SetFindUser(r)
  BY <1>2, <1>3, <1>20 DEF SetFindUser
<1>21. CASE ConsumeBegin(r)
  <2>1. /\ req'[r].todo = {Lnk(l) : l \in ToConsume(r)} /\ req'[r].locks = req[r].locks
        /\ UNCHANGED <<req[r].op, req[r].link, req[r].tok>>
    BY <1>0, <1>21 DEF ConsumeBegin, RequestRecord
  <2>2. ToConsume(r) \subseteq UsedLinks
    BY DEF ToConsume, UsedLinks
  <2> QED BY <2>1, <2>2, RowsDiffer DEF Takes
<1> QED
  BY <1>5, <1>6, <1>7, <1>8, <1>9, <1>10, <1>11, <1>12, <1>13, <1>14, <1>15, <1>16, <1>17,
     <1>18, <1>19, <1>20, <1>21 DEF RequestStep

LEMMA StepExclusive ==
  ASSUME Base, NEW r \in Requests, OnlyBy(r), Takes(r)
  PROVE  Exclusive'
<1> SUFFICES ASSUME NEW p \in Requests, NEW q \in Requests, p # q,
                    NEW row, row \in req'[p].locks, row \in req'[q].locks
             PROVE  FALSE
  BY DEF Exclusive
<1>0. \A s \in Requests : req'[s].locks \subseteq Rows
  BY DEF OnlyBy, RequestRecord
<1>1. \A s \in Requests \ {r} : row \in req'[s].locks => row \notin req'[r].locks
  <2> SUFFICES ASSUME NEW s \in Requests \ {r}, row \in req'[s].locks, row \in req'[r].locks
               PROVE FALSE
    OBVIOUS
  <2>1. row \in req[s].locks
    BY DEF OnlyBy
  <2>2. row \in req[r].locks \/ Free(row, r)
    BY <1>0 DEF Takes
  <2> QED BY <2>1, <2>2 DEF Free, Base, Exclusive
<1>2. CASE p = r \/ q = r
  BY <1>1, <1>2
<1>3. CASE p # r /\ q # r
  BY <1>3 DEF OnlyBy, Base, Exclusive
<1> QED BY <1>2, <1>3

LEMMA StepExisting ==
  ASSUME Base, NEW r \in Requests, OnlyBy(r), Takes(r),
         UsedTokens \subseteq UsedTokens', UsedLinks \subseteq UsedLinks'
  PROVE  Existing'
<1> SUFFICES ASSUME NEW q \in Requests
             PROVE  /\ \A t \in Tokens : Tok(t) \in req'[q].todo \cup req'[q].locks => t \in UsedTokens'
                    /\ \A l \in Links : Lnk(l) \in req'[q].todo \cup req'[q].locks => l \in UsedLinks'
                    /\ req'[q].op = "refresh" => req'[q].tok \in UsedTokens'
                    /\ req'[q].op \in {"send", "password"} => req'[q].link \in UsedLinks'
  BY DEF Existing
<1>1. CASE q = r
  BY <1>1 DEF Takes, Base, Existing
<1>2. CASE q # r
  BY <1>2 DEF OnlyBy, Base, Existing
<1> QED BY <1>1, <1>2

-----------------------------------------------------------------------------
(* The tables stay well formed *)

SameLinks == \A l \in Links :
  /\ link'[l].st = "none" <=> link[l].st = "none"
  /\ link[l].st = "none" => link'[l] = link[l]

LEMMA RewrittenLinks ==
  ASSUME LinksNumbered, link' \in [Links -> LinkRecord], SameLinks
  PROVE  LinksNumbered' /\ UsedLinks' = UsedLinks
<1>1. UsedLinks' = UsedLinks
  BY DEF UsedLinks, SameLinks
<1> QED BY <1>1 DEF LinksNumbered, SameLinks

LEMMA IssuedLink ==
  ASSUME Base, NEW r \in Requests, NEW purpose \in Purposes, NEW created \in BOOLEAN,
         IssueLink(r, purpose, created)
  PROVE  /\ LinksNumbered'
         /\ UsedLinks' = UsedLinks \cup {NextLink}
         /\ NextLink \in Links /\ NextLink \notin UsedLinks
         /\ link' = [link EXCEPT ![NextLink] = [NoLink EXCEPT !.st = "open", !.purpose = purpose]]
<1>1. NextLink \in Links /\ UsedLinks = 1..(NextLink - 1) /\ NextLink \in Nat \ {0}
  BY NextNumbers DEF IssueLink
<1>2. [NoLink EXCEPT !.st = "open", !.purpose = purpose] \in LinkRecord
  BY DEF LinkRecord, NoLink
<1>3. link' = [link EXCEPT ![NextLink] = [NoLink EXCEPT !.st = "open", !.purpose = purpose]]
  BY DEF IssueLink
<1>4. link' \in [Links -> LinkRecord]
  BY <1>1, <1>2, <1>3 DEF Base, TypeOK
<1>5. UsedLinks' = UsedLinks \cup {NextLink}
  BY <1>1, <1>3 DEF UsedLinks, NoLink, Base, TypeOK
<1>6. UsedLinks' = 1..NextLink
  BY <1>1, <1>5
<1>7. NextLink \in 0..MaxIssued
  BY <1>1, SessionsAssumption DEF Links
<1>8. \A l \in Links : link'[l].st = "none" => link'[l] = NoLink
  BY <1>1, <1>3 DEF Base, Numbered, TypeOK, NoLink
<1> QED BY <1>1, <1>3, <1>4, <1>5, <1>6, <1>7, <1>8, NextNumbers DEF LinksNumbered

LEMMA BaseTables == Base => TokensNumbered /\ LinksNumbered
  BY DEF Base, TypeOK, Numbered, TokensNumbered, LinksNumbered

LEMMA ConsumedLinks ==
  ASSUME Base, NEW r \in Requests, link' = Consumed(r)
  PROVE  LinksNumbered' /\ UsedLinks' = UsedLinks
<1>1. \A l \in Links : [link[l] EXCEPT !.st = "consumed"] \in LinkRecord
  BY DEF Base, TypeOK, LinkRecord
<1>2. link' \in [Links -> LinkRecord]
  BY <1>1 DEF Consumed, Base, TypeOK
<1>3. SameLinks
  BY DEF Consumed, SameLinks, Base, TypeOK, LinkRecord, Existing, UsedLinks
<1> QED BY <1>2, <1>3, RewrittenLinks, BaseTables

LEMMA StepLinks ==
  ASSUME Base, NEW r \in Requests, RequestStep(r)
  PROVE  LinksNumbered' /\ UsedLinks \subseteq UsedLinks'
<1> USE BaseTables
<1>0. link \in [Links -> LinkRecord]
  BY DEF Base, TypeOK
<1>1. CASE UNCHANGED link
  <2>1. link' \in [Links -> LinkRecord] /\ SameLinks
    BY <1>0, <1>1 DEF SameLinks
  <2> QED BY <2>1, RewrittenLinks
<1>2. CASE SendReset(r) \/ \E role \in Roles : CreateUser(r, role)
  BY <1>2, IssuedLink DEF SendReset, CreateUser, Purposes
<1>3. ASSUME NEW l \in Links, NEW new \in LinkRecord, link[l].st # "none", new.st # "none",
             link' = [link EXCEPT ![l] = new]
      PROVE  LinksNumbered' /\ UsedLinks \subseteq UsedLinks'
  <2>1. link' \in [Links -> LinkRecord] /\ SameLinks
    BY <1>0, <1>3 DEF SameLinks
  <2> QED BY <2>1, RewrittenLinks
<1>4. req[r].op = "send" => /\ req[r].link \in Links /\ link[req[r].link].st # "none"
                            /\ link[req[r].link] \in LinkRecord
  BY <1>0 DEF Base, Existing, UsedLinks
<1>5. CASE SendAccepted(r)
  <2> DEFINE l == req[r].link
  <2>1. [link[l] EXCEPT !.sent = TRUE] \in LinkRecord /\ [link[l] EXCEPT !.sent = TRUE].st # "none"
    BY <1>4, <1>5 DEF SendAccepted, At, LinkRecord
  <2>2. link' = [link EXCEPT ![l] = [link[l] EXCEPT !.sent = TRUE]]
    BY <1>5 DEF SendAccepted
  <2> QED BY <1>3, <1>4, <1>5, <2>1, <2>2 DEF SendAccepted, At
<1>6. CASE SendFailed(r)
  <2> DEFINE l == req[r].link
  <2>1. [link[l] EXCEPT !.st = "deleted"] \in LinkRecord /\ [link[l] EXCEPT !.st = "deleted"].st # "none"
    BY <1>4, <1>6 DEF SendFailed, At, LinkRecord
  <2>2. link' = [link EXCEPT ![l] = [link[l] EXCEPT !.st = "deleted"]]
    BY <1>6 DEF SendFailed
  <2> QED BY <1>3, <1>4, <1>6, <2>1, <2>2 DEF SendFailed, At
<1>7. CASE DeleteUser(r)
  <2>1. \A l \in Links : [link[l] EXCEPT !.st = "deleted"] \in LinkRecord
    BY <1>0 DEF LinkRecord
  <2>2. link' = [l \in Links |-> IF l \in UsedLinks THEN [link[l] EXCEPT !.st = "deleted"] ELSE link[l]]
    BY <1>7 DEF DeleteUser, Cascade
  <2>3. link' \in [Links -> LinkRecord]
    BY <1>0, <2>1, <2>2
  <2>4. SameLinks
    BY <1>0, <2>2 DEF SameLinks, UsedLinks, LinkRecord
  <2> QED BY <2>3, <2>4, RewrittenLinks
<1>8. CASE CommitSend(r)
  BY <1>8, ConsumedLinks DEF CommitSend
<1>9. CASE CommitPassword(r)
  <2> DEFINE l == req[r].link
  <2>1. req[r].newest \in {0} \cup Links
    BY DEF Base, TypeOK, RequestRecord
  <2>2. link' = [Consumed(r) EXCEPT ![l].used = req[r].newest]
    BY <1>9 DEF CommitPassword
  <2>3. Consumed(r) \in [Links -> LinkRecord]
    BY <1>0 DEF Consumed, LinkRecord
  <2>4. link' \in [Links -> LinkRecord]
    BY <2>1, <2>2, <2>3 DEF LinkRecord
  <2>5. \A k \in Links : Consumed(r)[k].st = "none" <=> link[k].st = "none"
    BY <1>0 DEF Consumed, Base, Existing, UsedLinks, LinkRecord
  <2>6. \A k \in Links : link[k].st = "none" => Consumed(r)[k] = link[k]
    BY <1>0 DEF Consumed, Base, Existing, UsedLinks
  <2>7. l \in Links /\ link[l].st # "none"
    BY <1>9 DEF CommitPassword, ConsumedAll, At, Base, Existing, UsedLinks
  <2>8. SameLinks
    BY <2>2, <2>3, <2>5, <2>6, <2>7 DEF SameLinks, LinkRecord
  <2> QED BY <2>4, <2>8, RewrittenLinks
<1> QED
  BY <1>1, <1>2, <1>5, <1>6, <1>7, <1>8, <1>9, Writers

LEMMA StepTokens ==
  ASSUME Base, NEW r \in Requests, RequestStep(r)
  PROVE  TokensNumbered' /\ access' \in Claims /\ UsedTokens \subseteq UsedTokens'
<1>0. tok \in [Tokens -> TokenRecord] /\ access \in Claims /\ req[r] \in RequestRecord
  BY DEF Base, TypeOK
<1>1. ASSUME tok' \in [Tokens -> TokenRecord], SameTokens
      PROVE  TokensNumbered' /\ UsedTokens \subseteq UsedTokens'
  BY <1>1, RewrittenTokens, BaseTables DEF SameTokens, UsedTokens
<1>2. ASSUME NEW others \in [Tokens -> TokenRecord], NEW from \in {0} \cup Tokens,
             \A t \in Tokens : /\ others[t].st = "none" <=> tok[t].st = "none"
                               /\ tok[t].st = "none" => others[t] = tok[t],
             Issue(req[r].read, from, others)
      PROVE  TokensNumbered' /\ access' \in Claims /\ UsedTokens \subseteq UsedTokens'
  <2>1. req[r].read \in Claims
    BY <1>0 DEF RequestRecord
  <2>2. NextToken \in Tokens /\ tok[NextToken].st = "none"
    BY <1>2, NextNumbers DEF Issue, UsedTokens
  <2>3. UsedTokens \subseteq UsedTokens'
    BY <1>2, <2>2 DEF Issue, UsedTokens
  <2> QED BY <1>2, <2>1, <2>3, IssuedToken
<1>3. CASE UNCHANGED <<tok, access>>
  BY <1>0, <1>1, <1>3 DEF SameTokens
<1>4. CASE LoginIssue(r)
  BY <1>0, <1>2, <1>4 DEF LoginIssue
<1>5. CASE RefreshCommit(r)
  <2> DEFINE t == req[r].tok
             others == [tok EXCEPT ![t].st = "rotated"]
  <2>1. t \in Tokens
    BY <1>5 DEF RefreshCommit, At, Base, Existing, UsedTokens
  <2>2. tok[t].st # "none"
    BY <1>5 DEF RefreshCommit, At, Base, Existing, UsedTokens
  <2>3. others \in [Tokens -> TokenRecord]
    BY <1>0, <2>1 DEF TokenRecord
  <2>4. \A u \in Tokens : /\ others[u].st = "none" <=> tok[u].st = "none"
                          /\ tok[u].st = "none" => others[u] = tok[u]
    BY <1>0, <2>1, <2>2 DEF TokenRecord
  <2>5. Issue(req[r].read, t, others) /\ t \in {0} \cup Tokens
    BY <1>5, <2>1 DEF RefreshCommit
  <2> HIDE DEF others
  <2> QED BY <1>2, <2>3, <2>4, <2>5
<1>6. CASE Writes(r)
  <2>1. tok' = Revoked(r) /\ access' = access
    BY <1>6 DEF Writes, CommitUpdate, CommitRevoke, CommitPassword
  <2>2. \A t \in Tokens : Tok(t) \in req[r].locks => tok[t].st # "none"
    BY DEF Base, Existing, UsedTokens
  <2>3. \A t \in Tokens : [tok[t] EXCEPT !.st = "revoked"] \in TokenRecord
    BY <1>0 DEF TokenRecord
  <2>4. tok' \in [Tokens -> TokenRecord]
    BY <1>0, <2>1, <2>3 DEF Revoked
  <2>5. SameTokens
    BY <1>0, <2>1, <2>2 DEF Revoked, SameTokens, TokenRecord
  <2> QED BY <1>0, <1>1, <2>1, <2>4, <2>5
<1>7. CASE DeleteUser(r)
  <2>1. /\ tok' = [t \in Tokens |-> IF t \in UsedTokens THEN [tok[t] EXCEPT !.st = "revoked"] ELSE tok[t]]
        /\ access' = access
    BY <1>7 DEF DeleteUser, Cascade
  <2>2. tok' \in [Tokens -> TokenRecord]
    BY <1>0, <2>1 DEF TokenRecord
  <2>3. SameTokens
    BY <1>0, <2>1 DEF SameTokens, UsedTokens, TokenRecord
  <2> QED BY <1>0, <1>1, <2>1, <2>2, <2>3
<1> QED BY <1>3, <1>4, <1>5, <1>6, <1>7, Writers

LEMMA StepUser ==
  ASSUME Base, NEW r \in Requests, RequestStep(r)
  PROVE  user' \in UserRecord
<1>0. user \in UserRecord /\ req[r].change \in Changes \cup {NoChange}
  BY DEF Base, TypeOK, RequestRecord
<1>9. Bumped \in Nat /\ user.password + 1 \in Nat
  BY <1>0 DEF Bumped, UserRecord
<1>1. CASE CommitUpdate(r)
  <2>1. req[r].change.st \in {"same", "active", "inactive"} /\ req[r].change.role \in Roles \cup {NoRole}
    BY <1>0, ChangeIs
  <2> QED BY <1>0, <1>1, <1>9, <2>1 DEF CommitUpdate, UserRecord
<1>2. CASE CommitRevoke(r) \/ CommitPassword(r)
  BY <1>0, <1>2, <1>9 DEF CommitRevoke, CommitPassword, UserRecord
<1>3. CASE DeleteUser(r) \/ \E role \in Roles : CreateUser(r, role)
  BY <1>0, <1>3 DEF DeleteUser, CreateUser, UserRecord
<1> QED BY <1>0, <1>1, <1>2, <1>3, Writers DEF Writes

LEMMA StepBase == Base /\ [Next]_vars => Base'
<1> SUFFICES ASSUME Base, [Next]_vars PROVE Base'
  OBVIOUS
<1>1. ASSUME NEW r \in Requests, RequestStep(r) PROVE Base'
  <2>1. OnlyBy(r) /\ Takes(r)
    BY <1>1, StepReq, StepTakes
  <2>2. TokensNumbered' /\ LinksNumbered' /\ access' \in Claims /\ user' \in UserRecord
    BY <1>1, StepTokens, StepLinks, StepUser
  <2>3. Exclusive' /\ Existing'
    BY <1>1, <2>1, StepExclusive, StepExisting, StepTokens, StepLinks
  <2> QED
    BY <2>1, <2>2, <2>3 DEF Base, TypeOK, Numbered, TokensNumbered, LinksNumbered, OnlyBy
<1>2. ASSUME NEW t \in Tokens, Logout(t) PROVE Base'
  <2>1. tok' = [tok EXCEPT ![t].st = "revoked"] /\ tok[t].st # "none"
    BY <1>2 DEF Logout
  <2>2. tok' \in [Tokens -> TokenRecord] /\ SameTokens
    BY <2>1 DEF Base, TypeOK, TokenRecord, SameTokens
  <2>3. TokensNumbered' /\ UsedTokens' = UsedTokens
    BY <2>2, RewrittenTokens, BaseTables DEF UsedTokens, SameTokens
  <2> QED
    BY <1>2, <2>3
       DEF Logout, Base, TypeOK, Numbered, TokensNumbered, Existing, Exclusive, UsedLinks
<1>3. CASE Reactivate
  <2>1. user' \in UserRecord
    BY <1>3 DEF Reactivate, Base, TypeOK, UserRecord
  <2> QED
    BY <1>3, <2>1
       DEF Reactivate, Base, TypeOK, Numbered, Existing, Exclusive, UsedLinks, UsedTokens
<1>4. CASE UNCHANGED vars
  BY <1>4 DEF vars, Base, TypeOK, Numbered, Existing, Exclusive, UsedLinks, UsedTokens
<1> QED BY <1>1, <1>2, <1>3, <1>4 DEF Next

(* Tokens, links and requests stay what they are: the number of tokens and  *)
(* links counts them without a gap.                                         *)
THEOREM SessionsStayTyped == Spec => []TypeOK
<1>1. Base => TypeOK
  BY DEF Base
<1> QED BY <1>1, InitBase, StepBase, PTL DEF Spec

-----------------------------------------------------------------------------
(* Access tokens *)

(* Claims are about the past: the version has moved on, or nothing that     *)
(* they say has changed since.                                              *)
Bound(c) == c # NoClaims =>
  /\ user.st # "none"
  /\ c.version <= user.version
  /\ c.version = user.version => c.role = user.role /\ c.password = user.password

Signed == Bound(access) /\ \A r \in Requests : Bound(req[r].read)

LEMMA SignedAreCurrent == Base /\ Signed => AccessIsCurrent
  BY DEF Signed, Bound, AccessIsCurrent, Accepted

LEMMA BoundStays ==
  ASSUME Base, [Next]_vars, NEW c \in Claims, Bound(c)
  PROVE  Bound(c)'
<1> SUFFICES ASSUME c # NoClaims PROVE Bound(c)'
  BY DEF Bound
<1>0. /\ user \in UserRecord /\ user.st # "none" /\ c.version <= user.version
      /\ c.version = user.version => c.role = user.role /\ c.password = user.password
      /\ c.version \in Nat
  BY DEF Bound, Base, TypeOK, Claims
<1>1. ASSUME NEW r \in Requests, Writes(r) PROVE Bound(c)'
  <2>1. user'.version = user.version + 1
    BY <1>0, <1>1 DEF Writes, CommitUpdate, CommitRevoke, CommitPassword, UserRecord, Bumped
  <2>2. user'.st # "none"
    BY <1>0, <1>1, ChangeIs
       DEF Writes, CommitUpdate, CommitRevoke, CommitPassword, UserRecord, Base, TypeOK, RequestRecord
  <2> QED BY <1>0, <2>1, <2>2 DEF Bound, UserRecord
<1>2. ASSUME NEW r \in Requests, DeleteUser(r) PROVE Bound(c)'
  BY <1>0, <1>2 DEF DeleteUser, Bound, UserRecord
<1>3. ASSUME NEW r \in Requests, NEW role \in Roles, CreateUser(r, role) PROVE Bound(c)'
  BY <1>0, <1>3 DEF CreateUser
<1>4. CASE UNCHANGED user
  BY <1>0, <1>4 DEF Bound
<1>5. CASE Reactivate
  BY <1>0, <1>5 DEF Reactivate, Bound, UserRecord
<1>6. ASSUME NEW t \in Tokens, Logout(t) PROVE UNCHANGED user
  BY <1>6 DEF Logout
<1>7. CASE UNCHANGED vars
  BY <1>4, <1>7 DEF vars
<1> QED BY <1>1, <1>2, <1>3, <1>4, <1>5, <1>6, <1>7, Writers DEF Next

(* What a request has read is nothing, what it had read, or what it sees.   *)
LEMMA StepRead ==
  ASSUME Base, NEW r \in Requests, RequestStep(r)
  PROVE  \/ req'[r].read = req[r].read
         \/ req'[r].read = NoClaims
         \/ req'[r].read = Seen /\ user.st = "active" /\ UNCHANGED user
<1> DEFINE Kept == \/ req'[r].read = req[r].read
                   \/ req'[r].read = NoClaims
<1>0. req \in [Requests -> RequestRecord] /\ req[r] \in RequestRecord
  BY DEF Base, TypeOK
<1>1. ASSUME Stop(r) PROVE Kept
  BY <1>0, <1>1, IdleIs DEF Stop
<1>2. ASSUME NEW place, Go(r, place) PROVE Kept
  BY <1>0, <1>2 DEF Go, RequestRecord
<1>3. CASE LoginBegin(r)
  BY <1>0, <1>3 DEF LoginBegin, Idle
<1>4. CASE RefreshBegin(r)
  <2>1. CASE user.st = "active"
    BY <1>0, <1>4, <2>1 DEF RefreshBegin, RequestRecord
  <2>2. CASE user.st # "active"
    BY <1>1, <1>4, <2>2 DEF RefreshBegin
  <2> QED BY <2>1, <2>2
<1>5. CASE LoginStamp(r) \/ SendAccepted(r) \/ SendFailed(r) \/ SetFindUser(r)
  BY <1>1, <1>2, <1>5 DEF LoginStamp, SendAccepted, SendFailed, SetFindUser
<1>6. CASE LoginIssue(r) \/ RefreshCommit(r) \/ CommitRevoke(r) \/ DeleteUser(r)
             \/ CommitSend(r) \/ CommitPassword(r) \/ Dies(r)
  BY <1>1, <1>6
     DEF LoginIssue, RefreshCommit, CommitRevoke, DeleteUser, CommitSend, CommitPassword, Dies
<1>7. CASE (\E t \in Tokens : RefreshLookup(r, t)) \/ \E change \in Changes : UpdateBegin(r, change)
  BY <1>0, <1>7 DEF RefreshLookup, UpdateBegin, Idle
<1>8. CASE \E t \in Tokens : RevokeRow(r, t)
  BY <1>0, <1>8 DEF RevokeRow, RequestRecord
<1>9. CASE RefreshRotate(r)
  BY <1>0, <1>1, <1>9 DEF RefreshRotate, Lock, RequestRecord
<1>10. CASE LockUser(r)
  BY <1>0, <1>1, <1>10 DEF LockUser, Lock, RequestRecord
<1>11. CASE RevokeBegin(r) \/ ConsumeBegin(r)
  <2>1. CASE RevokeBegin(r)
    BY <1>0, <2>1 DEF RevokeBegin, RequestRecord
  <2>2. CASE ConsumeBegin(r)
    BY <1>0, <2>2 DEF ConsumeBegin, RequestRecord
  <2> QED BY <1>11, <2>1, <2>2
<1>12. CASE CommitUpdate(r)
  BY <1>0, <1>12 DEF CommitUpdate, Idle
<1>13. CASE (\E role \in Roles : CreateUser(r, role)) \/ SendReset(r)
  BY <1>0, <1>13 DEF CreateUser, SendReset, IssueLink, Idle
<1>14. CASE \E l \in Links : SetClaim(r, l)
  BY <1>0, <1>14 DEF SetClaim, Idle
<1>15. CASE \E l \in Links : ConsumeRow(r, l)
  BY <1>0, <1>15 DEF ConsumeRow, RequestRecord
<1> QED
  BY <1>3, <1>4, <1>5, <1>6, <1>7, <1>8, <1>9, <1>10, <1>11, <1>12, <1>13, <1>14, <1>15
     DEF RequestStep

LEMMA StepSigned == Base /\ Signed /\ [Next]_vars => Signed'
<1> SUFFICES ASSUME Base, Signed, [Next]_vars PROVE Signed'
  OBVIOUS
<1>0. /\ access \in Claims /\ NoClaims \in Claims
      /\ \A r \in Requests : req[r].read \in Claims
  BY DEF Base, TypeOK, RequestRecord, Claims, NoClaims
<1>1. \A c \in Claims : Bound(c) => Bound(c)'
  BY BoundStays
<1>2. Bound(access)' /\ \A r \in Requests : Bound(req[r].read)'
  <2>1. access' \in {access} \cup {req[r].read : r \in Requests}
    <3>1. ASSUME NEW r \in Requests, RequestStep(r)
          PROVE  access' \in {access} \cup {req[q].read : q \in Requests}
      <4>1. CASE LoginIssue(r) \/ RefreshCommit(r)
        BY <4>1 DEF LoginIssue, RefreshCommit, Issue
      <4>2. CASE ~(LoginIssue(r) \/ RefreshCommit(r))
        BY <3>1, <4>2, Writers
           DEF Writes, CommitUpdate, CommitRevoke, CommitPassword, DeleteUser
      <4> QED BY <4>1, <4>2
    <3> QED BY <3>1 DEF Next, Logout, Reactivate, vars
  <2>2. Bound(access)'
    <3>1. PICK c \in Claims : access' = c /\ Bound(c)
      BY <1>0, <2>1 DEF Signed
    <3> QED BY <1>1, <3>1 DEF Bound
  <2>3. ASSUME NEW r \in Requests PROVE Bound(req[r].read)'
    <3>1. CASE req'[r].read = req[r].read
      <4>1. PICK c \in Claims : req[r].read = c /\ Bound(c)
        BY <1>0 DEF Signed
      <4> QED BY <1>1, <3>1, <4>1 DEF Bound
    <3>2. CASE req'[r].read = NoClaims
      BY <3>2 DEF Bound, NoClaims
    <3>3. CASE req'[r].read = Seen /\ user.st = "active" /\ UNCHANGED user
      BY <3>3 DEF Bound, Seen, Base, TypeOK, UserRecord
    <3>4. \/ req'[r].read = req[r].read
          \/ req'[r].read = NoClaims
          \/ req'[r].read = Seen /\ user.st = "active" /\ UNCHANGED user
      <4>1. ASSUME NEW q \in Requests, RequestStep(q), q # r PROVE req'[r].read = req[r].read
        BY <4>1, StepReq DEF OnlyBy
      <4> QED BY <4>1, StepRead DEF Next, Logout, Reactivate, vars
    <3> QED BY <3>1, <3>2, <3>3, <3>4
  <2> QED BY <2>2, <2>3
<1> QED BY <1>2 DEF Signed

LEMMA InitSigned == Init => Signed
  BY IdleIs DEF Init, Signed, Bound

(* An access token that requireAuth lets pass says the role and the         *)
(* password the user has now, however logins and refreshes overlap with     *)
(* changes, revocations and new passwords.                                  *)
THEOREM AccessTokensAreCurrent == Spec => []AccessIsCurrent
<1>1. Init => Base /\ Signed
  BY InitBase, InitSigned
<1>2. Base /\ Signed /\ [Next]_vars => (Base /\ Signed)'
  BY StepBase, StepSigned
<1> QED BY <1>1, <1>2, SignedAreCurrent, PTL DEF Spec

-----------------------------------------------------------------------------
(* Refresh tokens *)

(* A refresh that has rotated its token holds it until it commits.          *)
Rotating(r) == At(r, "refresh", "rotated") =>
  Tok(req[r].tok) \in req[r].locks /\ tok[req[r].tok].st = "active"

(* A token that was replaced is replaced by one, and out of use.            *)
Lineage ==
  /\ \A s \in Tokens : tok[s].from # 0 => tok[tok[s].from].st \notin {"none", "active"}
  /\ \A s, t \in Tokens : tok[s].from # 0 /\ tok[s].from = tok[t].from => s = t

Rotations == Lineage /\ \A r \in Requests : Rotating(r)

LEMMA LineageHasOneEnd == Base /\ Rotations => OneLiveEnd
<1> SUFFICES ASSUME Base, Rotations, NEW t \in Tokens,
                    NEW heirs, heirs = {s \in Tokens : tok[s].from = t}
             PROVE  Cardinality(heirs) <= 1 /\ (heirs # {} => tok[t].st # "active")
  BY DEF OneLiveEnd
<1>0. t # 0 /\ tok \in [Tokens -> TokenRecord]
  BY SessionsAssumption DEF Tokens, Base, TypeOK
<1>1. CASE heirs = {}
  BY <1>1, FS_EmptySet
<1>2. CASE heirs # {}
  <2>1. PICK s \in Tokens : tok[s].from = t /\ s \in heirs
    BY <1>2
  <2>2. heirs = {s}
    BY <1>0, <2>1 DEF Rotations, Lineage
  <2>3. Cardinality(heirs) = 1
    BY <2>2, FS_Singleton
  <2> QED BY <1>0, <2>1, <2>3 DEF Rotations, Lineage
<1> QED BY <1>1, <1>2

(* Only rotating a token leads there. *)
LEMMA StepRotated ==
  ASSUME Base, NEW r \in Requests, RequestStep(r), At(r, "refresh", "rotated")'
  PROVE  RefreshRotate(r) /\ Rotatable(req[r].tok)
<1>0. req \in [Requests -> RequestRecord] /\ req[r] \in RequestRecord
  BY DEF Base, TypeOK
<1> DEFINE Elsewhere == ~(req'[r].op = "refresh" /\ req'[r].at = "rotated")
<1>00. ~Elsewhere
  BY DEF At
<1>1. ASSUME Stop(r) PROVE Elsewhere
  BY <1>0, <1>1, IdleIs DEF Stop
<1>2. ASSUME NEW place, Go(r, place), place # "rotated" PROVE Elsewhere
  BY <1>0, <1>2 DEF Go, RequestRecord
<1>3. ASSUME LoginBegin(r) PROVE Elsewhere
  BY <1>0, <1>3 DEF LoginBegin, Idle
<1>4. ASSUME RefreshBegin(r) PROVE Elsewhere
  <2>1. CASE user.st = "active"
    BY <1>0, <1>4, <2>1 DEF RefreshBegin, RequestRecord
  <2>2. CASE user.st # "active"
    BY <1>1, <1>4, <2>2 DEF RefreshBegin
  <2> QED BY <2>1, <2>2
<1>5. ASSUME LoginStamp(r) \/ SendAccepted(r) \/ SendFailed(r) \/ SetFindUser(r) PROVE Elsewhere
  BY <1>1, <1>2, <1>5 DEF LoginStamp, SendAccepted, SendFailed, SetFindUser
<1>6. ASSUME LoginIssue(r) \/ RefreshCommit(r) \/ CommitRevoke(r) \/ DeleteUser(r)
               \/ CommitSend(r) \/ CommitPassword(r) \/ Dies(r)
      PROVE  Elsewhere
  BY <1>1, <1>6
     DEF LoginIssue, RefreshCommit, CommitRevoke, DeleteUser, CommitSend, CommitPassword, Dies
<1>7. ASSUME (\E t \in Tokens : RefreshLookup(r, t)) \/ \E change \in Changes : UpdateBegin(r, change)
      PROVE  Elsewhere
  BY <1>0, <1>7 DEF RefreshLookup, UpdateBegin, Idle
<1>8. ASSUME \E t \in Tokens : RevokeRow(r, t) PROVE Elsewhere
  BY <1>0, <1>8 DEF RevokeRow, RequestRecord
<1>9. ASSUME RefreshRotate(r) PROVE Rotatable(req[r].tok)
  BY <1>00, <1>1, <1>9 DEF RefreshRotate
<1>10. ASSUME LockUser(r) PROVE Elsewhere
  BY <1>0, <1>1, <1>10 DEF LockUser, Lock, RequestRecord
<1>11. ASSUME RevokeBegin(r) PROVE Elsewhere
  BY <1>0, <1>11 DEF RevokeBegin, RequestRecord
<1>12. ASSUME ConsumeBegin(r) PROVE Elsewhere
  BY <1>0, <1>12 DEF ConsumeBegin, RequestRecord
<1>13. ASSUME CommitUpdate(r) PROVE Elsewhere
  BY <1>0, <1>13 DEF CommitUpdate, Idle
<1>14. ASSUME (\E role \in Roles : CreateUser(r, role)) \/ SendReset(r) PROVE Elsewhere
  BY <1>0, <1>14 DEF CreateUser, SendReset, IssueLink, Idle
<1>15. ASSUME \E l \in Links : SetClaim(r, l) PROVE Elsewhere
  BY <1>0, <1>15 DEF SetClaim, Idle
<1>16. ASSUME \E l \in Links : ConsumeRow(r, l) PROVE Elsewhere
  BY <1>0, <1>16 DEF ConsumeRow, RequestRecord
<1> HIDE DEF Elsewhere
<1> QED
  BY <1>00, <1>3, <1>4, <1>5, <1>6, <1>7, <1>8, <1>9, <1>10, <1>11, <1>12, <1>13, <1>14,
     <1>15, <1>16 DEF RequestStep

(* What each writer does to one token. *)
LEMMA TokenStep ==
  ASSUME Base, Rotations, NEW r \in Requests, RequestStep(r), NEW t \in Tokens
  PROVE  \/ tok'[t] = tok[t]
         \/ /\ tok[t].st = "none" /\ tok'[t].from = 0
         \/ /\ tok[t].st = "none" /\ RefreshCommit(r) /\ t = NextToken
            /\ tok'[t].from = req[r].tok
         \/ /\ tok[t].st # "none" /\ tok'[t].from = tok[t].from
            /\ tok'[t].st \in {"rotated", "revoked"}
            /\ \A q \in Requests \ {r} : Tok(t) \notin req[q].locks
<1>0. tok \in [Tokens -> TokenRecord] /\ req[r] \in RequestRecord
  BY DEF Base, TypeOK
<1>1. NextToken \notin UsedTokens
  BY NextNumbers
<1>2. CASE LoginIssue(r)
  BY <1>0, <1>1, <1>2 DEF LoginIssue, Issue, UsedTokens
<1>3. CASE RefreshCommit(r)
  <2> DEFINE u == req[r].tok
  <2>1. At(r, "refresh", "rotated") /\ u \in Tokens
    BY <1>3 DEF RefreshCommit, At, Base, Existing, UsedTokens
  <2>2. Tok(u) \in req[r].locks /\ tok[u].st = "active"
    BY <2>1 DEF Rotations, Rotating
  <2>3. \A q \in Requests \ {r} : Tok(u) \notin req[q].locks
    BY <2>2 DEF Base, Exclusive
  <2>4. tok' = [[tok EXCEPT ![u].st = "rotated"] EXCEPT ![NextToken] = [st |-> "active", from |-> u]]
    BY <1>3 DEF RefreshCommit, Issue
  <2>5. CASE t = NextToken
    BY <1>0, <1>1, <1>3, <2>4, <2>5 DEF UsedTokens
  <2>6. CASE t # NextToken /\ t = u
    BY <1>0, <2>2, <2>3, <2>4, <2>6 DEF TokenRecord
  <2>7. CASE t # NextToken /\ t # u
    BY <1>0, <2>1, <2>4, <2>7
  <2> QED BY <2>5, <2>6, <2>7
<1>4. CASE Writes(r)
  <2>1. tok' = Revoked(r)
    BY <1>4 DEF Writes, CommitUpdate, CommitRevoke, CommitPassword
  <2>2. CASE Tok(t) \in req[r].locks
    <3>1. \A q \in Requests \ {r} : Tok(t) \notin req[q].locks
      BY <2>2 DEF Base, Exclusive
    <3>2. tok[t].st # "none"
      BY <2>2 DEF Base, Existing, UsedTokens
    <3> QED BY <1>0, <2>1, <2>2, <3>1, <3>2 DEF Revoked, TokenRecord
  <2>3. CASE Tok(t) \notin req[r].locks
    BY <2>1, <2>3 DEF Revoked
  <2> QED BY <2>2, <2>3
<1>5. CASE DeleteUser(r)
  <2>1. \A q \in Requests \ {r} : Tok(t) \notin req[q].locks
    BY <1>5, RowsDiffer DEF DeleteUser, Free
  <2>2. tok'[t] = IF t \in UsedTokens THEN [tok[t] EXCEPT !.st = "revoked"] ELSE tok[t]
    BY <1>5 DEF DeleteUser, Cascade
  <2> QED BY <1>0, <2>1, <2>2 DEF UsedTokens, TokenRecord
<1>6. CASE UNCHANGED tok
  BY <1>6
<1> QED BY <1>2, <1>3, <1>4, <1>5, <1>6, Writers

(* Retiring tokens keeps the lineage. *)
LEMMA RetiredLineage ==
  ASSUME Base, Lineage,
         \A t \in Tokens : \/ tok'[t] = tok[t]
                           \/ tok[t].st = "none" /\ tok'[t].from = 0
                           \/ /\ tok[t].st # "none" /\ tok'[t].from = tok[t].from
                              /\ tok'[t].st \in {"rotated", "revoked"}
  PROVE  Lineage'
<1>0. tok \in [Tokens -> TokenRecord]
  BY DEF Base, TypeOK
<1>1. \A s \in Tokens : tok'[s].from # 0 => tok'[s].from = tok[s].from
  OBVIOUS
<1>2. ASSUME NEW s \in Tokens, tok'[s].from # 0
      PROVE  tok'[tok'[s].from].st \notin {"none", "active"}
  <2> DEFINE t == tok[s].from
  <2>1. tok'[s].from = t /\ t # 0 /\ t \in Tokens
    BY <1>0, <1>1, <1>2 DEF TokenRecord
  <2>2. tok[t].st \notin {"none", "active"}
    BY <2>1 DEF Lineage
  <2> QED BY <2>1, <2>2
<1>3. ASSUME NEW s \in Tokens, NEW t \in Tokens, tok'[s].from # 0, tok'[s].from = tok'[t].from
      PROVE  s = t
  BY <1>1, <1>3 DEF Lineage
<1> QED BY <1>2, <1>3 DEF Lineage

LEMMA StepRotations == Base /\ Rotations /\ [Next]_vars => Rotations'
<1> SUFFICES ASSUME Base, Rotations, [Next]_vars PROVE Rotations'
  OBVIOUS
<1>0. tok \in [Tokens -> TokenRecord] /\ req \in [Requests -> RequestRecord]
  BY DEF Base, TypeOK
<1>1. ASSUME NEW r \in Requests, RequestStep(r) PROVE Rotations'
  <2>1. ASSUME NEW q \in Requests PROVE Rotating(q)'
    <3> SUFFICES ASSUME At(q, "refresh", "rotated")'
                 PROVE  Tok(req'[q].tok) \in req'[q].locks /\ tok'[req'[q].tok].st = "active"
      BY DEF Rotating
    <3>1. CASE q = r
      <4>1. RefreshRotate(r) /\ Rotatable(req[r].tok)
        BY <1>1, <3>1, StepRotated
      <4> QED BY <1>0, <3>1, <4>1 DEF RefreshRotate, Lock, Rotatable, RequestRecord
    <3>2. CASE q # r
      <4>1. req'[q] = req[q]
        BY <1>1, <3>2, StepReq DEF OnlyBy
      <4>2. PICK t : t = req[q].tok
        OBVIOUS
      <4>3. Tok(t) \in req[q].locks /\ tok[t].st = "active" /\ t \in Tokens
        BY <4>1, <4>2 DEF At, Rotations, Rotating, Base, Existing, UsedTokens
      <4>4. tok'[t] = tok[t]
        BY <1>1, <3>2, <4>3, TokenStep
      <4> QED BY <4>1, <4>2, <4>3, <4>4
    <3> QED BY <3>1, <3>2
  <2>2. Lineage'
    <3>1. CASE ~RefreshCommit(r)
      BY <1>1, <3>1, TokenStep, RetiredLineage DEF Rotations
    <3>2. CASE RefreshCommit(r)
      <4>0. PICK u, n : u = req[r].tok /\ n = NextToken
        OBVIOUS
      <4>1. /\ u \in Tokens /\ u # 0 /\ tok[u].st = "active"
            /\ n \in Tokens /\ tok[n].st = "none"
        BY <3>2, <4>0, NextNumbers, SessionsAssumption
           DEF RefreshCommit, Issue, At, Base, Existing, UsedTokens, Rotations, Rotating, Tokens
      <4>2. /\ \A s \in Tokens \ {u, n} : tok'[s] = tok[s]
            /\ tok'[u].st = "rotated" /\ tok'[u].from = tok[u].from
            /\ tok'[n].st = "active" /\ tok'[n].from = u
        BY <1>0, <3>2, <4>0, <4>1 DEF RefreshCommit, Issue, TokenRecord
      <4>3. \A s \in Tokens : tok[s].from \notin {u, n}
        BY <1>0, <4>1, SessionsAssumption DEF Rotations, Lineage, Tokens
      <4>4. \A s \in Tokens \ {n} : tok'[s].from = tok[s].from
        BY <4>2
      <4>5. ASSUME NEW s \in Tokens, tok'[s].from # 0
            PROVE  tok'[tok'[s].from].st \notin {"none", "active"}
        <5>1. CASE s = n
          BY <4>2, <5>1
        <5>2. CASE s # n
          <6>1. PICK t \in Tokens : t = tok[s].from /\ t \notin {u, n} /\ tok'[s].from = t
            BY <1>0, <4>3, <4>4, <4>5, <5>2 DEF TokenRecord
          <6> QED BY <4>2, <4>5, <6>1 DEF Rotations, Lineage
        <5> QED BY <5>1, <5>2
      <4>6. ASSUME NEW s \in Tokens, NEW t \in Tokens, tok'[s].from # 0, tok'[s].from = tok'[t].from
            PROVE  s = t
        BY <4>2, <4>3, <4>4, <4>6 DEF Rotations, Lineage
      <4> QED BY <4>5, <4>6 DEF Lineage
    <3> QED BY <3>1, <3>2
  <2> QED BY <2>1, <2>2 DEF Rotations
<1>2. ASSUME NEW t \in Tokens, Logout(t) PROVE Rotations'
  <2>1. /\ tok[t].st # "none" /\ tok' = [tok EXCEPT ![t].st = "revoked"] /\ UNCHANGED req
        /\ \A r \in Requests : Tok(t) \notin req[r].locks
    BY <1>2 DEF Logout
  <2>2. Lineage'
    BY <1>0, <2>1, RetiredLineage DEF Rotations, TokenRecord
  <2>3. ASSUME NEW r \in Requests PROVE Rotating(r)'
    <3>1. At(r, "refresh", "rotated") => Tok(req[r].tok) \in req[r].locks /\ tok[req[r].tok].st = "active"
      BY DEF Rotations, Rotating
    <3> QED BY <1>0, <2>1, <3>1 DEF Rotating, At
  <2> QED BY <2>2, <2>3 DEF Rotations
<1>3. CASE Reactivate
  BY <1>3 DEF Reactivate, Rotations, Rotating, Lineage, At
<1>4. CASE UNCHANGED vars
  BY <1>4 DEF vars, Rotations, Rotating, Lineage, At
<1> QED BY <1>1, <1>2, <1>3, <1>4 DEF Next

LEMMA InitRotations == Init => Rotations
<1> SUFFICES ASSUME Init PROVE Rotations
  OBVIOUS
<1>1. \A t \in Tokens : tok[t].from = 0
  BY DEF Init, NoToken
<1> QED BY <1>1, IdleIs DEF Init, Rotations, Rotating, Lineage, At

(* Of several refreshes with one token a single one replaces it, and a      *)
(* token that was replaced is never used again, however refreshes, logouts, *)
(* revocations and the loss of a process meet.                              *)
THEOREM OneEndOfEachLogin == Spec => []OneLiveEnd
<1>1. Init => Base /\ Rotations
  BY InitBase, InitRotations
<1>2. Base /\ Rotations /\ [Next]_vars => (Base /\ Rotations)'
  BY StepBase, StepRotations
<1> QED BY <1>1, <1>2, LineageHasOneEnd, PTL DEF Spec

-----------------------------------------------------------------------------
(* Password links *)

(* Who holds the row of the user has found it; an update holds it from then *)
(* on.                                                                      *)
UserHeld(r) ==
  /\ UserRow \in req[r].locks => Exists /\ req[r].op \in {"update", "revoke", "password"}
  /\ req[r].op = "update" /\ req[r].at # "user" => UserRow \in req[r].locks
  /\ req[r].at = "user" => req[r].op \in {"update", "password"}

(* The links that a request may consume.                                    *)
Reaches(r, m) ==
  /\ link[m].st # "none"
  /\ req[r].op = "send" => m < req[r].link /\ link[m].purpose = link[req[r].link].purpose
  /\ req[r].op # "send" => m <= req[r].newest

Wanted(r) == \A m \in Links :
  Lnk(m) \in req[r].todo =>
    req[r].op \in {"send", "password"} /\ req[r].at = "consuming" /\ Reaches(r, m)

Held(r) == \A m \in Links : Lnk(m) \in req[r].locks =>
  \/ req[r].op = "password" /\ m = req[r].link
  \/ req[r].op \in {"send", "password"} /\ req[r].at = "consuming" /\ Reaches(r, m)

(* A send owns its link: nobody else delivers or deletes it.                *)
Sending(r) == req[r].op = "send" =>
  /\ req[r].at = "sending" => /\ ~link[req[r].link].sent
                              /\ Exists => link[req[r].link].st \in {"open", "consumed"}
  /\ req[r].at \in {"links", "consuming"} => link[req[r].link].sent

(* A new password holds its link open, and has every other link in view     *)
(* that was open when it began to consume them.                             *)
Setting(r) == req[r].op = "password" =>
  /\ Lnk(req[r].link) \in req[r].locks /\ link[req[r].link].st = "open"
  /\ req[r].at = "consuming" =>
       /\ req[r].newest \in UsedLinks /\ req[r].link <= req[r].newest
       /\ \A m \in 1..req[r].newest : \/ m = req[r].link \/ link[m].st # "open"
                                      \/ Lnk(m) \in req[r].todo \cup req[r].locks

Work(r) == UserHeld(r) /\ Wanted(r) /\ Held(r) /\ Sending(r) /\ Setting(r)

OwnLinks == \A p, q \in Requests :
  p # q /\ req[p].op = "send" /\ req[q].op = "send" => req[p].link # req[q].link

(* What a password was set with leaves no older link open.                  *)
Spent(k) == link[k].used > 0 =>
  /\ link[k].used \in UsedLinks /\ k <= link[k].used
  /\ \A m \in 1..link[k].used : link[m].st # "open"

(* The promise to the user, also about the links that newer ones replaced.  *)
Delivered(l) ==
  Exists /\ (link[l].sent \/ link[l].st = "consumed") /\ (\A k \in Links : link[k].used < l) =>
    \E m \in Links : /\ m >= l /\ link[m].st = "open" /\ link[m].sent
                    /\ link[m].purpose = link[l].purpose

NoUser == user.st = "none" => UsedLinks = {}

LinkInv ==
  /\ NoUser /\ OwnLinks
  /\ \A r \in Requests : Work(r)
  /\ \A l \in Links : Spent(l)
  /\ \A l \in Links : Delivered(l)

LEMMA DeliveredWorks == LinkInv => DeliveredLinkWorks
  BY DEF LinkInv, Delivered, DeliveredLinkWorks

LEMMA StepExists ==
  ASSUME Base, LinkInv, NEW r \in Requests, RequestStep(r)
  PROVE  \/ Exists' = Exists
         \/ user.st = "none" /\ UsedLinks = {} /\ \E role \in Roles : CreateUser(r, role)
         \/ DeleteUser(r) /\ ~Exists'
<1>0. user \in UserRecord /\ req[r].change \in Changes \cup {NoChange} /\ Work(r) /\ NoUser
  BY DEF Base, TypeOK, RequestRecord, LinkInv
<1>1. CASE UNCHANGED user
  BY <1>1 DEF Exists
<1>2. CASE CommitUpdate(r)
  <2>1. Exists
    BY <1>0, <1>2 DEF CommitUpdate, RevokedAll, At, Work, UserHeld
  <2>2. user'.st = IF req[r].change.st = "same" THEN user.st ELSE req[r].change.st
    BY <1>0, <1>2 DEF CommitUpdate, UserRecord
  <2>3. req[r].change.st \in {"same", "active", "inactive"}
    BY <1>0, ChangeIs
  <2> QED BY <2>1, <2>2, <2>3 DEF Exists
<1>3. CASE CommitRevoke(r) \/ CommitPassword(r)
  <2>1. user'.st = user.st
    BY <1>0, <1>3 DEF CommitRevoke, CommitPassword, UserRecord
  <2> QED BY <2>1 DEF Exists
<1>4. CASE DeleteUser(r)
  BY <1>0, <1>4 DEF DeleteUser, Exists, UserRecord
<1>5. CASE \E role \in Roles : CreateUser(r, role)
  BY <1>0, <1>5 DEF CreateUser, NoUser
<1> QED BY <1>1, <1>2, <1>3, <1>4, <1>5, Writers DEF Writes

(* What each writer does to one link. *)
LEMMA LinkStep ==
  ASSUME Base, LinkInv, NEW r \in Requests, RequestStep(r), NEW l \in Links
  PROVE  \/ link'[l] = link[l]
         \/ /\ SendReset(r) \/ \E role \in Roles : CreateUser(r, role)
            /\ link[l] = NoLink /\ l = NextLink
            /\ link'[l].st = "open" /\ ~link'[l].sent /\ link'[l].used = 0
         \/ /\ SendAccepted(r) /\ l = req[r].link
            /\ link'[l] = [link[l] EXCEPT !.sent = TRUE]
         \/ /\ SendFailed(r) /\ l = req[r].link
            /\ \A q \in Requests \ {r} : Lnk(l) \notin req[q].locks
            /\ link'[l] = [link[l] EXCEPT !.st = "deleted"]
         \/ /\ DeleteUser(r) /\ link[l].st # "none"
            /\ \A q \in Requests \ {r} : Lnk(l) \notin req[q].locks
            /\ link'[l] = [link[l] EXCEPT !.st = "deleted"]
         \/ /\ CommitSend(r) /\ Lnk(l) \in req[r].locks
            /\ \A q \in Requests \ {r} : Lnk(l) \notin req[q].locks
            /\ link'[l] = [link[l] EXCEPT !.st = "consumed"]
         \/ /\ CommitPassword(r) /\ Lnk(l) \in req[r].locks
            /\ \A q \in Requests \ {r} : Lnk(l) \notin req[q].locks
            /\ link'[l] = [link[l] EXCEPT !.st = "consumed",
                              !.used = IF l = req[r].link THEN req[r].newest ELSE @]
<1>0. link \in [Links -> LinkRecord] /\ req[r] \in RequestRecord
  BY DEF Base, TypeOK
<1>1. CASE UNCHANGED link
  BY <1>1
<1>2. CASE SendReset(r) \/ \E role \in Roles : CreateUser(r, role)
  <2>1. PICK purpose \in Purposes, created \in BOOLEAN : IssueLink(r, purpose, created)
    BY <1>2 DEF SendReset, CreateUser, Purposes
  <2>2. /\ link' = [link EXCEPT ![NextLink] = [NoLink EXCEPT !.st = "open", !.purpose = purpose]]
        /\ NextLink \notin UsedLinks
    BY <2>1, IssuedLink
  <2>3. CASE l = NextLink
    <3>1. link[l] = NoLink
      BY <2>2, <2>3 DEF UsedLinks, Base, Numbered
    <3>2. link'[l] = [NoLink EXCEPT !.st = "open", !.purpose = purpose]
      BY <1>0, <2>2, <2>3
    <3>3. link'[l].st = "open" /\ ~link'[l].sent /\ link'[l].used = 0
      BY <3>2 DEF NoLink
    <3> QED BY <1>2, <2>3, <3>1, <3>3
  <2>4. CASE l # NextLink
    BY <1>0, <2>2, <2>4
  <2> QED BY <2>3, <2>4
<1>3. CASE SendAccepted(r)
  BY <1>0, <1>3 DEF SendAccepted
<1>4. CASE SendFailed(r)
  BY <1>0, <1>4 DEF SendFailed, Free
<1>5. CASE DeleteUser(r)
  BY <1>5, RowsDiffer DEF DeleteUser, Cascade, Free, UsedLinks
<1>6. Lnk(l) \in req[r].locks => \A q \in Requests \ {r} : Lnk(l) \notin req[q].locks
  BY DEF Base, Exclusive
<1>7. CASE CommitSend(r)
  BY <1>6, <1>7 DEF CommitSend, Consumed
<1>8. CASE CommitPassword(r)
  <2>1. req[r].op = "password" /\ link' = [Consumed(r) EXCEPT ![req[r].link].used = req[r].newest]
    BY <1>8 DEF CommitPassword, ConsumedAll, At
  <2>2. Lnk(req[r].link) \in req[r].locks
    BY <2>1 DEF LinkInv, Work, Setting
  <2>3. CASE Lnk(l) \notin req[r].locks
    BY <2>1, <2>2, <2>3 DEF Consumed
  <2>4. CASE Lnk(l) \in req[r].locks
    <3>1. Consumed(r)[l] = [link[l] EXCEPT !.st = "consumed"] /\ Consumed(r) \in [Links -> LinkRecord]
      BY <1>0, <2>4 DEF Consumed, LinkRecord
    <3>2. link'[l] = [link[l] EXCEPT !.st = "consumed",
                              !.used = IF l = req[r].link THEN req[r].newest ELSE @]
      BY <1>0, <2>1, <3>1 DEF LinkRecord
    <3> QED BY <1>6, <1>8, <2>4, <3>2
  <2> QED BY <2>3, <2>4
<1> QED BY <1>1, <1>2, <1>3, <1>4, <1>5, <1>7, <1>8, Writers

(* A link that was issued keeps its purpose; it is not taken back once      *)
(* delivered, and not opened again once closed.                             *)
LEMMA LinkKept ==
  ASSUME Base, LinkInv, NEW r \in Requests, RequestStep(r), NEW l \in Links, link[l].st # "none"
  PROVE  /\ link'[l].st # "none" /\ link'[l].purpose = link[l].purpose
         /\ link[l].sent => link'[l].sent
         /\ link'[l].sent => link[l].sent \/ (SendAccepted(r) /\ l = req[r].link)
         /\ ~(CommitPassword(r) /\ l = req[r].link) => link'[l].used = link[l].used
         /\ \/ link'[l].st = link[l].st
            \/ /\ \A q \in Requests \ {r} : Lnk(l) \notin req[q].locks
               /\ \/ SendFailed(r) /\ l = req[r].link /\ link'[l].st = "deleted"
                  \/ DeleteUser(r) /\ link'[l].st = "deleted"
                  \/ /\ CommitSend(r) \/ CommitPassword(r)
                     /\ Lnk(l) \in req[r].locks /\ link'[l].st = "consumed"
<1>0. link[l] \in LinkRecord
  BY DEF Base, TypeOK
<1>1. link[l] # NoLink
  BY DEF NoLink
<1>2. CASE link'[l] = link[l]
  BY <1>2
<1>3. CASE SendAccepted(r) /\ l = req[r].link /\ link'[l] = [link[l] EXCEPT !.sent = TRUE]
  BY <1>0, <1>3 DEF LinkRecord
<1>4. ASSUME NEW st \in {"deleted", "consumed"}, link'[l] = [link[l] EXCEPT !.st = st]
      PROVE  /\ link'[l].st = st /\ link'[l].purpose = link[l].purpose
             /\ link'[l].sent = link[l].sent /\ link'[l].used = link[l].used
  BY <1>0, <1>4 DEF LinkRecord
<1>5. CASE link'[l] = [link[l] EXCEPT !.st = "deleted"]
           /\ \/ SendFailed(r) /\ l = req[r].link
              \/ DeleteUser(r)
           /\ \A q \in Requests \ {r} : Lnk(l) \notin req[q].locks
  BY <1>4, <1>5
<1>6. CASE /\ CommitSend(r) /\ Lnk(l) \in req[r].locks
           /\ \A q \in Requests \ {r} : Lnk(l) \notin req[q].locks
           /\ link'[l] = [link[l] EXCEPT !.st = "consumed"]
  BY <1>4, <1>6
<1>7. CASE /\ CommitPassword(r) /\ Lnk(l) \in req[r].locks
           /\ \A q \in Requests \ {r} : Lnk(l) \notin req[q].locks
           /\ link'[l] = [link[l] EXCEPT !.st = "consumed",
                            !.used = IF l = req[r].link THEN req[r].newest ELSE @]
  BY <1>0, <1>7 DEF LinkRecord
<1> QED BY <1>1, <1>2, <1>3, <1>5, <1>6, <1>7, LinkStep

(* The others keep what they know of their links. *)
LEMMA StepOthers ==
  ASSUME Base, LinkInv, NEW r \in Requests, RequestStep(r), NEW q \in Requests, q # r
  PROVE  Work(q)'
<1>0. req'[q] = req[q] /\ Work(q) /\ UsedLinks \subseteq UsedLinks'
  BY StepReq, StepLinks DEF OnlyBy, LinkInv
<1>1. \A l \in Links : link[l].st # "none" =>
        /\ link'[l].st # "none" /\ link'[l].purpose = link[l].purpose
        /\ link[l].sent => link'[l].sent
        /\ link[l].st # "open" => link'[l].st # "open"
  <2> SUFFICES ASSUME NEW l \in Links, link[l].st # "none"
               PROVE  /\ link'[l].st # "none" /\ link'[l].purpose = link[l].purpose
                      /\ link[l].sent => link'[l].sent
                      /\ link[l].st # "open" => link'[l].st # "open"
    OBVIOUS
  <2> QED BY LinkKept
<1>2. /\ req[q].op = "refresh" => req[q].tok \in UsedTokens
      /\ req[q].op \in {"send", "password"} =>
           req[q].link \in UsedLinks /\ req[q].link \in Links /\ link[req[q].link].st # "none"
  BY DEF Base, Existing, UsedLinks
<1>3. UserHeld(q)'
  <2>1. UserRow \in req[q].locks => ~DeleteUser(r)
    BY RowsDiffer DEF DeleteUser, Free
  <2>2. UserRow \in req[q].locks => Exists'
    <3> SUFFICES ASSUME UserRow \in req[q].locks PROVE Exists'
      OBVIOUS
    <3>1. Exists /\ user.st # "none"
      BY <1>0 DEF Work, UserHeld, Exists
    <3> QED BY <2>1, <3>1, StepExists
  <2> QED BY <1>0, <2>2 DEF Work, UserHeld
<1>4. ASSUME NEW m \in Links, Reaches(q, m), req[q].op \in {"send", "password"}
      PROVE  Reaches(q, m)'
  BY <1>0, <1>1, <1>2, <1>4 DEF Reaches
<1>5. Wanted(q)'
  BY <1>0, <1>4 DEF Work, Wanted
<1>6. Held(q)'
  BY <1>0, <1>4 DEF Work, Held
<1>7. Sending(q)'
  <2> SUFFICES ASSUME req[q].op = "send" PROVE Sending(q)'
    BY <1>0 DEF Sending
  <2>0. PICK l \in Links : l = req[q].link /\ link[l].st # "none" /\ link[l] \in LinkRecord
    BY <1>2 DEF Base, TypeOK
  <2>1. SendAccepted(r) \/ SendFailed(r) => req[r].link # l
    BY <2>0 DEF SendAccepted, SendFailed, At, LinkInv, OwnLinks
  <2>2. req[q].at = "sending" => ~link'[l].sent
    <3> SUFFICES ASSUME req[q].at = "sending" PROVE ~link'[l].sent
      OBVIOUS
    <3>1. ~link[l].sent
      BY <1>0, <2>0 DEF Work, Sending
    <3> QED BY <2>0, <2>1, <3>1, LinkKept
  <2>3. req[q].at = "sending" /\ Exists' => link'[l].st \in {"open", "consumed"}
    <3> SUFFICES ASSUME req[q].at = "sending", Exists' PROVE link'[l].st \in {"open", "consumed"}
      OBVIOUS
    <3>0. UsedLinks # {}
      BY <2>0 DEF UsedLinks
    <3>1. Exists = Exists'
      BY <3>0, StepExists
    <3>2. ~DeleteUser(r)
      BY DEF DeleteUser, Exists, Base, TypeOK, UserRecord
    <3>3. link[l].st \in {"open", "consumed"}
      BY <1>0, <2>0, <3>1 DEF Work, Sending
    <3> QED BY <2>0, <2>1, <3>2, <3>3, LinkKept
  <2>4. req[q].at \in {"links", "consuming"} => link'[l].sent
    BY <1>0, <1>1, <2>0 DEF Work, Sending
  <2> QED BY <1>0, <2>0, <2>2, <2>3, <2>4 DEF Sending
<1>8. Setting(q)'
  <2> SUFFICES ASSUME req[q].op = "password" PROVE Setting(q)'
    BY <1>0 DEF Setting
  <2>0. PICK l \in Links : l = req[q].link /\ link[l].st = "open" /\ link[l] \in LinkRecord
                           /\ Lnk(l) \in req[q].locks
    BY <1>0, <1>2 DEF Base, TypeOK, Work, Setting
  <2>1. link'[l].st = "open"
    BY <2>0, LinkKept
  <2>2. req[q].at = "consuming" =>
          \A m \in 1..req[q].newest : \/ m = req[q].link \/ link'[m].st # "open"
                                      \/ Lnk(m) \in req[q].todo \cup req[q].locks
    <3> SUFFICES ASSUME req[q].at = "consuming", NEW m \in 1..req[q].newest,
                        m # l, Lnk(m) \notin req[q].todo \cup req[q].locks
                 PROVE  link'[m].st # "open"
      BY <2>0
    <3>1. link[m].st # "open" /\ req[q].newest \in UsedLinks
      BY <1>0, <2>0 DEF Work, Setting
    <3>2. m \in UsedLinks
      <4>1. PICK n \in 0..MaxIssued : UsedLinks = 1..n
        BY DEF Base, Numbered
      <4> QED BY <3>1, <4>1, SessionsAssumption
    <3> QED BY <1>1, <3>1, <3>2 DEF UsedLinks
  <2> QED BY <1>0, <2>0, <2>1, <2>2 DEF Setting, Work
<1> QED BY <1>3, <1>5, <1>6, <1>7, <1>8 DEF Work

(* A request that does not work on links has nothing to keep. *)
LEMMA PlainWork ==
  ASSUME NEW r \in Requests, req'[r].todo = {}, req'[r].locks = {},
         req'[r].op \notin {"send", "password"}, req'[r].at = "user" => req'[r].op = "update",
         req'[r].op = "update" => req'[r].at = "user"
  PROVE  Work(r)'
  BY DEF Work, UserHeld, Wanted, Held, Sending, Setting

LEMMA IdleWork ==
  ASSUME Base, NEW r \in Requests, Stop(r)
  PROVE  Work(r)'
<1>1. req'[r] = Idle
  BY DEF Stop, Base, TypeOK
<1> QED BY <1>1, IdleIs, PlainWork

(* Tokens are revoked before any link is consumed. *)
LEMMA TokenWork ==
  ASSUME Base, LinkInv, NEW r \in Requests, UNCHANGED <<user, link>>,
         UNCHANGED <<req[r].op, req[r].link, req[r].newest>>,
         req[r].at # "consuming", req'[r].at \notin {"consuming", "user", "sending", "links"},
         req'[r].locks \subseteq req[r].locks \cup {UserRow} \cup {Tok(t) : t \in Tokens},
         req[r].locks \subseteq req'[r].locks,
         \A l \in Links : Lnk(l) \notin req'[r].todo,
         UserRow \in req'[r].locks =>
           Exists /\ req[r].op \in {"update", "revoke", "password"},
         req[r].op = "update" => UserRow \in req'[r].locks
  PROVE  Work(r)'
<1>0. Work(r) /\ Exists' = Exists
  BY DEF LinkInv, Exists
<1>1. \A l \in Links : Lnk(l) \in req'[r].locks => Lnk(l) \in req[r].locks
  BY RowsDiffer
<1>2. UserHeld(r)' /\ Wanted(r)'
  BY <1>0 DEF UserHeld, Wanted
<1>3. Held(r)' /\ Sending(r)' /\ Setting(r)'
  BY <1>0, <1>1 DEF Work, Held, Sending, Setting
<1> QED BY <1>2, <1>3 DEF Work

(* Only issuing a link begins a send. *)
LEMMA StepSends ==
  ASSUME Base, NEW r \in Requests, RequestStep(r), req'[r].op = "send",
         ~(SendReset(r) \/ \E role \in Roles : CreateUser(r, role))
  PROVE  req[r].op = "send" /\ req'[r].link = req[r].link
<1> DEFINE Same == req'[r].op = req[r].op /\ req'[r].link = req[r].link
<1>0. req \in [Requests -> RequestRecord] /\ req[r] \in RequestRecord
  BY DEF Base, TypeOK
<1>1. ASSUME Stop(r) PROVE FALSE
  BY <1>0, <1>1, IdleIs DEF Stop
<1>2. ASSUME NEW place, Go(r, place) PROVE Same
  BY <1>0, <1>2 DEF Go, RequestRecord
<1>3. ASSUME NEW row, NEW place, Lock(r, row, place) PROVE Same
  BY <1>0, <1>3 DEF Lock, RequestRecord
<1>4. CASE LoginBegin(r)
  BY <1>0, <1>4 DEF LoginBegin, Idle
<1>5. CASE LoginStamp(r) \/ SendAccepted(r) \/ SendFailed(r) \/ SetFindUser(r)
  BY <1>1, <1>2, <1>5 DEF LoginStamp, SendAccepted, SendFailed, SetFindUser
<1>6. CASE LoginIssue(r) \/ RefreshCommit(r) \/ CommitRevoke(r) \/ DeleteUser(r)
             \/ CommitSend(r) \/ CommitPassword(r) \/ Dies(r)
  BY <1>1, <1>6
     DEF LoginIssue, RefreshCommit, CommitRevoke, DeleteUser, CommitSend, CommitPassword, Dies
<1>7. CASE (\E t \in Tokens : RefreshLookup(r, t)) \/ \E change \in Changes : UpdateBegin(r, change)
  BY <1>0, <1>7 DEF RefreshLookup, UpdateBegin, Idle
<1>8. CASE \E t \in Tokens : RevokeRow(r, t)
  BY <1>0, <1>8 DEF RevokeRow, RequestRecord
<1>9. CASE RefreshRotate(r) \/ LockUser(r)
  BY <1>1, <1>3, <1>9 DEF RefreshRotate, LockUser
<1>10. CASE RefreshBegin(r)
  BY <1>0, <1>1, <1>10 DEF RefreshBegin, RequestRecord
<1>11. CASE RevokeBegin(r)
  BY <1>0, <1>11 DEF RevokeBegin, RequestRecord
<1>12. CASE ConsumeBegin(r)
  BY <1>0, <1>12 DEF ConsumeBegin, RequestRecord
<1>13. CASE CommitUpdate(r)
  BY <1>0, <1>13 DEF CommitUpdate, Idle
<1>14. CASE \E l \in Links : SetClaim(r, l)
  BY <1>0, <1>14 DEF SetClaim, Idle
<1>15. CASE \E l \in Links : ConsumeRow(r, l)
  BY <1>0, <1>15 DEF ConsumeRow, RequestRecord
<1> QED
  BY <1>4, <1>5, <1>6, <1>7, <1>8, <1>9, <1>10, <1>11, <1>12, <1>13, <1>14, <1>15
     DEF RequestStep

(* The same rows in another place. *)
LEMMA MovedWork ==
  ASSUME Base, LinkInv, NEW r \in Requests, NEW place, Go(r, place), UNCHANGED <<user, link>>,
         req[r].at # "consuming", place \notin {"consuming", "sending", "links"},
         place = "user" => req[r].op = "password",
         req[r].op # "update"
  PROVE  Work(r)'
<1>0. Work(r) /\ Exists' = Exists
  BY DEF LinkInv, Exists
<1>1. /\ req'[r].at = place /\ UNCHANGED <<req[r].op, req[r].link, req[r].newest>>
      /\ UNCHANGED <<req[r].todo, req[r].locks>>
  BY DEF Go, Base, TypeOK, RequestRecord
<1>2. UserHeld(r)'
  BY <1>0, <1>1 DEF Work, UserHeld
<1>3. Wanted(r)' /\ Held(r)' /\ Sending(r)' /\ Setting(r)'
  BY <1>0, <1>1 DEF Work, Wanted, Held, Sending, Setting
<1> QED BY <1>2, <1>3 DEF Work

LEMMA ConsumeWork ==
  ASSUME Base, LinkInv, NEW r \in Requests, ConsumeBegin(r)
  PROVE  Work(r)'
<1>0. /\ Work(r) /\ Exists' = Exists
      /\ req[r].op \in {"send", "password"}
      /\ req[r].op = "send" => req[r].at = "links"
      /\ req[r].op = "password" => req[r].at = "revoking"
      /\ UNCHANGED <<user, link>> /\ UsedLinks' = UsedLinks
  BY DEF LinkInv, Exists, ConsumeBegin, RevokedAll, At, UsedLinks
<1>1. /\ req'[r].at = "consuming" /\ req'[r].todo = {Lnk(l) : l \in ToConsume(r)}
      /\ req'[r].newest = IF req[r].op = "password" THEN NextLink - 1 ELSE 0
      /\ UNCHANGED <<req[r].op, req[r].link, req[r].locks>>
  BY DEF ConsumeBegin, Base, TypeOK, RequestRecord
<1>2. req[r].link \in UsedLinks /\ req[r].link \in Links
  BY <1>0 DEF Base, Existing, UsedLinks
<1>3. UsedLinks = 1..(NextLink - 1) /\ NextLink \in Nat \ {0}
  BY NextNumbers
<1>4. UserHeld(r)'
  BY <1>0, <1>1 DEF Work, UserHeld
<1>5. ASSUME NEW m \in Links, m \in ToConsume(r) PROVE Reaches(r, m)'
  <2>1. m \in UsedLinks
    BY <1>5 DEF ToConsume, UsedLinks
  <2>2. CASE req[r].op = "send"
    BY <1>0, <1>1, <1>5, <2>1, <2>2 DEF ToConsume, Reaches, UsedLinks
  <2>3. CASE req[r].op = "password"
    BY <1>0, <1>1, <1>3, <2>1, <2>3 DEF Reaches, UsedLinks
  <2> QED BY <1>0, <2>2, <2>3
<1>6. Wanted(r)'
  BY <1>0, <1>1, <1>5, RowsDiffer DEF Wanted, ToConsume
<1>7. Held(r)'
  BY <1>0, <1>1 DEF Work, Held
<1>8. Sending(r)'
  BY <1>0, <1>1 DEF Work, Sending
<1>9. Setting(r)'
  <2> SUFFICES ASSUME req[r].op = "password" PROVE Setting(r)'
    BY <1>1 DEF Setting
  <2>1. req'[r].newest = NextLink - 1 /\ req'[r].newest \in UsedLinks
        /\ req[r].link <= req'[r].newest
    BY <1>1, <1>2, <1>3
  <2>2. \A m \in 1..(NextLink - 1) : m = req[r].link \/ link[m].st # "open" \/ m \in ToConsume(r)
    BY <1>3 DEF ToConsume, UsedLinks
  <2> QED BY <1>0, <1>1, <2>1, <2>2 DEF Work, Setting
<1> QED BY <1>4, <1>6, <1>7, <1>8, <1>9 DEF Work

LEMMA ConsumeRowWork ==
  ASSUME Base, LinkInv, NEW r \in Requests, NEW l \in Links, ConsumeRow(r, l)
  PROVE  Work(r)'
<1>0. /\ Work(r) /\ Exists' = Exists /\ req[r].at = "consuming"
      /\ Lnk(l) \in req[r].todo
      /\ UNCHANGED <<user, link>> /\ UsedLinks' = UsedLinks
  BY DEF LinkInv, Exists, ConsumeRow, UsedLinks
<1>1. /\ req'[r].todo = req[r].todo \ {Lnk(l)}
      /\ req'[r].locks = IF link[l].st = "open" THEN req[r].locks \cup {Lnk(l)} ELSE req[r].locks
      /\ UNCHANGED <<req[r].at, req[r].op, req[r].link, req[r].newest>>
  BY DEF ConsumeRow, Base, TypeOK, RequestRecord
<1>2. UserHeld(r)'
  BY <1>0, <1>1, RowsDiffer DEF Work, UserHeld
<1>3. \A m \in Links : Reaches(r, m)' <=> Reaches(r, m)
  BY <1>0, <1>1 DEF Reaches
<1>4. Wanted(r)'
  BY <1>0, <1>1, <1>3 DEF Work, Wanted
<1>5. Held(r)'
  BY <1>0, <1>1, <1>3, RowsDiffer DEF Work, Held, Wanted
<1>6. Sending(r)'
  BY <1>0, <1>1 DEF Work, Sending
<1>7. Setting(r)'
  BY <1>0, <1>1, RowsDiffer DEF Work, Setting
<1> QED BY <1>2, <1>4, <1>5, <1>6, <1>7 DEF Work

LEMMA StepActor ==
  ASSUME Base, LinkInv, NEW r \in Requests, RequestStep(r)
  PROVE  Work(r)'
<1>0. /\ req \in [Requests -> RequestRecord] /\ req[r] \in RequestRecord
      /\ link \in [Links -> LinkRecord] /\ Work(r)
      /\ req[r].op \in {"send", "password"} => req[r].link \in UsedLinks /\ req[r].link \in Links
  BY DEF Base, TypeOK, LinkInv, Existing, UsedLinks
<1>1. CASE LoginBegin(r)
  <2>1. req'[r].todo = {} /\ req'[r].locks = {} /\ req'[r].op = "login" /\ req'[r].at = "verified"
    BY <1>0, <1>1 DEF LoginBegin, Idle
  <2> QED BY <2>1, PlainWork
<1>2. ASSUME NEW t \in Tokens, RefreshLookup(r, t) PROVE Work(r)'
  <2>1. req'[r].todo = {} /\ req'[r].locks = {} /\ req'[r].op \in {"refresh", "revoke"}
        /\ req'[r].at \in {"found", "tokens"}
    BY <1>0, <1>2 DEF RefreshLookup, Idle
  <2> QED BY <2>1, PlainWork
<1>3. ASSUME NEW change \in Changes, UpdateBegin(r, change) PROVE Work(r)'
  <2>1. req'[r].todo = {} /\ req'[r].locks = {} /\ req'[r].op = "update" /\ req'[r].at = "user"
    BY <1>0, <1>3 DEF UpdateBegin, Idle
  <2> QED BY <2>1, PlainWork
<1>4. CASE CommitUpdate(r)
  <2>1. req'[r].todo = {} /\ req'[r].locks = {} /\ req'[r].op \in {"revoke", "none"}
        /\ req'[r].at # "user"
    BY <1>0, <1>4 DEF CommitUpdate, Idle
  <2> QED BY <2>1, PlainWork
<1>5. CASE LoginStamp(r)
  BY <1>5, MovedWork DEF LoginStamp, At
<1>6. CASE LoginIssue(r) \/ RefreshCommit(r) \/ CommitRevoke(r) \/ DeleteUser(r)
             \/ CommitSend(r) \/ CommitPassword(r) \/ Dies(r)
  BY <1>6, IdleWork
     DEF LoginIssue, RefreshCommit, CommitRevoke, DeleteUser, CommitSend, CommitPassword, Dies
<1>7. CASE RefreshBegin(r)
  <2>1. CASE user.st = "active"
    <3>1. /\ req'[r].at = "inserted" /\ req[r].op = "refresh" /\ req[r].at = "found"
          /\ UNCHANGED <<req[r].op, req[r].link, req[r].newest, req[r].todo, req[r].locks>>
          /\ UNCHANGED <<user, link>>
      BY <1>0, <1>7, <2>1 DEF RefreshBegin, At, RequestRecord
    <3> QED BY <1>0, <3>1 DEF Work, UserHeld, Wanted, Held, Sending, Setting, Exists
  <2>2. CASE user.st # "active"
    BY <1>7, <2>2, IdleWork DEF RefreshBegin
  <2> QED BY <2>1, <2>2
<1>8. CASE RefreshRotate(r)
  <2>1. CASE Rotatable(req[r].tok)
    <3>1. /\ req'[r].at = "rotated" /\ req[r].op = "refresh" /\ req[r].at = "inserted"
          /\ UNCHANGED <<req[r].op, req[r].link, req[r].newest, req[r].todo>>
          /\ UNCHANGED <<user, link>> /\ req'[r].locks = req[r].locks \cup {Tok(req[r].tok)}
      BY <1>0, <1>8, <2>1 DEF RefreshRotate, Lock, At, RequestRecord
    <3> QED
      BY <1>0, <3>1, RowsDiffer DEF Work, UserHeld, Wanted, Held, Sending, Setting, Exists
  <2>2. CASE ~Rotatable(req[r].tok)
    BY <1>8, <2>2, IdleWork DEF RefreshRotate
  <2> QED BY <2>1, <2>2
<1>9. CASE LockUser(r)
  <2>1. CASE Exists
    <3>1. /\ req'[r].at \in {"revoking", "tokens"} /\ req[r].at \in {"user", "revoking"}
          /\ UNCHANGED <<req[r].op, req[r].link, req[r].newest, req[r].todo>>
          /\ UNCHANGED <<user, link>> /\ req'[r].locks = req[r].locks \cup {UserRow}
          /\ req[r].op \in {"update", "revoke", "password"}
      BY <1>0, <1>9, <2>1 DEF LockUser, Lock, WantsUser, RevokedAll, At, RequestRecord, Work, UserHeld
    <3>2. \A l \in Links : Lnk(l) \notin req'[r].todo
      BY <1>0, <3>1 DEF Work, Wanted
    <3> QED BY <2>1, <3>1, <3>2, TokenWork
  <2>2. CASE ~Exists
    BY <1>9, <2>2, IdleWork DEF LockUser
  <2> QED BY <2>1, <2>2
<1>10. CASE RevokeBegin(r)
  <2>1. /\ req'[r].at = "revoking" /\ req[r].at = "tokens"
        /\ UNCHANGED <<req[r].op, req[r].link, req[r].newest, req[r].locks>>
        /\ UNCHANGED <<user, link>> /\ req'[r].todo = {Tok(t) : t \in UsedTokens}
    BY <1>0, <1>10 DEF RevokeBegin, RequestRecord
  <2>2. \A l \in Links : Lnk(l) \notin req'[r].todo
    BY <2>1, RowsDiffer
  <2> QED BY <1>0, <2>1, <2>2, TokenWork DEF Work, UserHeld
<1>11. ASSUME NEW t \in Tokens, RevokeRow(r, t) PROVE Work(r)'
  <2>1. /\ req'[r].at = "revoking" /\ req[r].at = "revoking"
        /\ UNCHANGED <<req[r].op, req[r].link, req[r].newest>>
        /\ UNCHANGED <<user, link>> /\ req'[r].todo = req[r].todo \ {Tok(t)}
        /\ req'[r].locks = req[r].locks \cup {Tok(t)}
    BY <1>0, <1>11 DEF RevokeRow, RequestRecord
  <2>2. \A l \in Links : Lnk(l) \notin req'[r].todo
    BY <1>0, <2>1 DEF Work, Wanted
  <2> QED BY <1>0, <2>1, <2>2, RowsDiffer, TokenWork DEF Work, UserHeld
<1>12. CASE SendReset(r) \/ \E role \in Roles : CreateUser(r, role)
  <2>0. PICK purpose \in Purposes, created \in BOOLEAN : IssueLink(r, purpose, created)
    BY <1>12 DEF SendReset, CreateUser, Purposes
  <2>1. /\ req'[r].todo = {} /\ req'[r].locks = {} /\ req'[r].link = NextLink
        /\ req'[r].op = "send" /\ req'[r].at = "sending"
    BY <1>0, <2>0 DEF IssueLink, Idle
  <2>2. link'[NextLink].st = "open" /\ ~link'[NextLink].sent
    <3>1. /\ link' = [link EXCEPT ![NextLink] = [NoLink EXCEPT !.st = "open", !.purpose = purpose]]
          /\ NextLink \in Links
      BY <2>0, IssuedLink
    <3>2. link'[NextLink] = [NoLink EXCEPT !.st = "open", !.purpose = purpose]
      BY <1>0, <3>1
    <3> QED BY <3>2 DEF NoLink
  <2> QED BY <2>1, <2>2 DEF Work, UserHeld, Wanted, Held, Sending, Setting
<1>13. CASE SendAccepted(r)
  <2>1. /\ req'[r].at = "links" /\ req[r].at = "sending" /\ req[r].op = "send"
        /\ UNCHANGED <<req[r].op, req[r].link, req[r].newest, req[r].todo, req[r].locks>>
        /\ UNCHANGED user /\ link'[req[r].link].sent
    BY <1>0, <1>13 DEF SendAccepted, Go, At, RequestRecord, LinkRecord
  <2> QED BY <1>0, <2>1 DEF Work, UserHeld, Wanted, Held, Sending, Setting, Exists
<1>14. CASE SendFailed(r)
  <2>1. CASE Go(r, "failed")
    <3>1. /\ req'[r].at = "failed" /\ req[r].at = "sending" /\ req[r].op = "send"
          /\ UNCHANGED <<req[r].op, req[r].link, req[r].newest, req[r].todo, req[r].locks>>
          /\ UNCHANGED user
      BY <1>0, <1>14, <2>1 DEF SendFailed, Go, At, RequestRecord
    <3> QED BY <1>0, <3>1 DEF Work, UserHeld, Wanted, Held, Sending, Setting, Exists
  <2> QED BY <1>14, <2>1, IdleWork DEF SendFailed
<1>15. ASSUME NEW l \in Links, SetClaim(r, l) PROVE Work(r)'
  <2>1. /\ req'[r].todo = {} /\ req'[r].locks = {Lnk(l)} /\ req'[r].link = l
        /\ req'[r].op = "password" /\ req'[r].at = "claimed"
        /\ link'[l].st = "open"
    BY <1>0, <1>15 DEF SetClaim, Idle
  <2> QED BY <2>1, RowsDiffer DEF Work, UserHeld, Wanted, Held, Sending, Setting
<1>16. ASSUME NEW l \in Links, ConsumeRow(r, l) PROVE Work(r)'
  BY <1>16, ConsumeRowWork
<1>17. CASE SetFindUser(r)
  BY <1>17, IdleWork, MovedWork DEF SetFindUser, At
<1>18. CASE ConsumeBegin(r)
  BY <1>18, ConsumeWork
<1> QED
  BY <1>1, <1>2, <1>3, <1>4, <1>5, <1>6, <1>7, <1>8, <1>9, <1>10, <1>11, <1>12, <1>13,
     <1>14, <1>15, <1>16, <1>17, <1>18 DEF RequestStep

LEMMA StepOwnLinks ==
  ASSUME Base, LinkInv, NEW r \in Requests, RequestStep(r), Takes(r), OnlyBy(r)
  PROVE  OwnLinks'
<1>0. \A q \in Requests : req[q].op = "send" => req[q].link \in UsedLinks
  BY DEF Base, Existing
<1>1. CASE SendReset(r) \/ \E role \in Roles : CreateUser(r, role)
  <2>1. PICK purpose \in Purposes, created \in BOOLEAN : IssueLink(r, purpose, created)
    BY <1>1 DEF SendReset, CreateUser, Purposes
  <2>2. req'[r].link = NextLink /\ NextLink \notin UsedLinks
    BY <2>1, IssuedLink DEF IssueLink, Idle, Base, TypeOK
  <2> QED BY <1>0, <2>2 DEF LinkInv, OwnLinks, OnlyBy
<1>2. CASE ~(SendReset(r) \/ \E role \in Roles : CreateUser(r, role))
  <2>1. req'[r].op = "send" => req[r].op = "send" /\ req'[r].link = req[r].link
    BY <1>2, StepSends
  <2> QED BY <2>1 DEF LinkInv, OwnLinks, OnlyBy
<1> QED BY <1>1, <1>2

LEMMA StepSpent ==
  ASSUME Base, LinkInv, NEW r \in Requests, RequestStep(r), NEW k \in Links
  PROVE  Spent(k)'
<1> SUFFICES ASSUME link'[k].used > 0
             PROVE  /\ link'[k].used \in UsedLinks' /\ k <= link'[k].used
                    /\ \A m \in 1..(link'[k].used) : link'[m].st # "open"
  BY DEF Spent
<1>0. /\ UsedLinks \subseteq UsedLinks' /\ link \in [Links -> LinkRecord] /\ Work(r) /\ Spent(k)
      /\ \A l \in UsedLinks : l \in Links /\ link[l].st # "none"
  BY StepLinks DEF Base, TypeOK, LinkInv, UsedLinks
<1>1. PICK n \in 0..MaxIssued : UsedLinks = 1..n
  BY DEF Base, Numbered
<1>2. n \in Nat
  BY <1>1, SessionsAssumption
<1>3. link[k].st # "none"
  <2> SUFFICES ASSUME link[k] = NoLink PROVE FALSE
    BY DEF Base, Numbered
  <2>1. k \notin UsedLinks /\ link[k].st = "none" /\ link[k].used = 0
    BY DEF NoLink, UsedLinks
  <2>2. ~(SendAccepted(r) /\ k = req[r].link) /\ ~(SendFailed(r) /\ k = req[r].link)
    BY <2>1 DEF SendAccepted, SendFailed, At, Base, Existing
  <2>3. Lnk(k) \notin req[r].locks
    BY <2>1 DEF Base, Existing
  <2>4. link'[k] = link[k] \/ link'[k].used = 0
    BY <2>1, <2>2, <2>3, LinkStep
  <2> QED BY <2>1, <2>4
<1>4. CASE ~(CommitPassword(r) /\ k = req[r].link)
  <2>1. link'[k].used = link[k].used
    BY <1>3, <1>4, LinkKept
  <2>2. link[k].used \in UsedLinks /\ k <= link[k].used
        /\ \A m \in 1..link[k].used : link[m].st # "open"
    BY <1>0, <2>1 DEF Spent
  <2>3. \A m \in 1..link[k].used : m \in UsedLinks
    BY <1>1, <1>2, <2>2
  <2>4. ASSUME NEW m \in 1..link[k].used PROVE link'[m].st # "open"
    BY <1>0, <2>2, <2>3, <2>4, LinkKept
  <2> QED BY <1>0, <2>1, <2>2, <2>4
<1>5. CASE CommitPassword(r) /\ k = req[r].link
  <2>1. /\ req[r].op = "password" /\ req[r].at = "consuming" /\ req[r].todo = {}
        /\ req[r].newest \in UsedLinks /\ k <= req[r].newest /\ Lnk(k) \in req[r].locks
        /\ \A m \in 1..req[r].newest : m = k \/ link[m].st # "open" \/ Lnk(m) \in req[r].locks
    BY <1>0, <1>5 DEF CommitPassword, ConsumedAll, At, Work, Setting
  <2>2. link' = [Consumed(r) EXCEPT ![k].used = req[r].newest]
    BY <1>5 DEF CommitPassword
  <2>3. Consumed(r) \in [Links -> LinkRecord]
    BY <1>0 DEF Consumed, LinkRecord
  <2>4. link'[k].used = req[r].newest
    BY <2>2, <2>3 DEF LinkRecord
  <2>5. ASSUME NEW m \in 1..req[r].newest PROVE link'[m].st # "open"
    <3>1. m \in Links
      BY <1>0, <1>1, <1>2, <2>1
    <3>2. link'[m].st = Consumed(r)[m].st
      BY <2>2, <2>3, <3>1 DEF LinkRecord
    <3>3. CASE Lnk(m) \in req[r].locks
      BY <1>0, <3>1, <3>2, <3>3 DEF Consumed, LinkRecord
    <3>4. CASE Lnk(m) \notin req[r].locks
      BY <2>1, <3>1, <3>2, <3>4 DEF Consumed
    <3> QED BY <3>3, <3>4
  <2> QED BY <1>0, <2>1, <2>4, <2>5
<1> QED BY <1>4, <1>5

LEMMA StepNoUser ==
  ASSUME Base, LinkInv, NEW r \in Requests, RequestStep(r)
  PROVE  NoUser'
<1> SUFFICES ASSUME user'.st = "none" PROVE UsedLinks' = {}
  BY DEF NoUser
<1>0. /\ user \in UserRecord /\ req[r].change \in Changes \cup {NoChange}
      /\ req[r] \in RequestRecord /\ link \in [Links -> LinkRecord]
  BY DEF Base, TypeOK, RequestRecord
<1>1. CASE UNCHANGED user
  <2>1. UsedLinks = {}
    BY <1>1 DEF LinkInv, NoUser
  <2>2. ~SendReset(r) /\ ~\E role \in Roles : CreateUser(r, role)
    BY <1>0, <1>1 DEF SendReset, Exists, CreateUser, UserRecord
  <2>3. ASSUME NEW l \in Links PROVE link'[l] = link[l]
    <3>1. /\ ~(SendAccepted(r) /\ l = req[r].link) /\ ~(SendFailed(r) /\ l = req[r].link)
          /\ Lnk(l) \notin req[r].locks /\ link[l].st = "none"
      BY <2>1 DEF SendAccepted, SendFailed, At, Base, Existing, UsedLinks
    <3> QED BY <2>2, <3>1, LinkStep
  <2> QED BY <2>1, <2>3 DEF UsedLinks
<1>2. CASE CommitUpdate(r)
  <2>1. Exists
    BY <1>2 DEF CommitUpdate, RevokedAll, At, LinkInv, Work, UserHeld
  <2>2. user'.st = IF req[r].change.st = "same" THEN user.st ELSE req[r].change.st
    BY <1>0, <1>2 DEF CommitUpdate, UserRecord
  <2>3. req[r].change.st \in {"same", "active", "inactive"}
    BY <1>0, ChangeIs
  <2> QED BY <2>1, <2>2, <2>3 DEF Exists
<1>3. CASE CommitRevoke(r) \/ CommitPassword(r)
  <2>1. user.st = "none"
    BY <1>0, <1>3 DEF CommitRevoke, CommitPassword, UserRecord
  <2>2. UsedLinks = {}
    BY <2>1 DEF LinkInv, NoUser
  <2>3. CASE CommitRevoke(r)
    BY <2>1, <2>3 DEF CommitRevoke, LinkInv, Work, UserHeld, Exists
  <2>4. CASE CommitPassword(r)
    BY <2>2, <2>4 DEF CommitPassword, ConsumedAll, At, Base, Existing
  <2> QED BY <1>3, <2>3, <2>4
<1>4. CASE DeleteUser(r) \/ \E role \in Roles : CreateUser(r, role)
  BY <1>0, <1>4 DEF DeleteUser, CreateUser, UserRecord
<1> QED BY <1>1, <1>2, <1>3, <1>4, Writers DEF Writes

LEMMA StepDelivered ==
  ASSUME Base, LinkInv, NEW r \in Requests, RequestStep(r), NEW l \in Links
  PROVE  Delivered(l)'
<1> SUFFICES ASSUME Exists', link'[l].sent \/ link'[l].st = "consumed",
                    \A k \in Links : link'[k].used < l
             PROVE  \E m \in Links : /\ m >= l /\ link'[m].st = "open" /\ link'[m].sent
                                    /\ link'[m].purpose = link'[l].purpose
  BY DEF Delivered
<1> DEFINE Witness(m) == /\ m \in Links /\ m >= l /\ link[m].st = "open" /\ link[m].sent
                         /\ link[m].purpose = link[l].purpose
<1>0. /\ link \in [Links -> LinkRecord] /\ Work(r) /\ Links \subseteq Nat
      /\ link' \in [Links -> LinkRecord]
  BY StepLinks, SessionsAssumption DEF Base, TypeOK, LinkInv, Links, LinksNumbered
<1>00. UsedLinks = 1..(NextLink - 1) /\ NextLink \in Nat \ {0}
  BY NextNumbers
<1>1. ~DeleteUser(r)
  BY DEF DeleteUser, Exists, Base, TypeOK, UserRecord
(* An unused number is not delivered. *)
<1>2. link[l].st # "none"
  <2> SUFFICES ASSUME link[l] = NoLink PROVE FALSE
    BY DEF Base, Numbered
  <2>1. l \notin UsedLinks /\ ~link[l].sent /\ link[l].st = "none"
    BY DEF NoLink, UsedLinks
  <2>2. ~(SendAccepted(r) /\ l = req[r].link) /\ ~(SendFailed(r) /\ l = req[r].link)
    BY <2>1 DEF SendAccepted, SendFailed, At, Base, Existing
  <2>3. Lnk(l) \notin req[r].locks
    BY <2>1 DEF Base, Existing
  <2>4. link'[l] = link[l] \/ (link'[l].st = "open" /\ ~link'[l].sent)
    BY <2>1, <2>2, <2>3, LinkStep
  <2> QED BY <2>1, <2>4
<1>3. link'[l].purpose = link[l].purpose
  BY <1>2, LinkKept
<1>4. Exists
  BY <1>1, <1>2, StepExists DEF UsedLinks
<1>5. \A k \in Links : link[k].used < l
  <2> SUFFICES ASSUME NEW k \in Links PROVE link[k].used < l
    OBVIOUS
  <2>1. CASE link[k].st = "none"
    BY <1>0, <2>1 DEF Base, Numbered, NoLink, Links
  <2>2. CASE link[k].st # "none" /\ ~(CommitPassword(r) /\ k = req[r].link)
    BY <2>2, LinkKept
  <2>3. CASE CommitPassword(r) /\ k = req[r].link
    <3>1. link[k].st = "open" /\ Spent(k) /\ link[k].used \in Nat
      BY <1>0, <2>3 DEF CommitPassword, ConsumedAll, At, Work, Setting, LinkInv, LinkRecord, Links
    <3>2. link[k].used = 0
      BY <1>0, <3>1 DEF Spent, Links
    <3> QED BY <1>0, <3>2 DEF Links
  <2> QED BY <2>1, <2>2, <2>3
(* A witness that is not closed by this step stays one. *)
<1>6. ASSUME NEW m, Witness(m),
             ~(SendFailed(r) /\ m = req[r].link), Lnk(m) \notin req[r].locks
      PROVE  /\ m \in Links /\ m >= l /\ link'[m].st = "open" /\ link'[m].sent
             /\ link'[m].purpose = link'[l].purpose
  BY <1>1, <1>3, <1>6, LinkKept
<1>7. link[l].sent \/ link[l].st = "consumed" => \E m \in Links : Witness(m)
  BY <1>4, <1>5 DEF LinkInv, Delivered
<1>8. CASE CommitSend(r)
  <2>1. PICK n \in Links : n = req[r].link /\ link[n].sent /\ link[n].st # "none"
                           /\ req[r].op = "send"
    BY <1>0, <1>8 DEF CommitSend, ConsumedAll, At, Work, Sending, Base, Existing, UsedLinks
  <2>2. \A m \in Links : Lnk(m) \in req[r].locks => m < n /\ link[m].purpose = link[n].purpose
    BY <1>0, <2>1 DEF Work, Held, Reaches
  <2>3. ~SendFailed(r)
    BY <1>8 DEF CommitSend, SendFailed, ConsumedAll, At
  <2>4. ASSUME NEW k \in Links, k >= l, Lnk(k) \in req[r].locks, link[k].purpose = link[l].purpose
        PROVE  \E m \in Links : Witness(m) /\ Lnk(m) \notin req[r].locks
    <3>1. k < n /\ link[n].purpose = link[l].purpose
      BY <2>2, <2>4
    <3>2. \A j \in Links : link[j].used < n
      BY <1>0, <1>5, <2>4, <3>1 DEF LinkRecord
    <3>3. PICK m \in Links : /\ m >= n /\ link[m].st = "open" /\ link[m].sent
                             /\ link[m].purpose = link[n].purpose
      BY <1>4, <2>1, <3>2 DEF LinkInv, Delivered
    <3> QED BY <1>0, <2>2, <2>4, <3>1, <3>3
  <2>5. CASE Lnk(l) \in req[r].locks
    <3>1. l >= l
      BY <1>0
    <3> QED BY <1>6, <2>3, <2>4, <2>5, <3>1
  <2>6. CASE Lnk(l) \notin req[r].locks
    <3>1. link[l].sent \/ link[l].st = "consumed"
      BY <1>2, <1>8, <2>6, LinkKept DEF CommitSend, SendAccepted, ConsumedAll, At
    <3>2. PICK m \in Links : Witness(m)
      BY <1>7, <3>1
    <3>3. CASE Lnk(m) \in req[r].locks
      BY <1>6, <2>3, <2>4, <3>2, <3>3
    <3>4. CASE Lnk(m) \notin req[r].locks
      BY <1>6, <2>3, <3>2, <3>4
    <3> QED BY <3>3, <3>4
  <2> QED BY <2>5, <2>6
<1>9. CASE CommitPassword(r)
  <2>1. PICK n \in Links : n = req[r].link /\ req[r].op = "password" /\ n <= req[r].newest
                           /\ req[r].newest \in UsedLinks /\ Lnk(n) \in req[r].locks
    BY <1>0, <1>9 DEF CommitPassword, ConsumedAll, At, Work, Setting, Base, Existing, UsedLinks
  <2>2. link'[n].used = req[r].newest
    <3>1. Consumed(r) \in [Links -> LinkRecord]
      BY <1>0 DEF Consumed, LinkRecord
    <3> QED BY <1>9, <2>1, <3>1 DEF CommitPassword, LinkRecord
  <2>3. req[r].newest < l
    BY <2>1, <2>2
  <2>4. \A m \in Links : Lnk(m) \in req[r].locks => m < l
    BY <1>0, <1>00, <2>1, <2>3 DEF Work, Held, Reaches
  <2>5. Lnk(l) \notin req[r].locks
    BY <1>0, <2>4
  <2>6. link[l].sent \/ link[l].st = "consumed"
    BY <1>2, <1>9, <2>5, LinkKept DEF CommitPassword, SendAccepted, ConsumedAll, At
  <2>7. PICK m \in Links : Witness(m)
    BY <1>7, <2>6
  <2>8. Lnk(m) \notin req[r].locks /\ ~SendFailed(r)
    BY <1>0, <1>9, <2>4, <2>7 DEF CommitPassword, SendFailed, ConsumedAll, At
  <2> QED BY <1>6, <2>7, <2>8
<1>10. CASE SendAccepted(r) /\ l = req[r].link /\ link[l].st = "open"
  <2>1. link'[l].st = "open" /\ link'[l].sent
    BY <1>0, <1>10 DEF SendAccepted, LinkRecord
  <2>2. l >= l
    BY <1>0
  <2> QED BY <2>1, <2>2
<1>11. CASE /\ ~CommitSend(r) /\ ~CommitPassword(r)
            /\ ~(SendAccepted(r) /\ l = req[r].link /\ link[l].st = "open")
  <2>1. link[l].sent \/ link[l].st = "consumed"
    <3>1. link'[l].st = "consumed" => link[l].st = "consumed"
      BY <1>2, <1>11, LinkKept
    <3>2. SendAccepted(r) /\ l = req[r].link => link[l].st \in {"open", "consumed"}
      BY <1>0, <1>4 DEF SendAccepted, At, Work, Sending
    <3> QED BY <1>2, <1>11, <3>1, <3>2, LinkKept
  <2>2. PICK m \in Links : Witness(m)
    BY <1>7, <2>1
  <2>3. ~(SendFailed(r) /\ m = req[r].link)
    BY <1>0, <2>2 DEF SendFailed, At, Work, Sending
  <2>4. link'[m].st = "open" /\ link'[m].sent /\ link'[m].purpose = link[m].purpose
    BY <1>1, <1>11, <2>2, <2>3, LinkKept
  <2> QED BY <1>3, <2>2, <2>4
<1> QED BY <1>8, <1>9, <1>10, <1>11

(* The link that sets a password was open: no other one did when it was.    *)
LEMMA StepOnePerPassword ==
  ASSUME Base, LinkInv, OneLinkPerPassword, NEW r \in Requests, RequestStep(r)
  PROVE  OneLinkPerPassword'
<1> SUFFICES ASSUME NEW k \in Links, NEW l \in Links, k < l, link'[k].used > 0, link'[l].used > 0
             PROVE  link'[k].used < l
  BY DEF OneLinkPerPassword
<1>0. /\ link \in [Links -> LinkRecord] /\ link' \in [Links -> LinkRecord] /\ Links \subseteq Nat
  BY StepLinks, SessionsAssumption DEF Base, TypeOK, Links, LinksNumbered
<1>1. \A m \in Links : ~(CommitPassword(r) /\ m = req[r].link) /\ link'[m].used > 0 =>
        link[m].used = link'[m].used
  <2> SUFFICES ASSUME NEW m \in Links, ~(CommitPassword(r) /\ m = req[r].link), link'[m].used > 0
               PROVE  link[m].used = link'[m].used
    OBVIOUS
  <2>1. CASE link[m].st # "none"
    BY <2>1, LinkKept
  <2>2. CASE link[m].st = "none"
    <3>1. /\ ~(SendAccepted(r) /\ m = req[r].link) /\ ~(SendFailed(r) /\ m = req[r].link)
          /\ Lnk(m) \notin req[r].locks
      BY <2>2 DEF SendAccepted, SendFailed, At, Base, Existing, UsedLinks
    <3>2. link'[m] = link[m] \/ link'[m].used = 0
      BY <2>2, <3>1, LinkStep
    <3> QED BY <3>2
  <2> QED BY <2>1, <2>2
<1>2. CASE CommitPassword(r) /\ l = req[r].link
  <2>1. link[l].st = "open"
    BY <1>2 DEF CommitPassword, ConsumedAll, At, LinkInv, Work, Setting
  <2>2. link[k].used = link'[k].used /\ Spent(k)
    BY <1>0, <1>1, <1>2 DEF LinkInv
  <2> QED BY <1>0, <2>1, <2>2 DEF Spent, Links, LinkRecord
<1>3. CASE CommitPassword(r) /\ k = req[r].link
  <2>1. link[k].st = "open"
    BY <1>3 DEF CommitPassword, ConsumedAll, At, LinkInv, Work, Setting
  <2>2. link[l].used = link'[l].used /\ Spent(l)
    BY <1>0, <1>1, <1>3 DEF LinkInv
  <2>3. l <= link[l].used /\ link[l].used \in Nat
    <3>1. link[l] \in LinkRecord
      BY <1>0
    <3>2. link[l].used \in Nat
      BY <3>1, SessionsAssumption DEF LinkRecord, Links
    <3> QED BY <2>2, <3>2 DEF Spent
  <2>4. k \in 1..link[l].used
    BY <1>0, <2>3 DEF Links
  <2> QED BY <2>1, <2>2, <2>4 DEF Spent
<1>4. CASE ~(CommitPassword(r) /\ k = req[r].link) /\ ~(CommitPassword(r) /\ l = req[r].link)
  BY <1>1, <1>4 DEF OneLinkPerPassword
<1> QED BY <1>2, <1>3, <1>4

LEMMA StepLinkInv ==
  Base /\ LinkInv /\ OneLinkPerPassword /\ [Next]_vars => (LinkInv /\ OneLinkPerPassword)'
<1> SUFFICES ASSUME Base, LinkInv, OneLinkPerPassword, [Next]_vars
             PROVE  LinkInv' /\ OneLinkPerPassword'
  OBVIOUS
<1>1. ASSUME NEW r \in Requests, RequestStep(r) PROVE LinkInv' /\ OneLinkPerPassword'
  <2>1. OnlyBy(r) /\ Takes(r)
    BY <1>1, StepReq, StepTakes
  <2>2. \A q \in Requests : Work(q)'
    BY <1>1, StepActor, StepOthers
  <2>3. \A l \in Links : Spent(l)' /\ Delivered(l)'
    BY <1>1, StepSpent, StepDelivered
  <2> QED
    BY <1>1, <2>1, <2>2, <2>3, StepNoUser, StepOwnLinks, StepOnePerPassword DEF LinkInv
<1>2. CASE \E t \in Tokens : Logout(t)
  BY <1>2
     DEF Logout, LinkInv, OneLinkPerPassword, NoUser, OwnLinks, Work, UserHeld, Wanted, Held,
         Reaches, Sending, Setting, Spent, Delivered, Exists, UsedLinks
<1>3. CASE Reactivate
  <2>1. Exists /\ Exists' /\ user'.st # "none" /\ UNCHANGED <<link, req>>
    BY <1>3 DEF Reactivate, Exists, Base, TypeOK, UserRecord
  <2> QED
    BY <2>1
       DEF LinkInv, OneLinkPerPassword, NoUser, OwnLinks, Work, UserHeld, Wanted, Held,
           Reaches, Sending, Setting, Spent, Delivered, UsedLinks
<1>4. CASE UNCHANGED vars
  BY <1>4
     DEF vars, LinkInv, OneLinkPerPassword, NoUser, OwnLinks, Work, UserHeld, Wanted, Held,
         Reaches, Sending, Setting, Spent, Delivered, Exists, UsedLinks
<1> QED BY <1>1, <1>2, <1>3, <1>4 DEF Next

LEMMA InitLinks == Init => LinkInv /\ OneLinkPerPassword
<1> SUFFICES ASSUME Init PROVE LinkInv /\ OneLinkPerPassword
  OBVIOUS
<1>1. \A l \in Links : link[l].st = "none" /\ ~link[l].sent /\ link[l].used = 0
  BY DEF Init, NoLink
<1>2. NoUser /\ OwnLinks
  BY <1>1, IdleIs DEF Init, NoUser, OwnLinks, UsedLinks
<1>3. \A r \in Requests : Work(r)
  BY IdleIs DEF Init, Work, UserHeld, Wanted, Held, Sending, Setting
<1> QED BY <1>1, <1>2, <1>3 DEF LinkInv, Spent, Delivered, OneLinkPerPassword

(* A user who was sent a link can set a password, whatever sends overlap,   *)
(* succeed or fail, and of the links that were open together one alone      *)
(* sets it, even when two are used at once.                                 *)
THEOREM LinksOfAUserWork == Spec => []LinksWork
<1>1. Init => Base /\ LinkInv /\ OneLinkPerPassword
  BY InitBase, InitLinks
<1>2. Base /\ LinkInv /\ OneLinkPerPassword /\ [Next]_vars
        => (Base /\ LinkInv /\ OneLinkPerPassword)'
  BY StepBase, StepLinkInv
<1>3. Base /\ LinkInv /\ OneLinkPerPassword => LinksWork
  BY DeliveredWorks DEF LinksWork
<1> QED BY <1>1, <1>2, <1>3, PTL DEF Spec
=============================================================================
