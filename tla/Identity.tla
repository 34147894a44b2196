------------------------------ MODULE Identity ------------------------------
(* identity-service: accounts and their LDAP mirror, sessions and refresh    *)
(* tokens, API tokens, the login lockout.  Accounts live in the users table, *)
(* whose username column is unique and whose deletion cascades to the        *)
(* credentials; the directory is a second copy kept in step by compensating  *)
(* writes and by the mirror task.  Every handler is a sequence of separate   *)
(* store and directory calls; IdCallers are the requests in flight.          *)
EXTENDS Naturals, FiniteSets

CONSTANTS IdNames,      \* usernames
          IdCallers,    \* concurrent requests
          MaxAccounts,  \* bound on account ids NextUserID hands out
          MaxPairs,     \* bound on session/refresh pairs issued
          MaxTokens,    \* bound on API tokens created
          TokenLimit,   \* defaultAPITokenMax
          LoginLimit,   \* defaultLoginMaxFailed
          MaxFailedLogins, \* bound on failed logins
          MaxOutages,   \* bound on failures of the mirror task
          NoAccount

ASSUME IdentityAssumption ==
    /\ IsFiniteSet(IdCallers) /\ IsFiniteSet(IdNames)
    /\ MaxPairs \in Nat /\ LoginLimit \in Nat

VARIABLES acct,          \* username -> row of the users table
          ldapEntry,     \* username -> directory entry: none, bare (no password), password
          idreq,         \* caller -> the request it is executing
          mirrorTask,    \* the ldap-mirror-sync task
          outages,       \* failed calls of the mirror task so far
          accountIds,    \* number of account ids allocated
          sessionPairs,  \* sequence number -> session and refresh token
          apiTokens,     \* sequence number -> API token
          loginFailures, \* username -> login_failures row (count, lock)
          failedLogins,  \* history: username -> failed logins so far
          ldapOn         \* Config.LDAPEnabled

idVars == <<acct, ldapEntry, idreq, mirrorTask, outages, accountIds, sessionPairs,
            apiTokens, loginFailures, failedLogins, ldapOn>>

UserIds == 1 .. MaxAccounts
NewRequest(pc, kind, n, i) == [pc |-> pc, kind |-> kind, name |-> n, id |-> i, was |-> "none", n |-> 0]
IdIdle == NewRequest("idle", "none", NoAccount, 0)
MirrorIdle == [pc |-> "idle", seen |-> {}, todo |-> {}]

NoPair == [id |-> 0, access |-> "none", refresh |-> "none", from |-> 0]
NoToken == [id |-> 0, state |-> "none"]
NoFailures == [count |-> 0, lock |-> "none"]

(* Every username starts as an account of a platform administrator.          *)
IdentityInit ==
    /\ acct \in [IdNames -> {[id |-> i, status |-> "offline", admin |-> TRUE] : i \in UserIds} \cup {NoAccount}]
    /\ \A m, n \in IdNames : m # n /\ acct[m] # NoAccount => acct[m] # acct[n]
    /\ {acct[n].id : n \in {m \in IdNames : acct[m] # NoAccount}}
          = 1 .. Cardinality({m \in IdNames : acct[m] # NoAccount})
    /\ accountIds = Cardinality({m \in IdNames : acct[m] # NoAccount})
    /\ ldapOn \in BOOLEAN
    /\ ldapEntry = [n \in IdNames |-> IF ldapOn /\ acct[n] # NoAccount THEN "password" ELSE "none"]
    /\ idreq = [c \in IdCallers |-> IdIdle]
    /\ mirrorTask = MirrorIdle
    /\ outages = 0
    /\ sessionPairs = [p \in 1 .. MaxPairs |-> NoPair]
    /\ apiTokens = [t \in 1 .. MaxTokens |-> NoToken]
    /\ loginFailures = [n \in IdNames |-> NoFailures]
    /\ failedLogins = [n \in IdNames |-> 0]

activeUser(n) == acct[n] # NoAccount /\ acct[n].status \in {"online", "offline"}
isAdminUser(n) == activeUser(n) /\ acct[n].admin
HoldsId(n, i) == acct[n] # NoAccount /\ acct[n].id = i

IdBegin(c, r) == idreq' = [idreq EXCEPT ![c] = r]
IdStep(c, pc) == idreq' = [idreq EXCEPT ![c].pc = pc]
IdDone(c) == idreq' = [idreq EXCEPT ![c] = IdIdle]
AccountStatic == UNCHANGED <<sessionPairs, apiTokens, loginFailures, failedLogins, ldapOn>>
SessionStatic == UNCHANGED <<ldapEntry, mirrorTask, outages, accountIds, ldapOn>>

-----------------------------------------------------------------------------
(* Accounts and their directory entries                                      *)

(* register, also once per row of batchCreateUsers: a free username, a new id. *)
Register(c, n) ==
    /\ idreq[c].pc = "idle"
    /\ acct[n] = NoAccount
    /\ accountIds < MaxAccounts
    /\ accountIds' = accountIds + 1
    /\ IdBegin(c, NewRequest(IF ldapOn THEN "directory" ELSE "local", "create", n, accountIds + 1))
    /\ UNCHANGED <<acct, ldapEntry, mirrorTask, outages>> /\ AccountStatic

(* updateUser, batchUpdateRole, batchResetPassword and deleteUser read the   *)
(* row after an administrator was authenticated; updateUser also lets a user *)
(* change what is not the administrators' in the user's own row.             *)
Manage(c, actor, n, kind) ==
    /\ idreq[c].pc = "idle"
    /\ isAdminUser(actor) \/ (kind = "password" /\ actor = n /\ activeUser(n))
    /\ acct[n] # NoAccount
    /\ IdBegin(c, NewRequest(IF ldapOn THEN "directory" ELSE "local", kind, n, acct[n].id))
    /\ UNCHANGED <<acct, ldapEntry, mirrorTask, outages, accountIds>> /\ AccountStatic

(* dir.UpsertUser: an existing entry is modified (a creation preserves its   *)
(* password), a missing one is added; dir.DeleteUser treats a missing entry  *)
(* as deleted.                                                               *)
UpsertUser(e, kind) ==
    CASE kind = "delete" -> "none"
      [] kind = "password" -> "password"
      [] kind = "create" -> IF e = "none" THEN "password" ELSE e
      [] OTHER -> IF e = "none" THEN "bare" ELSE e

DirectoryWrite(c) ==
    /\ idreq[c].pc = "directory"
    /\ ldapEntry' = [ldapEntry EXCEPT ![idreq[c].name] = UpsertUser(@, idreq[c].kind)]
    /\ idreq' = [idreq EXCEPT ![c].pc = "local", ![c].was = ldapEntry[idreq[c].name]]
    /\ UNCHANGED <<acct, mirrorTask, outages, accountIds>> /\ AccountStatic

(* The directory is unavailable: 503, nothing was written.                   *)
DirectoryError(c) ==
    /\ idreq[c].pc = "directory"
    /\ IdDone(c)
    /\ UNCHANGED <<acct, ldapEntry, mirrorTask, outages, accountIds>> /\ AccountStatic

(* createIdentityRecordIn inserts ON CONFLICT DO NOTHING over the primary key *)
(* and the unique username; updates and deletes are by id.                   *)
LocalApplies(r) == IF r.kind = "create" THEN acct[r.name] = NoAccount ELSE HoldsId(r.name, r.id)
LocalRow(r) ==
    CASE r.kind = "create" -> [id |-> r.id, status |-> "offline", admin |-> FALSE]
      [] r.kind = "delete" -> NoAccount
      [] r.kind = "demote" -> [acct[r.name] EXCEPT !.admin = FALSE]
      [] r.kind = "disable" -> [acct[r.name] EXCEPT !.status = "disabled"]
      [] r.kind = "enable" -> [acct[r.name] EXCEPT !.status = "offline"]
      [] OTHER -> acct[r.name]

(* ON DELETE CASCADE on sessions, refresh_tokens and user_api_tokens.        *)
CascadePairs(i) == [p \in DOMAIN sessionPairs |->
    IF sessionPairs[p].id = i THEN [sessionPairs[p] EXCEPT !.access = "gone", !.refresh = "gone"] ELSE sessionPairs[p]]
CascadeTokens(i) == [t \in DOMAIN apiTokens |->
    IF apiTokens[t].id = i THEN [apiTokens[t] EXCEPT !.state = "gone"] ELSE apiTokens[t]]

(* The row and its event are written in one transaction; revokeUserCredentials *)
(* after a delete finds no token row left to revoke.                         *)
LocalWrite(c) ==
    /\ idreq[c].pc = "local"
    /\ LocalApplies(idreq[c])
    /\ acct' = [acct EXCEPT ![idreq[c].name] = LocalRow(idreq[c])]
    /\ sessionPairs' = IF idreq[c].kind = "delete" THEN CascadePairs(idreq[c].id) ELSE sessionPairs
    /\ apiTokens' = IF idreq[c].kind = "delete" THEN CascadeTokens(idreq[c].id) ELSE apiTokens
    /\ IdDone(c)
    /\ UNCHANGED <<ldapEntry, mirrorTask, outages, accountIds, loginFailures, failedLogins, ldapOn>>

(* A conflict, a row that is gone, or a store error.                         *)
LocalError(c) ==
    /\ idreq[c].pc = "local"
    /\ IF ldapOn THEN IdStep(c, "compensate") ELSE IdDone(c)
    /\ UNCHANGED <<acct, ldapEntry, mirrorTask, outages, accountIds>> /\ AccountStatic

(* RestoreUpsert deletes an entry this request added and puts the replaced   *)
(* attributes back; the password is not part of the snapshot, so a replaced  *)
(* password is removed.  RestoreDeletedUser adds the entry without password. *)
RestoreUpsert(e, r) ==
    CASE r.kind = "delete" -> IF e = "none" THEN "bare" ELSE e
      [] r.was = "none" -> "none"
      [] r.kind = "password" /\ e # "none" -> "bare"
      [] OTHER -> e

Compensate(c) ==
    /\ idreq[c].pc = "compensate"
    /\ ldapEntry' \in {ldapEntry, [ldapEntry EXCEPT ![idreq[c].name] = RestoreUpsert(@, idreq[c])]}
    /\ IdDone(c)
    /\ UNCHANGED <<acct, mirrorTask, outages, accountIds>> /\ AccountStatic

(* syncLDAPMirror: the directory's usernames, then the users table, then one *)
(* upsert per missing entry; the first error ends the run.                   *)
MirrorList ==
    /\ ldapOn
    /\ mirrorTask.pc = "idle"
    /\ mirrorTask' = [mirrorTask EXCEPT !.pc = "users", !.seen = {n \in IdNames : ldapEntry[n] # "none"}]
    /\ UNCHANGED <<acct, ldapEntry, idreq, outages, accountIds>> /\ AccountStatic

MirrorNothing == {n \in mirrorTask.seen : acct[n] # NoAccount}
MirrorMissing == {n \in IdNames \ mirrorTask.seen : acct[n] # NoAccount}

MirrorUsers ==
    /\ mirrorTask.pc = "users"
    /\ LET missing == MirrorMissing IN
       mirrorTask' = IF missing = {} THEN MirrorIdle ELSE [pc |-> "upsert", seen |-> {}, todo |-> missing]
    /\ UNCHANGED <<acct, ldapEntry, idreq, outages, accountIds>> /\ AccountStatic

MirrorUpsert(n) ==
    /\ mirrorTask.pc = "upsert"
    /\ n \in mirrorTask.todo
    /\ ldapEntry' = [ldapEntry EXCEPT ![n] = UpsertUser(@, "sync")]
    /\ mirrorTask' = IF mirrorTask.todo = {n} THEN MirrorIdle ELSE [mirrorTask EXCEPT !.todo = @ \ {n}]
    /\ UNCHANGED <<acct, idreq, outages, accountIds>> /\ AccountStatic

MirrorError ==
    /\ mirrorTask.pc \in {"users", "upsert"}
    /\ outages < MaxOutages
    /\ outages' = outages + 1
    /\ mirrorTask' = MirrorIdle
    /\ UNCHANGED <<acct, ldapEntry, idreq, accountIds>> /\ AccountStatic

-----------------------------------------------------------------------------
(* Login, lockout and sessions                                               *)

(* loginLocked: a lock that has run out deletes the row.                     *)
loginLocked(n) == loginFailures[n].lock = "on"

(* login and cliLogin up to the failed authentication: a locked username is  *)
(* refused before any count; a wrong password, a missing or a wrong captcha  *)
(* is counted by recordLoginFailure.                                         *)
LoginFail(c, n) ==
    /\ idreq[c].pc = "idle"
    /\ ~loginLocked(n)
    /\ failedLogins[n] < MaxFailedLogins
    /\ failedLogins' = [failedLogins EXCEPT ![n] = @ + 1]
    /\ loginFailures' = IF loginFailures[n].lock = "over" THEN [loginFailures EXCEPT ![n] = NoFailures] ELSE loginFailures
    /\ IdBegin(c, NewRequest("read", "fail", n, 0))
    /\ UNCHANGED <<acct, sessionPairs, apiTokens>> /\ SessionStatic

ReadFailures(c) ==
    /\ idreq[c].pc = "read"
    /\ idreq' = [idreq EXCEPT ![c].pc = "record", ![c].n = loginFailures[idreq[c].name].count]
    /\ UNCHANGED <<acct, sessionPairs, apiTokens, loginFailures, failedLogins>> /\ SessionStatic

LockEarly(count) == count >= LoginLimit
LockAt(count) == count > LoginLimit

(* The count read plus one is patched into the row, if a success has not     *)
(* deleted it since; a first failure creates the row, and a create that lost *)
(* to another failure reads that one's count and goes on from it.            *)
RecordFailure(c) ==
    /\ idreq[c].pc = "record"
    /\ LET n == idreq[c].name
           seen == idreq[c].n
           row == [count |-> seen + 1, lock |-> IF LockAt(seen + 1) THEN "on" ELSE loginFailures[n].lock]
       IN IF seen = 0 /\ loginFailures[n].count > 0
          THEN /\ idreq' = [idreq EXCEPT ![c].n = loginFailures[n].count]
               /\ UNCHANGED loginFailures
          ELSE /\ loginFailures' = IF seen > 0 /\ loginFailures[n].count = 0 THEN loginFailures
                              ELSE [loginFailures EXCEPT ![n] = row]
               /\ IdDone(c)
    /\ UNCHANGED <<acct, sessionPairs, apiTokens, failedLogins>> /\ SessionStatic

LockExpires(n) ==
    /\ loginFailures[n].lock = "on"
    /\ loginFailures' = [loginFailures EXCEPT ![n].lock = "over"]
    /\ UNCHANGED <<acct, idreq, sessionPairs, apiTokens, failedLogins>> /\ SessionStatic

(* authenticateUser accepted the password of an active user (also oidcCallback *)
(* for a registered user); clearLoginFailures.                               *)
LoginPass(c, n, kind) ==
    /\ idreq[c].pc = "idle"
    /\ ~loginLocked(n)
    /\ activeUser(n)
    /\ loginFailures' = [loginFailures EXCEPT ![n] = NoFailures]
    /\ IdBegin(c, NewRequest(IF kind = "cli" THEN "count" ELSE "issue", kind, n, acct[n].id))
    /\ UNCHANGED <<acct, sessionPairs, apiTokens, failedLogins>> /\ SessionStatic

FreePairs == {p \in DOMAIN sessionPairs : sessionPairs[p].access = "none"}

(* IssueSessionPair creates the session, unless the account is gone (foreign *)
(* key), ...                                                                 *)
IssueSession(c) ==
    /\ idreq[c].pc = "issue"
    /\ IF HoldsId(idreq[c].name, idreq[c].id)
       THEN \E p \in FreePairs :
               /\ \A q \in FreePairs : p <= q
               /\ sessionPairs' = [sessionPairs EXCEPT ![p] = [id |-> idreq[c].id, access |-> "live",
                                                              refresh |-> "none", from |-> idreq[c].n]]
               /\ idreq' = [idreq EXCEPT ![c].pc = "pair", ![c].n = p]
       ELSE IdDone(c) /\ UNCHANGED sessionPairs
    /\ UNCHANGED <<acct, apiTokens, loginFailures, failedLogins>> /\ SessionStatic

(* ... and then the refresh token; ...                                       *)
IssueRefresh(c) ==
    /\ idreq[c].pc = "pair"
    /\ HoldsId(idreq[c].name, idreq[c].id) /\ sessionPairs[idreq[c].n].refresh = "none"
    /\ sessionPairs' = [sessionPairs EXCEPT ![idreq[c].n].refresh = "live"]
    /\ idreq' = [idreq EXCEPT ![c].pc = "status", ![c].was = "online"]
    /\ UNCHANGED <<acct, apiTokens, loginFailures, failedLogins>> /\ SessionStatic

(* ... when that fails, it deletes the session, if it can.                   *)
IssueFails(c) ==
    /\ idreq[c].pc = "pair"
    /\ sessionPairs' \in {sessionPairs, [sessionPairs EXCEPT ![idreq[c].n].access = "gone"]}
    /\ IdDone(c)
    /\ UNCHANGED <<acct, apiTokens, loginFailures, failedLogins>> /\ SessionStatic

(* SetUserStatus: a merge patch of the status column, skipped when the row is gone. *)
SetUserStatus(c) ==
    /\ idreq[c].pc = "status"
    /\ acct' = IF HoldsId(idreq[c].name, idreq[c].id)
               THEN [acct EXCEPT ![idreq[c].name].status = idreq[c].was] ELSE acct
    /\ IF idreq[c].kind = "logout" THEN IdStep(c, "deny") ELSE IdDone(c)
    /\ UNCHANGED <<sessionPairs, apiTokens, loginFailures, failedLogins>> /\ SessionStatic

(* logout: RevokeSession deletes the row, the owner goes offline, the token  *)
(* is denylisted and the refresh token of the cookie deleted.  Of a pair that *)
(* was not issued in full, nobody has the tokens.                            *)
Logout(c, p) ==
    /\ idreq[c].pc = "idle"
    /\ sessionPairs[p].access = "live" /\ sessionPairs[p].refresh # "none"
    /\ sessionPairs' = [sessionPairs EXCEPT ![p].access = "gone"]
    /\ \E n \in IdNames :
          /\ HoldsId(n, sessionPairs[p].id)
          /\ IdBegin(c, [pc |-> "status", kind |-> "logout", name |-> n, id |-> sessionPairs[p].id,
                         was |-> "offline", n |-> p])
    /\ UNCHANGED <<acct, apiTokens, loginFailures, failedLogins>> /\ SessionStatic

LogoutDeny(c) ==
    /\ idreq[c].pc = "deny"
    /\ sessionPairs' = [sessionPairs EXCEPT ![idreq[c].n].refresh = "gone"]
    /\ IdDone(c)
    /\ UNCHANGED <<acct, apiTokens, loginFailures, failedLogins>> /\ SessionStatic

(* refreshToken: ConsumeRefreshToken reads the row ...                       *)
RefreshRead(c, p) ==
    /\ idreq[c].pc = "idle"
    /\ sessionPairs[p].refresh = "live"
    /\ IdBegin(c, [NewRequest("consume", "refresh", NoAccount, sessionPairs[p].id) EXCEPT !.n = p])
    /\ UNCHANGED <<acct, sessionPairs, apiTokens, loginFailures, failedLogins>> /\ SessionStatic

(* ... and goes on only when its own delete removed it; the owner must still *)
(* be active.                                                                *)
ConsumeSeen(c) == TRUE
ConsumeRefreshToken(c) == sessionPairs[idreq[c].n].refresh = "live"

RefreshConsume(c) ==
    /\ idreq[c].pc = "consume"
    /\ sessionPairs' = [sessionPairs EXCEPT ![idreq[c].n].refresh = "gone"]
    /\ LET owners == {n \in IdNames : HoldsId(n, idreq[c].id) /\ activeUser(n)} IN
       IF ConsumeRefreshToken(c) /\ owners # {}
       THEN idreq' = [idreq EXCEPT ![c].pc = "issue", ![c].name = CHOOSE n \in owners : TRUE]
       ELSE IdDone(c)
    /\ UNCHANGED <<acct, apiTokens, loginFailures, failedLogins>> /\ SessionStatic

-----------------------------------------------------------------------------
(* API tokens                                                                *)

tokenActive(t, i) == apiTokens[t].id = i /\ apiTokens[t].state = "live"

(* createAPITokenForUser counts the active tokens, then creates.             *)
TokenRequest(c, n) ==
    /\ idreq[c].pc = "idle"
    /\ activeUser(n)
    /\ IdBegin(c, NewRequest("count", "token", n, acct[n].id))
    /\ UNCHANGED <<acct, sessionPairs, apiTokens, loginFailures, failedLogins>> /\ SessionStatic

TokenCount(c) ==
    /\ idreq[c].pc = "count"
    /\ IF Cardinality({t \in DOMAIN apiTokens : tokenActive(t, idreq[c].id)}) >= TokenLimit
       THEN IdDone(c) ELSE IdStep(c, "token")
    /\ UNCHANGED <<acct, sessionPairs, apiTokens, loginFailures, failedLogins>> /\ SessionStatic

TokenCreate(c) ==
    /\ idreq[c].pc = "token"
    /\ IF HoldsId(idreq[c].name, idreq[c].id)
       THEN \E t \in DOMAIN apiTokens :
               /\ apiTokens[t].state = "none"
               /\ \A u \in 1 .. t - 1 : apiTokens[u].state # "none"
               /\ apiTokens' = [apiTokens EXCEPT ![t] = [id |-> idreq[c].id, state |-> "live"]]
       ELSE UNCHANGED apiTokens
    /\ IdDone(c)
    /\ UNCHANGED <<acct, sessionPairs, loginFailures, failedLogins>> /\ SessionStatic

(* revokeAPIToken by its owner: the row is marked, then denylisted.          *)
TokenRevoke(t) ==
    /\ apiTokens[t].state = "live"
    /\ \E n \in IdNames : HoldsId(n, apiTokens[t].id) /\ activeUser(n)
    /\ apiTokens' = [apiTokens EXCEPT ![t].state = "revoked"]
    /\ UNCHANGED <<acct, idreq, sessionPairs, loginFailures, failedLogins>> /\ SessionStatic

(* CleanupExpiredAuthRecords: expired rows and revoked tokens are deleted.   *)
CleanupPair(p) ==
    /\ sessionPairs[p].access = "live" \/ sessionPairs[p].refresh = "live"
    /\ sessionPairs' = [sessionPairs EXCEPT ![p].access = "gone",
                              ![p].refresh = IF sessionPairs[p].access = "live" THEN @ ELSE "gone"]
    /\ UNCHANGED <<acct, idreq, apiTokens, loginFailures, failedLogins>> /\ SessionStatic

CleanupToken(t) ==
    /\ apiTokens[t].state \in {"live", "revoked"}
    /\ apiTokens' = [apiTokens EXCEPT ![t].state = "gone"]
    /\ UNCHANGED <<acct, idreq, sessionPairs, loginFailures, failedLogins>> /\ SessionStatic

-----------------------------------------------------------------------------
MirrorStep == MirrorList \/ MirrorUsers \/ MirrorError \/ \E n \in IdNames : MirrorUpsert(n)

AccountStep(c) ==
    \/ DirectoryWrite(c) \/ DirectoryError(c) \/ LocalWrite(c) \/ LocalError(c) \/ Compensate(c)
    \/ \E n \in IdNames : Register(c, n)
    \/ \E a, n \in IdNames, k \in {"demote", "disable", "enable", "password", "delete"} : Manage(c, a, n, k)

SessionStep(c) ==
    \/ IssueSession(c) \/ IssueRefresh(c) \/ IssueFails(c) \/ SetUserStatus(c) \/ LogoutDeny(c) \/ RefreshConsume(c)
    \/ \E p \in DOMAIN sessionPairs : Logout(c, p) \/ RefreshRead(c, p)
    \/ \E n \in IdNames : LoginPass(c, n, "web")

TokenStep(c) ==
    \/ TokenCount(c) \/ TokenCreate(c)
    \/ \E n \in IdNames : TokenRequest(c, n) \/ LoginPass(c, n, "cli")

LockoutStep(c) ==
    \/ ReadFailures(c) \/ RecordFailure(c)
    \/ \E n \in IdNames : LoginFail(c, n)

CredentialUpkeep ==
    \/ \E p \in DOMAIN sessionPairs : CleanupPair(p)
    \/ \E t \in DOMAIN apiTokens : TokenRevoke(t) \/ CleanupToken(t)

IdentityNext ==
    \/ MirrorStep \/ CredentialUpkeep
    \/ \E n \in IdNames : LockExpires(n)
    \/ \E c \in IdCallers : AccountStep(c) \/ SessionStep(c) \/ TokenStep(c) \/ LockoutStep(c)

IdentitySpec == IdentityInit /\ [][IdentityNext]_idVars

IdentityTypeOK ==
    /\ acct \in [IdNames -> [id : UserIds, status : {"online", "offline", "disabled"}, admin : BOOLEAN]
                               \cup {NoAccount}]
    /\ ldapEntry \in [IdNames -> {"none", "bare", "password"}]
    /\ accountIds \in 0 .. MaxAccounts
    /\ \A p \in DOMAIN sessionPairs : sessionPairs[p].access \in {"none", "live", "gone"}
                               /\ sessionPairs[p].refresh \in {"none", "live", "gone"}
    /\ \A t \in DOMAIN apiTokens : apiTokens[t].state \in {"none", "live", "revoked", "gone"}
    /\ \A n \in IdNames : loginFailures[n].count \in 0 .. MaxFailedLogins + 1

-----------------------------------------------------------------------------
(* A refresh token buys at most one new session: of two refreshes that both  *)
(* read the row, only the one whose delete removed it issues a pair          *)
(* (ConsumeRefreshToken), however the two handlers interleave.               *)
RefreshOnce ==
    \A p, q \in DOMAIN sessionPairs : p # q /\ sessionPairs[p].from # 0 => sessionPairs[p].from # sessionPairs[q].from

(* A username is locked only after more failed logins than the limit: counts *)
(* read before another failure or a success are written back, but never let  *)
(* the recorded count exceed the failures that happened (recordLoginFailure, *)
(* updateConflictingLoginFailure).                                           *)
LockEarned ==
    \A n \in IdNames : loginFailures[n].lock = "on" => failedLogins[n] > LoginLimit

(* An account missing from the directory, because a compensation removed the *)
(* entry or the directory was down, gets one back from the mirror task or is *)
(* itself deleted (syncLDAPMirror).                                          *)
Mirrored ==
    \A n \in IdNames :
        (ldapOn /\ acct[n] # NoAccount /\ ldapEntry[n] = "none") ~> (acct[n] = NoAccount \/ ldapEntry[n] # "none")

(* At least one enabled platform administrator exists.                       *)
AdminRemains == \E n \in IdNames : isAdminUser(n)
=============================================================================
