--------------------------- MODULE IdentityProofs ---------------------------
(***************************************************************************)
(* Identity for any number of usernames, callers and sessions: a refresh   *)
(* token buys one session, and a lock is earned by failed logins.          *)
(***************************************************************************)
EXTENDS Identity, FiniteSetTheorems, TLAPS

\* A leaf is tried with Zenon, and where that fails with the SMT solver.
USE Zenon, SMTT(30)

-----------------------------------------------------------------------------
(* Identity: the login lockout and the refresh tokens.                       *)

IdPcs == {"idle", "directory", "local", "compensate", "read", "record", "issue", "status",
          "deny", "consume", "count", "token", "pair"}

ManageKinds == {"demote", "disable", "enable", "password", "delete"}
IdKinds == ManageKinds \cup {"none", "create", "fail", "web", "cli", "logout", "refresh", "token"}
Entries == {"none", "bare", "password"}
Statuses == {"online", "offline", "disabled"}

IdRequests == [pc : IdPcs, kind : IdKinds, name : IdNames \cup {NoAccount},
               id : Nat, was : Entries \cup Statuses, n : Nat]

(* The requests: only an idle caller and a refresh know no username.         *)
RequestTypes ==
    /\ idreq \in [IdCallers -> IdRequests]
    /\ \A c \in IdCallers : idreq[c].pc \notin {"idle", "consume"} => idreq[c].name \in IdNames
    /\ \A c \in IdCallers : idreq[c].pc = "status" => idreq[c].was \in Statuses

(* The rows the handlers work on.                                            *)
RowTypes ==
    /\ acct \in [IdNames -> [id : Nat, status : Statuses, admin : BOOLEAN] \cup {NoAccount}]
    /\ accountIds \in Nat
    /\ ldapEntry \in [IdNames -> Entries]
    /\ loginFailures \in [IdNames -> [count : Nat, lock : {"none", "on", "over"}]]
    /\ failedLogins \in [IdNames -> Nat]
    /\ sessionPairs \in [1 .. MaxPairs -> [id : Nat, access : {"none", "live", "gone"},
                                           refresh : {"none", "live", "gone"}, from : 0 .. MaxPairs]]

IdentityTypes == RequestTypes /\ RowTypes

(* The failed logins of n that are not recorded yet.                         *)
Unrecorded(n) == {c \in IdCallers : idreq[c].pc \in {"read", "record"} /\ idreq[c].name = n}

UnrecordedCount == [n \in IdNames |-> Cardinality(Unrecorded(n))]

(* No count, recorded or read by a request that will write it back plus one, *)
(* exceeds the failures that have been dealt with.                           *)
CountsBehind ==
    /\ \A n \in IdNames : loginFailures[n].count + UnrecordedCount[n] <= failedLogins[n]
    /\ \A c \in IdCallers : idreq[c].pc = "record" =>
          idreq[c].n + UnrecordedCount[idreq[c].name] <= failedLogins[idreq[c].name]

(* A token that bought a session, or is buying one, is deleted; of the       *)
(* requests that hold one to pay with, no two hold the same.                 *)
TokensSpent ==
    /\ \A p \in 1 .. MaxPairs : sessionPairs[p].access = "none" =>
          sessionPairs[p].refresh = "none" /\ sessionPairs[p].from = 0
    /\ \A p \in 1 .. MaxPairs : sessionPairs[p].from # 0 =>
          sessionPairs[sessionPairs[p].from].refresh = "gone"
    /\ \A c \in IdCallers : idreq[c].pc \in {"issue", "consume", "pair"} => idreq[c].kind # "logout"
    /\ \A c \in IdCallers :
          (idreq[c].pc \in {"consume", "deny", "pair"} \/ (idreq[c].pc = "status" /\ idreq[c].kind = "logout")) =>
             idreq[c].n \in 1 .. MaxPairs /\ sessionPairs[idreq[c].n].access # "none"
    /\ \A c \in IdCallers : idreq[c].pc = "issue" /\ idreq[c].n # 0 =>
          /\ idreq[c].n \in 1 .. MaxPairs
          /\ sessionPairs[idreq[c].n].refresh = "gone"
          /\ \A p \in 1 .. MaxPairs : sessionPairs[p].from # idreq[c].n
          /\ \A d \in IdCallers : d # c /\ idreq[d].pc = "issue" => idreq[d].n # idreq[c].n

IdentityInv == IdentityTypes /\ CountsBehind /\ LockEarned /\ TokensSpent /\ RefreshOnce

\* An idle caller is a request that holds no token.
LEMMA IdleRequest == IdIdle \in IdRequests /\ IdIdle.pc = "idle" /\ IdIdle.n = 0
  BY DEF IdIdle, NewRequest, IdRequests, IdPcs, IdKinds, Entries

\* NewRequest makes a request, with the fields it is given and no token.
LEMMA NewRequestType ==
    ASSUME NEW pc \in IdPcs, NEW k \in IdKinds, NEW n \in IdNames \cup {NoAccount}, NEW i \in Nat
    PROVE  /\ NewRequest(pc, k, n, i) \in IdRequests
           /\ NewRequest(pc, k, n, i).pc = pc
           /\ NewRequest(pc, k, n, i).kind = k
           /\ NewRequest(pc, k, n, i).name = n
           /\ NewRequest(pc, k, n, i).n = 0
  BY DEF NewRequest, IdRequests, Entries

\* A request that moves on keeps everything but its place in the handler.
LEMMA RequestAt ==
    ASSUME NEW r \in IdRequests, NEW pc \in IdPcs
    PROVE  LET x == [r EXCEPT !.pc = pc]
           IN  x \in IdRequests /\ x.pc = pc /\ x.name = r.name /\ x.kind = r.kind /\ x.n = r.n
  BY DEF IdRequests

\* A request that reads a count or holds a token keeps everything else.
LEMMA RequestWithN ==
    ASSUME NEW r \in IdRequests, NEW m \in Nat
    PROVE  LET x == [r EXCEPT !.n = m]
           IN  x \in IdRequests /\ x.pc = r.pc /\ x.name = r.name /\ x.kind = r.kind /\ x.n = m
  BY DEF IdRequests

(* One request moves, to a step it is fit for.                               *)
Moves(c, x) ==
    /\ x \in IdRequests
    /\ x.pc \notin {"idle", "consume"} => x.name \in IdNames
    /\ x.pc = "status" => x.was \in Statuses
    /\ idreq' = [idreq EXCEPT ![c] = x]

\* A move of one caller leaves the other callers where they are.
LEMMA MovedTypes ==
    ASSUME RequestTypes, NEW c \in IdCallers, NEW x, Moves(c, x)
    PROVE  /\ RequestTypes'
           /\ idreq'[c] = x
           /\ \A d \in IdCallers : d # c => idreq'[d] = idreq[d]
  BY DEF RequestTypes, Moves

\* The failed logins under way are finitely many, since the callers are.
LEMMA UnrecordedCounted ==
    /\ \A n \in IdNames : /\ IsFiniteSet(Unrecorded(n))
                          /\ Cardinality(Unrecorded(n)) \in Nat
                          /\ UnrecordedCount[n] = Cardinality(Unrecorded(n))
    /\ UnrecordedCount \in [IdNames -> Nat]
<1>1. \A n \in IdNames : IsFiniteSet(Unrecorded(n))
  BY IdentityAssumption, FS_Subset DEF Unrecorded
<1>2. \A n \in IdNames : Cardinality(Unrecorded(n)) \in Nat
  BY <1>1, FS_CardinalityType
<1>3. QED BY <1>1, <1>2 DEF UnrecordedCount

\* Requests that keep the tokens they hold, and pairs that stay as they are,
\* leave every token spent once.
LEMMA TokensFrame ==
    ASSUME IdentityInv, sessionPairs' = sessionPairs,
           \A d \in IdCallers : idreq'[d].pc \in {"issue", "consume", "deny", "status", "pair"} => idreq'[d] = idreq[d]
    PROVE  TokensSpent' /\ RefreshOnce'
  BY DEF IdentityInv, TokensSpent, RefreshOnce

\* The counts of the logins are numbers, and behind the failures.
LEMMA LoginCounts ==
    ASSUME IdentityInv
    PROVE  /\ loginFailures \in [IdNames -> [count : Nat, lock : {"none", "on", "over"}]]
           /\ failedLogins \in [IdNames -> Nat]
           /\ \A n \in IdNames : loginFailures[n].count + UnrecordedCount[n] <= failedLogins[n]
  BY DEF IdentityInv, IdentityTypes, RowTypes, CountsBehind

(* A request that moves from and to steps that carry no count leaves the     *)
(* login counts behind the failures.                                         *)
LEMMA CountsFrame ==
    ASSUME IdentityInv, NEW c \in IdCallers, NEW x, Moves(c, x),
           idreq[c].pc \notin {"read", "record"}, x.pc \notin {"read", "record"},
           loginFailures' = loginFailures, failedLogins' = failedLogins
    PROVE  CountsBehind' /\ LockEarned'
<1>1. /\ idreq'[c] = x
      /\ \A d \in IdCallers : d # c => idreq'[d] = idreq[d]
  BY MovedTypes DEF IdentityInv, IdentityTypes
<1>2. UnrecordedCount' = UnrecordedCount
  <2>1. \A n \in IdNames : Unrecorded(n)' = Unrecorded(n)
    BY <1>1 DEF Unrecorded
  <2>2. QED BY <2>1 DEF UnrecordedCount
<1>3. \A d \in IdCallers : idreq'[d].pc = "record" => idreq'[d] = idreq[d] /\ idreq[d].name \in IdNames
  BY <1>1 DEF IdentityInv, IdentityTypes, RequestTypes
<1>4. QED BY <1>2, <1>3 DEF IdentityInv, CountsBehind, LockEarned

(* Failures are forgotten, or a lock ends.                                   *)
FailuresForgotten ==
    /\ loginFailures' \in [IdNames -> [count : Nat, lock : {"none", "on", "over"}]]
    /\ \A m \in IdNames : /\ loginFailures'[m].count <= loginFailures[m].count
                          /\ loginFailures'[m].lock = "on" => loginFailures[m].lock = "on"

\* Deleting failure rows and unlocking earns nobody a lock: counts only shrink.
LEMMA ForgettingKeeps ==
    ASSUME IdentityInv, FailuresForgotten, failedLogins' = failedLogins,
           \A n \in IdNames : Unrecorded(n)' = Unrecorded(n),
           \A d \in IdCallers : idreq'[d].pc = "record" => idreq'[d] = idreq[d]
    PROVE  CountsBehind' /\ LockEarned'
<1>1. UnrecordedCount' = UnrecordedCount
  BY DEF UnrecordedCount
<1>2. \A n \in IdNames : loginFailures'[n].count + UnrecordedCount[n] <= failedLogins[n]
  BY UnrecordedCounted DEF FailuresForgotten, IdentityInv, IdentityTypes, RowTypes, CountsBehind
<1>3. CountsBehind'
  BY <1>1, <1>2 DEF IdentityInv, CountsBehind
<1>4. LockEarned'
  BY DEF FailuresForgotten, IdentityInv, LockEarned
<1>5. QED BY <1>3, <1>4

(* The steps of a request that carries no count and no token.                *)
PlainPcs == {"idle", "directory", "local", "compensate", "count", "token"}

(* A request moves between such steps, and no row of a login or a session    *)
(* changes.                                                                  *)
PlainMove(c) ==
    /\ idreq[c].pc \in PlainPcs
    /\ \E x : Moves(c, x) /\ x.pc \in PlainPcs
    /\ UNCHANGED <<loginFailures, failedLogins, sessionPairs>>

\* A move that neither deals with tokens nor with failed logins keeps the invariant.
LEMMA PlainMoveKeeps ==
    ASSUME IdentityInv, NEW c \in IdCallers, PlainMove(c), RowTypes'
    PROVE  IdentityInv'
<1>1. PICK x : Moves(c, x) /\ x.pc \in PlainPcs
  BY DEF PlainMove
<1>2. /\ RequestTypes'
      /\ idreq'[c] = x
      /\ \A d \in IdCallers : d # c => idreq'[d] = idreq[d]
  BY <1>1, MovedTypes DEF IdentityInv, IdentityTypes
<1>3. CountsBehind' /\ LockEarned'
  BY <1>1, CountsFrame DEF PlainMove, PlainPcs
<1>4. \A d \in IdCallers : idreq'[d].pc \in {"issue", "consume", "deny", "status", "pair"} => idreq'[d] = idreq[d]
  BY <1>1, <1>2 DEF PlainPcs
<1>5. TokensSpent' /\ RefreshOnce'
  BY <1>4 DEF IdentityInv, TokensSpent, RefreshOnce, PlainMove
<1>6. QED BY <1>2, <1>3, <1>5 DEF IdentityInv, IdentityTypes

\* The check of a registration is such a move.
LEMMA RegisterMoves ==
    ASSUME IdentityInv, NEW c \in IdCallers, NEW n \in IdNames, Register(c, n)
    PROVE  PlainMove(c) /\ RowTypes'
<1> DEFINE pc == IF ldapOn THEN "directory" ELSE "local"
           x == NewRequest(pc, "create", n, accountIds + 1)
<1>1. pc \in IdPcs /\ pc \in PlainPcs /\ "create" \in IdKinds /\ accountIds + 1 \in Nat
  BY DEF IdentityInv, IdentityTypes, RowTypes, IdPcs, PlainPcs, IdKinds
<1>2. x \in IdRequests /\ x.pc \in PlainPcs /\ x.name \in IdNames
  BY <1>1, NewRequestType
<1>3. Moves(c, x) /\ idreq[c].pc = "idle"
  BY <1>2 DEF Register, IdBegin, Moves, PlainPcs
<1> HIDE DEF x
<1>4. RowTypes'
  BY <1>1 DEF Register, AccountStatic, IdentityInv, IdentityTypes, RowTypes
<1>5. QED BY <1>2, <1>3, <1>4 DEF Register, AccountStatic, PlainMove, PlainPcs

\* So is the check of every administrative request.
LEMMA ManageMoves ==
    ASSUME IdentityInv, NEW c \in IdCallers, NEW a \in IdNames, NEW n \in IdNames, NEW k \in ManageKinds,
           Manage(c, a, n, k)
    PROVE  PlainMove(c) /\ RowTypes'
<1> DEFINE pc == IF ldapOn THEN "directory" ELSE "local"
           x == NewRequest(pc, k, n, acct[n].id)
<1>1. pc \in IdPcs /\ pc \in PlainPcs /\ k \in IdKinds /\ acct[n].id \in Nat
  BY DEF Manage, IdentityInv, IdentityTypes, RowTypes, IdPcs, PlainPcs, IdKinds
<1>2. x \in IdRequests /\ x.pc \in PlainPcs /\ x.name \in IdNames
  BY <1>1, NewRequestType
<1>3. Moves(c, x) /\ idreq[c].pc = "idle"
  BY <1>2 DEF Manage, IdBegin, Moves, PlainPcs
<1> HIDE DEF x
<1>4. RowTypes'
  BY DEF Manage, AccountStatic, IdentityInv, IdentityTypes, RowTypes
<1>5. QED BY <1>2, <1>3, <1>4 DEF Manage, AccountStatic, PlainMove, PlainPcs

\* So are the calls to the directory, their failures and the compensation.
LEMMA DirectoryMoves ==
    ASSUME IdentityInv, NEW c \in IdCallers,
           DirectoryWrite(c) \/ DirectoryError(c) \/ LocalError(c) \/ Compensate(c)
    PROVE  PlainMove(c) /\ RowTypes'
<1>0. idreq[c] \in IdRequests /\ (idreq[c].pc \notin {"idle", "consume"} => idreq[c].name \in IdNames)
  BY DEF IdentityInv, IdentityTypes, RequestTypes
<1>i. IdDone(c) => Moves(c, IdIdle) /\ IdIdle.pc \in PlainPcs
  BY IdleRequest DEF IdDone, Moves, PlainPcs
<1>1. CASE DirectoryWrite(c)
  <2> DEFINE w == ldapEntry[idreq[c].name]
             x == [idreq[c] EXCEPT !.pc = "local", !.was = w]
  <2>1. idreq[c].name \in IdNames /\ w \in Entries /\ "local" \in IdPcs
    BY <1>0, <1>1 DEF DirectoryWrite, IdentityInv, IdentityTypes, RowTypes, IdPcs
  <2>2. x \in IdRequests /\ x.pc = "local" /\ x.name \in IdNames
    <3>1. "local" \in IdPcs /\ w \in Entries \cup Statuses
      BY <2>1
    <3> HIDE DEF w
    <3>2. idreq[c] \in IdRequests
      BY <1>0
    <3>3. x \in IdRequests /\ x.pc = "local" /\ x.name = idreq[c].name
      BY <3>1, <3>2 DEF IdRequests
    <3>4. QED BY <2>1, <3>3
  <2>3. Moves(c, x)
    BY <1>1, <2>2 DEF DirectoryWrite, IdentityInv, IdentityTypes, RequestTypes, Moves
  <2>4. UpsertUser(w, idreq[c].kind) \in Entries
    BY <2>1 DEF UpsertUser, Entries
  <2> HIDE DEF x
  <2>5. ldapEntry' \in [IdNames -> Entries]
    BY <1>1, <2>1, <2>4 DEF DirectoryWrite, IdentityInv, IdentityTypes, RowTypes
  <2>6. RowTypes'
    BY <1>1, <2>5 DEF DirectoryWrite, AccountStatic, IdentityInv, IdentityTypes, RowTypes
  <2>7. QED BY <1>1, <2>2, <2>3, <2>6 DEF DirectoryWrite, PlainMove, PlainPcs, AccountStatic
<1>2. CASE DirectoryError(c)
  <2>1. RowTypes'
    BY <1>2 DEF DirectoryError, AccountStatic, IdentityInv, IdentityTypes, RowTypes
  <2>2. QED BY <1>i, <1>2, <2>1 DEF DirectoryError, PlainMove, PlainPcs, AccountStatic
<1>3. CASE LocalError(c)
  <2> DEFINE x == [idreq[c] EXCEPT !.pc = "compensate"]
  <2>1. x \in IdRequests /\ x.pc = "compensate" /\ x.name = idreq[c].name
    BY <1>0, RequestAt, ZenonT(30) DEF IdPcs
  <2>2. IdStep(c, "compensate") => Moves(c, x)
    BY <1>0, <1>3, <2>1 DEF LocalError, IdStep, Moves, IdentityInv, IdentityTypes, RequestTypes
  <2> HIDE DEF x
  <2>3. RowTypes'
    BY <1>3 DEF LocalError, AccountStatic, IdentityInv, IdentityTypes, RowTypes
  <2>4. QED BY <1>i, <1>3, <2>1, <2>2, <2>3 DEF LocalError, PlainMove, PlainPcs, AccountStatic
<1>4. CASE Compensate(c)
  <2>1. idreq[c].name \in IdNames /\ ldapEntry[idreq[c].name] \in Entries
    BY <1>0, <1>4 DEF Compensate, IdentityInv, IdentityTypes, RowTypes
  <2>2. RestoreUpsert(ldapEntry[idreq[c].name], idreq[c]) \in Entries
    BY <2>1 DEF RestoreUpsert, Entries
  <2>3. ldapEntry' \in [IdNames -> Entries]
    BY <1>4, <2>2 DEF Compensate, IdentityInv, IdentityTypes, RowTypes
  <2>4. RowTypes'
    BY <1>4, <2>3 DEF Compensate, AccountStatic, IdentityInv, IdentityTypes, RowTypes
  <2>5. QED BY <1>i, <1>4, <2>4 DEF Compensate, PlainMove, PlainPcs, AccountStatic
<1>5. QED BY <1>1, <1>2, <1>3, <1>4

\* So is the creation of API tokens.
LEMMA TokenMoves ==
    ASSUME IdentityInv, NEW c \in IdCallers,
           \/ TokenCount(c) \/ TokenCreate(c)
           \/ \E n \in IdNames : TokenRequest(c, n)
    PROVE  PlainMove(c) /\ RowTypes'
<1>0. idreq[c] \in IdRequests /\ (idreq[c].pc \notin {"idle", "consume"} => idreq[c].name \in IdNames)
  BY DEF IdentityInv, IdentityTypes, RequestTypes
<1>i. IdDone(c) => Moves(c, IdIdle) /\ IdIdle.pc \in PlainPcs
  BY IdleRequest DEF IdDone, Moves, PlainPcs
<1>1. CASE TokenCount(c)
  <2> DEFINE x == [idreq[c] EXCEPT !.pc = "token"]
  <2>1. x \in IdRequests /\ x.pc = "token" /\ x.name = idreq[c].name
    BY <1>0, RequestAt DEF IdPcs
  <2>2. IdStep(c, "token") => Moves(c, x)
    BY <1>0, <1>1, <2>1 DEF TokenCount, IdStep, Moves, IdentityInv, IdentityTypes, RequestTypes
  <2> HIDE DEF x
  <2>3. RowTypes'
    BY <1>1 DEF TokenCount, SessionStatic, IdentityInv, IdentityTypes, RowTypes
  <2>4. QED BY <1>i, <1>1, <2>1, <2>2, <2>3 DEF TokenCount, PlainMove, PlainPcs, SessionStatic
<1>2. CASE TokenCreate(c)
  <2>1. RowTypes'
    BY <1>2 DEF TokenCreate, SessionStatic, IdentityInv, IdentityTypes, RowTypes
  <2>2. QED BY <1>i, <1>2, <2>1 DEF TokenCreate, PlainMove, PlainPcs, SessionStatic
<1>3. ASSUME NEW n \in IdNames, TokenRequest(c, n)
      PROVE  PlainMove(c) /\ RowTypes'
  <2> DEFINE x == NewRequest("count", "token", n, acct[n].id)
  <2>1. "count" \in IdPcs /\ "token" \in IdKinds /\ acct[n].id \in Nat
    BY <1>3 DEF TokenRequest, activeUser, IdentityInv, IdentityTypes, RowTypes, IdPcs, IdKinds
  <2>2. x \in IdRequests /\ x.pc = "count" /\ x.name \in IdNames
    BY <2>1, NewRequestType
  <2>3. Moves(c, x) /\ idreq[c].pc = "idle"
    BY <1>3, <2>2 DEF TokenRequest, IdBegin, Moves
  <2> HIDE DEF x
  <2>4. RowTypes'
    BY <1>3 DEF TokenRequest, SessionStatic, IdentityInv, IdentityTypes, RowTypes
  <2>5. QED BY <1>3, <2>2, <2>3, <2>4 DEF TokenRequest, SessionStatic, PlainMove, PlainPcs
<1>4. QED BY <1>1, <1>2, <1>3

(* The mirror task and the revocation of an API token concern no request.    *)
LEMMA MirrorKeeps ==
    ASSUME IdentityInv,
           MirrorStep \/ \E t \in DOMAIN apiTokens : TokenRevoke(t) \/ CleanupToken(t)
    PROVE  IdentityInv'
<1>1. UNCHANGED <<idreq, acct, accountIds, loginFailures, failedLogins, sessionPairs>>
  BY DEF MirrorStep, MirrorList, MirrorUsers, MirrorError, MirrorUpsert, TokenRevoke, CleanupToken,
         AccountStatic, SessionStatic
<1>2. ldapEntry' \in [IdNames -> Entries]
  <2>1. ASSUME NEW n \in IdNames, MirrorUpsert(n)
        PROVE  ldapEntry' \in [IdNames -> Entries]
    <3>1. UpsertUser(ldapEntry[n], "sync") \in Entries
      BY DEF UpsertUser, Entries, IdentityInv, IdentityTypes, RowTypes
    <3>2. QED BY <2>1, <3>1 DEF MirrorUpsert, IdentityInv, IdentityTypes, RowTypes
  <2>2. QED BY <2>1 DEF MirrorStep, MirrorList, MirrorUsers, MirrorError, TokenRevoke, CleanupToken,
                         SessionStatic, IdentityInv, IdentityTypes, RowTypes
<1>3. IdentityTypes'
  BY <1>1, <1>2 DEF IdentityInv, IdentityTypes, RequestTypes, RowTypes
<1>4. CountsBehind' /\ LockEarned'
  BY <1>1 DEF IdentityInv, CountsBehind, LockEarned, UnrecordedCount, Unrecorded
<1>5. TokensSpent' /\ RefreshOnce'
  BY <1>1, ZenonT(30) DEF IdentityInv, TokensSpent, RefreshOnce
<1>6. QED BY <1>3, <1>4, <1>5 DEF IdentityInv

(* A failed login is counted as a failure and as one that is not recorded.   *)
LEMMA LoginFailKeeps ==
    ASSUME IdentityInv, NEW c \in IdCallers, NEW n \in IdNames, LoginFail(c, n)
    PROVE  IdentityInv'
<1> DEFINE x == NewRequest("read", "fail", n, 0)
<1>1. x \in IdRequests /\ x.pc = "read" /\ x.name = n
  <2>1. "read" \in IdPcs /\ "fail" \in IdKinds /\ 0 \in Nat
    BY DEF IdPcs, IdKinds
  <2>2. QED BY <2>1, NewRequestType
<1>2. Moves(c, x) /\ idreq[c].pc = "idle"
  BY <1>1 DEF LoginFail, IdBegin, Moves
<1> HIDE DEF x
<1>3. /\ RequestTypes'
      /\ idreq'[c] = x
      /\ \A d \in IdCallers : d # c => idreq'[d] = idreq[d]
  BY <1>2, MovedTypes DEF IdentityInv, IdentityTypes
<1>4. /\ loginFailures' \in [IdNames -> [count : Nat, lock : {"none", "on", "over"}]]
      /\ \A m \in IdNames : /\ loginFailures'[m].count <= loginFailures[m].count
                            /\ loginFailures'[m].lock = "on" => loginFailures[m].lock = "on"
  <2>1. NoFailures \in [count : Nat, lock : {"none", "on", "over"}] /\ NoFailures.count = 0 /\ NoFailures.lock = "none"
    BY DEF NoFailures
  <2>2. QED BY <2>1 DEF LoginFail, IdentityInv, IdentityTypes, RowTypes
<1>5. /\ failedLogins' \in [IdNames -> Nat]
      /\ failedLogins'[n] = failedLogins[n] + 1
      /\ \A m \in IdNames : m # n => failedLogins'[m] = failedLogins[m]
  BY DEF LoginFail, IdentityInv, IdentityTypes, RowTypes
<1>6. RowTypes'
  BY <1>4, <1>5 DEF LoginFail, SessionStatic, IdentityInv, IdentityTypes, RowTypes
<1>7. /\ UnrecordedCount \in [IdNames -> Nat]
      /\ UnrecordedCount' = [UnrecordedCount EXCEPT ![n] = @ + 1]
  <2>1. Unrecorded(n)' = Unrecorded(n) \cup {c} /\ c \notin Unrecorded(n)
    BY <1>1, <1>2, <1>3 DEF Unrecorded
  <2>2. \A m \in IdNames : m # n => Unrecorded(m)' = Unrecorded(m)
    BY <1>1, <1>2, <1>3 DEF Unrecorded
  <2>3. Cardinality(Unrecorded(n)') = Cardinality(Unrecorded(n)) + 1
    BY <2>1, UnrecordedCounted, FS_AddElement
  <2>4. QED BY <2>2, <2>3, UnrecordedCounted DEF UnrecordedCount
<1>8. CountsBehind'
  <2>1. \A m \in IdNames : loginFailures'[m].count + UnrecordedCount'[m] <= failedLogins'[m]
    <3>1. \A m \in IdNames : failedLogins'[m] = failedLogins[m] + IF m = n THEN 1 ELSE 0
      BY <1>5, LoginCounts
    <3>2. \A m \in IdNames : UnrecordedCount'[m] = UnrecordedCount[m] + IF m = n THEN 1 ELSE 0
      BY <1>7
    <3>3. TAKE m \in IdNames
    <3>4. /\ loginFailures'[m].count \in Nat /\ loginFailures[m].count \in Nat
          /\ UnrecordedCount[m] \in Nat /\ failedLogins[m] \in Nat
          /\ loginFailures'[m].count <= loginFailures[m].count
          /\ loginFailures[m].count + UnrecordedCount[m] <= failedLogins[m]
      BY <1>4, <1>7, LoginCounts
    <3>5. QED BY <3>1, <3>2, <3>4
  <2>2. ASSUME NEW d \in IdCallers, idreq'[d].pc = "record"
        PROVE  idreq'[d].n + UnrecordedCount'[idreq'[d].name] <= failedLogins'[idreq'[d].name]
    <3>1. idreq'[d] = idreq[d] /\ idreq[d].name \in IdNames /\ idreq[d].n \in Nat
      BY <1>1, <1>3, <2>2 DEF IdentityInv, IdentityTypes, RequestTypes, IdRequests
    <3>2. idreq[d].n + UnrecordedCount[idreq[d].name] <= failedLogins[idreq[d].name]
      BY <3>1, <2>2 DEF IdentityInv, CountsBehind
    <3>3. failedLogins[idreq[d].name] \in Nat /\ UnrecordedCount[idreq[d].name] \in Nat
      BY <1>7, <3>1, LoginCounts
    <3>4. CASE idreq[d].name = n
      BY <3>1, <3>2, <3>3, <3>4, <1>5, <1>7
    <3>5. CASE idreq[d].name # n
      BY <3>1, <3>2, <3>3, <3>5, <1>5, <1>7
    <3>6. QED BY <3>4, <3>5
  <2>3. QED BY <2>1, <2>2 DEF CountsBehind
<1>9. LockEarned'
  <2>1. \A m \in IdNames : loginFailures'[m].lock = "on" => failedLogins[m] > LoginLimit
    BY <1>4 DEF IdentityInv, LockEarned
  <2>2. \A m \in IdNames : /\ failedLogins[m] \in Nat /\ failedLogins'[m] \in Nat
                            /\ failedLogins'[m] >= failedLogins[m]
    <3>1. \A m \in IdNames : failedLogins[m] \in Nat
      BY DEF IdentityInv, IdentityTypes, RowTypes
    <3>2. TAKE m \in IdNames
    <3>3. m = n \/ failedLogins'[m] = failedLogins[m]
      BY <1>5
    <3>4. QED BY <1>5, <3>1, <3>3
  <2>3. QED BY <2>1, <2>2, IdentityAssumption DEF LockEarned
<1>10. TokensSpent' /\ RefreshOnce'
  <2>1. sessionPairs' = sessionPairs
    BY DEF LoginFail
  <2>2. \A d \in IdCallers : idreq'[d].pc \in {"issue", "consume", "deny", "status", "pair"} => idreq'[d] = idreq[d]
    BY <1>1, <1>3
  <2>3. QED BY <2>1, <2>2, TokensFrame
<1>11. QED BY <1>3, <1>6, <1>8, <1>9, <1>10 DEF IdentityInv, IdentityTypes
(* The count a request reads is behind the failures, its own among them.     *)
LEMMA ReadFailuresKeeps ==
    ASSUME IdentityInv, NEW c \in IdCallers, ReadFailures(c)
    PROVE  IdentityInv'
<1> DEFINE n == idreq[c].name
           m == loginFailures[n].count
           x == [idreq[c] EXCEPT !.pc = "record", !.n = m]
<1>1. n \in IdNames /\ m \in Nat /\ idreq[c] \in IdRequests /\ idreq[c].pc = "read"
  BY DEF ReadFailures, IdentityInv, IdentityTypes, RequestTypes, RowTypes
<1>2. x \in IdRequests /\ x.pc = "record" /\ x.name = n /\ x.n = m
  <2>1. "record" \in IdPcs
    BY DEF IdPcs
  <2> HIDE DEF m
  <2>2. QED BY <1>1, <2>1 DEF IdRequests
<1>3. Moves(c, x)
  BY <1>1, <1>2 DEF ReadFailures, Moves, IdentityInv, IdentityTypes, RequestTypes
<1> HIDE DEF x
<1>4. /\ RequestTypes'
      /\ idreq'[c] = x
      /\ \A d \in IdCallers : d # c => idreq'[d] = idreq[d]
  BY <1>3, MovedTypes DEF IdentityInv, IdentityTypes
<1>5. UNCHANGED <<acct, accountIds, ldapEntry, loginFailures, failedLogins, sessionPairs>>
  BY DEF ReadFailures, SessionStatic
<1>6. UnrecordedCount' = UnrecordedCount
  <2>1. \A u \in IdNames : Unrecorded(u)' = Unrecorded(u)
    BY <1>1, <1>2, <1>4 DEF Unrecorded
  <2>2. QED BY <2>1 DEF UnrecordedCount
<1>7. CountsBehind'
  <2>1. ASSUME NEW d \in IdCallers, idreq'[d].pc = "record"
        PROVE  idreq'[d].n + UnrecordedCount[idreq'[d].name] <= failedLogins[idreq'[d].name]
    <3>1. CASE d = c
      BY <3>1, <1>1, <1>2, <1>4 DEF IdentityInv, CountsBehind
    <3>2. CASE d # c
      BY <2>1, <3>2, <1>4 DEF IdentityInv, CountsBehind
    <3>3. QED BY <3>1, <3>2
  <2>2. QED BY <2>1, <1>5, <1>6 DEF IdentityInv, CountsBehind
<1>8. TokensSpent' /\ RefreshOnce'
  <2>1. \A d \in IdCallers : idreq'[d].pc \in {"issue", "consume", "deny", "status", "pair"} => idreq'[d] = idreq[d]
    BY <1>2, <1>4
  <2>2. QED BY <1>5, <2>1, TokensFrame
<1>9. RowTypes' /\ LockEarned'
  BY <1>5 DEF IdentityInv, IdentityTypes, RowTypes, LockEarned
<1>10. QED BY <1>4, <1>7, <1>8, <1>9 DEF IdentityInv, IdentityTypes

(* Recording a failure adds one to a count that was behind the failures by   *)
(* one at least: this one.                                                   *)
LEMMA RecordFailureKeeps ==
    ASSUME IdentityInv, NEW c \in IdCallers, RecordFailure(c)
    PROVE  IdentityInv'
<1>0. PICK n \in IdNames : idreq[c].name = n
  BY DEF RecordFailure, IdentityInv, IdentityTypes, RequestTypes
<1> DEFINE seen == idreq[c].n
           reads == seen = 0 /\ loginFailures[n].count > 0
           row == [count |-> seen + 1, lock |-> IF LockAt(seen + 1) THEN "on" ELSE loginFailures[n].lock]
<1>1. /\ seen \in Nat /\ idreq[c] \in IdRequests /\ idreq[c].pc = "record"
      /\ loginFailures[n] \in [count : Nat, lock : {"none", "on", "over"}]
      /\ failedLogins[n] \in Nat
  BY <1>0 DEF RecordFailure, IdentityInv, IdentityTypes, RequestTypes, RowTypes, IdRequests
<1>2. seen + UnrecordedCount[n] <= failedLogins[n]
  BY <1>1, <1>0 DEF IdentityInv, CountsBehind
<1>3. UNCHANGED <<acct, accountIds, ldapEntry, failedLogins, sessionPairs>>
  BY DEF RecordFailure, SessionStatic
<1>4. c \in Unrecorded(n) /\ UnrecordedCount[n] \in Nat /\ UnrecordedCount[n] >= 1
  <2>1. c \in Unrecorded(n)
    BY <1>1, <1>0 DEF Unrecorded
  <2>2. Cardinality(Unrecorded(n)) \in Nat /\ Cardinality(Unrecorded(n)) # 0
    BY <1>1, <1>0, <2>1, UnrecordedCounted, FS_EmptySet
  <2>3. QED BY <1>1, <1>0, <2>1, <2>2, UnrecordedCounted
<1>5. CASE reads
  <2> DEFINE x == [idreq[c] EXCEPT !.n = loginFailures[n].count]
  <2>1. x \in IdRequests /\ x.pc = "record" /\ x.name = n /\ x.n = loginFailures[n].count
    BY <1>1, <1>0, RequestWithN
  <2>2. Moves(c, x) /\ loginFailures' = loginFailures
    BY <1>1, <1>0, <1>5, <2>1 DEF RecordFailure, Moves, IdentityInv, IdentityTypes, RequestTypes
  <2> HIDE DEF x
  <2>3. /\ RequestTypes'
        /\ idreq'[c] = x
        /\ \A d \in IdCallers : d # c => idreq'[d] = idreq[d]
    BY <2>2, MovedTypes DEF IdentityInv, IdentityTypes
  <2>4. UnrecordedCount' = UnrecordedCount
    <3>1. \A u \in IdNames : Unrecorded(u)' = Unrecorded(u)
      BY <1>1, <1>0, <2>1, <2>3 DEF Unrecorded
    <3>2. QED BY <3>1 DEF UnrecordedCount
  <2>5. CountsBehind'
    <3>1. ASSUME NEW d \in IdCallers, idreq'[d].pc = "record"
          PROVE  idreq'[d].n + UnrecordedCount[idreq'[d].name] <= failedLogins[idreq'[d].name]
      <4>1. CASE d = c
        BY <4>1, <1>1, <1>0, <2>1, <2>3 DEF IdentityInv, CountsBehind
      <4>2. CASE d # c
        BY <3>1, <4>2, <2>3 DEF IdentityInv, CountsBehind
      <4>3. QED BY <4>1, <4>2
    <3>2. QED BY <3>1, <1>3, <2>2, <2>4 DEF IdentityInv, CountsBehind
  <2>6. TokensSpent' /\ RefreshOnce'
    <3>1. \A d \in IdCallers : idreq'[d].pc \in {"issue", "consume", "deny", "status", "pair"} => idreq'[d] = idreq[d]
      BY <2>1, <2>3
    <3>2. QED BY <1>3, <3>1, TokensFrame
  <2>7. RowTypes' /\ LockEarned'
    BY <1>3, <2>2 DEF IdentityInv, IdentityTypes, RowTypes, LockEarned
  <2>8. QED BY <2>3, <2>5, <2>6, <2>7 DEF IdentityInv, IdentityTypes
<1>6. CASE ~reads
  <2>1. Moves(c, IdIdle) /\ IdIdle.pc = "idle"
    BY <1>0, <1>6, IdleRequest DEF RecordFailure, IdDone, Moves
  <2>2. \/ loginFailures' = loginFailures
        \/ loginFailures' = [loginFailures EXCEPT ![n] = row]
    BY <1>0, <1>6 DEF RecordFailure
  <2>3. /\ RequestTypes'
        /\ idreq'[c] = IdIdle
        /\ \A d \in IdCallers : d # c => idreq'[d] = idreq[d]
    BY <2>1, MovedTypes DEF IdentityInv, IdentityTypes
  <2>4. UnrecordedCount' = [UnrecordedCount EXCEPT ![n] = @ - 1]
    <3>1. Unrecorded(n)' = Unrecorded(n) \ {c}
      BY <1>1, <1>0, <2>1, <2>3 DEF Unrecorded
    <3>2. \A u \in IdNames : u # n => Unrecorded(u)' = Unrecorded(u)
      BY <1>1, <1>0, <2>1, <2>3 DEF Unrecorded
    <3>3. Cardinality(Unrecorded(n)') = Cardinality(Unrecorded(n)) - 1
      BY <1>1, <1>0, <1>4, <3>1, UnrecordedCounted, FS_RemoveElement
    <3>4. QED BY <3>2, <3>3, UnrecordedCounted DEF UnrecordedCount
  <2>5. /\ row \in [count : Nat, lock : {"none", "on", "over"}]
        /\ row.count = seen + 1
        /\ row.lock = "on" => loginFailures[n].lock = "on" \/ seen + 1 > LoginLimit
    BY <1>1, <1>0 DEF LockAt
  <2> HIDE DEF row
  <2>6. /\ loginFailures' \in [IdNames -> [count : Nat, lock : {"none", "on", "over"}]]
        /\ loginFailures'[n] \in {loginFailures[n], row}
        /\ \A u \in IdNames : u # n => loginFailures'[u] = loginFailures[u]
    <3>1. loginFailures \in [IdNames -> [count : Nat, lock : {"none", "on", "over"}]]
      BY DEF IdentityInv, IdentityTypes, RowTypes
    <3>2. QED BY <2>2, <2>5, <3>1
  <2>7. /\ UnrecordedCount \in [IdNames -> Nat] /\ UnrecordedCount'[n] = UnrecordedCount[n] - 1
        /\ \A u \in IdNames : u # n => UnrecordedCount'[u] = UnrecordedCount[u]
    BY <1>1, <1>0, <2>4, UnrecordedCounted
  <2>8. CountsBehind'
    <3>1. ASSUME NEW u \in IdNames
          PROVE  loginFailures'[u].count + UnrecordedCount'[u] <= failedLogins[u]
      <4>1. CASE u = n
        <5>1. loginFailures[n].count + UnrecordedCount[n] <= failedLogins[n]
          BY <1>1, <1>0 DEF IdentityInv, CountsBehind
        <5>2. loginFailures'[n].count = loginFailures[n].count \/ loginFailures'[n].count = seen + 1
          BY <2>5, <2>6
        <5>3. QED BY <4>1, <5>1, <5>2, <1>1, <1>0, <1>2, <1>4, <2>7
      <4>2. CASE u # n
        BY <4>2, <2>6, <2>7 DEF IdentityInv, CountsBehind
      <4>3. QED BY <4>1, <4>2
    <3>2. ASSUME NEW d \in IdCallers, idreq'[d].pc = "record"
          PROVE  idreq'[d].n + UnrecordedCount'[idreq'[d].name] <= failedLogins[idreq'[d].name]
      <4>1. /\ idreq'[d] = idreq[d] /\ idreq[d].n \in Nat /\ idreq[d].name \in IdNames
            /\ failedLogins[idreq[d].name] \in Nat
        BY <2>1, <2>3, <3>2 DEF IdentityInv, IdentityTypes, RequestTypes, RowTypes, IdRequests
      <4>2. idreq[d].n + UnrecordedCount[idreq[d].name] <= failedLogins[idreq[d].name]
        BY <3>2, <4>1 DEF IdentityInv, CountsBehind
      <4>3. UnrecordedCount'[idreq[d].name] \in {UnrecordedCount[idreq[d].name], UnrecordedCount[idreq[d].name] - 1}
        BY <4>1, <2>7
      <4>4. UnrecordedCount[idreq[d].name] \in Nat
        BY <4>1, <2>7
      <4>5. QED BY <4>1, <4>2, <4>3, <4>4
    <3>3. QED BY <3>1, <3>2, <1>3 DEF CountsBehind
  <2>9. LockEarned'
    <3>1. ASSUME NEW u \in IdNames, loginFailures'[u].lock = "on"
          PROVE  failedLogins[u] > LoginLimit
      <4>1. CASE loginFailures'[u] = loginFailures[u]
        BY <3>1, <4>1 DEF IdentityInv, LockEarned
      <4>2. CASE u = n /\ loginFailures'[u] = row
        <5>1. CASE loginFailures[n].lock = "on"
          BY <4>2, <5>1 DEF IdentityInv, LockEarned
        <5>2. CASE seen + 1 > LoginLimit
          BY <4>2, <5>2, <1>1, <1>0, <1>2, <1>4, IdentityAssumption
        <5>3. QED BY <3>1, <4>2, <5>1, <5>2, <2>5
      <4>3. QED BY <4>1, <4>2, <2>6
    <3>2. QED BY <3>1, <1>3 DEF LockEarned
  <2>10. TokensSpent' /\ RefreshOnce'
    <3>1. \A d \in IdCallers : idreq'[d].pc \in {"issue", "consume", "deny", "status", "pair"} => idreq'[d] = idreq[d]
      BY <2>1, <2>3
    <3>2. QED BY <1>3, <3>1, TokensFrame
  <2>11. RowTypes'
    BY <1>3, <2>6 DEF IdentityInv, IdentityTypes, RowTypes
  <2>12. QED BY <2>3, <2>8, <2>9, <2>10, <2>11 DEF IdentityInv, IdentityTypes
<1>7. QED BY <1>5, <1>6
(* A session that was created stays so, a deleted refresh token              *)
(* stays deleted, and no step but IssueSession says what a pair was bought   *)
(* with.                                                                     *)
PairsAge ==
    \A p \in 1 .. MaxPairs :
        /\ sessionPairs'[p].from = sessionPairs[p].from
        /\ sessionPairs[p].refresh = "gone" => sessionPairs'[p].refresh = "gone"
        /\ sessionPairs[p].access # "none" => sessionPairs'[p].access # "none"
        /\ sessionPairs'[p].access = "none" => sessionPairs'[p].refresh = sessionPairs[p].refresh

(* A request that has no token to pay with, and knows an issued pair if it   *)
(* works on one.                                                             *)
Tokenless(x) ==
    /\ x.pc = "issue" => x.n = 0
    /\ x.pc \in {"issue", "consume", "pair"} => x.kind # "logout"
    /\ (x.pc \in {"consume", "deny", "pair"} \/ (x.pc = "status" /\ x.kind = "logout")) =>
          x.n \in 1 .. MaxPairs /\ sessionPairs[x.n].access # "none"

\* Where tokens only get deleted and no request takes one up, none is spent twice.
LEMMA AgeingKeeps ==
    ASSUME IdentityInv, RowTypes', PairsAge,
           \A d \in IdCallers : idreq'[d] = idreq[d] \/ Tokenless(idreq'[d])
    PROVE  TokensSpent' /\ RefreshOnce'
<1>1. /\ sessionPairs \in [1 .. MaxPairs -> [id : Nat, access : {"none", "live", "gone"},
                                           refresh : {"none", "live", "gone"}, from : 0 .. MaxPairs]]
      /\ DOMAIN sessionPairs' = 1 .. MaxPairs
  BY DEF IdentityInv, IdentityTypes, RowTypes
<1>2. RefreshOnce'
  BY <1>1, ZenonT(30) DEF PairsAge, IdentityInv, RefreshOnce
<1>3. \A p \in 1 .. MaxPairs : sessionPairs'[p].access = "none" =>
          sessionPairs'[p].refresh = "none" /\ sessionPairs'[p].from = 0
  BY DEF PairsAge, IdentityInv, TokensSpent
<1>4. \A p \in 1 .. MaxPairs : sessionPairs'[p].from # 0 =>
          sessionPairs'[sessionPairs'[p].from].refresh = "gone"
  <2>1. TAKE p \in 1 .. MaxPairs
  <2>2. HAVE sessionPairs'[p].from # 0
  <2>3. sessionPairs[p].from \in 1 .. MaxPairs /\ sessionPairs'[p].from = sessionPairs[p].from
    BY <1>1, <2>2, IdentityAssumption DEF PairsAge
  <2>4. QED BY <2>2, <2>3 DEF PairsAge, IdentityInv, TokensSpent
<1>5. \A d \in IdCallers :
          /\ idreq'[d].pc \in {"issue", "consume", "pair"} => idreq'[d].kind # "logout"
          /\ idreq'[d].pc = "issue" => idreq'[d] = idreq[d] \/ idreq'[d].n = 0
  BY DEF Tokenless, IdentityInv, TokensSpent
<1>6. ASSUME NEW d \in IdCallers,
             idreq'[d].pc \in {"consume", "deny", "pair"} \/ (idreq'[d].pc = "status" /\ idreq'[d].kind = "logout")
      PROVE  idreq'[d].n \in 1 .. MaxPairs /\ sessionPairs'[idreq'[d].n].access # "none"
  <2>1. idreq'[d].n \in 1 .. MaxPairs /\ sessionPairs[idreq'[d].n].access # "none"
    BY <1>6, ZenonT(30) DEF Tokenless, IdentityInv, TokensSpent
  <2>2. QED BY <2>1 DEF PairsAge
<1>7. ASSUME NEW d \in IdCallers, idreq'[d].pc = "issue", idreq'[d].n # 0
      PROVE  /\ idreq'[d].n \in 1 .. MaxPairs
             /\ sessionPairs'[idreq'[d].n].refresh = "gone"
             /\ \A p \in 1 .. MaxPairs : sessionPairs'[p].from # idreq'[d].n
             /\ \A e \in IdCallers : e # d /\ idreq'[e].pc = "issue" => idreq'[e].n # idreq'[d].n
  BY <1>5, <1>7 DEF PairsAge, IdentityInv, TokensSpent
<1>8. QED BY <1>2, <1>3, <1>4, <1>5, <1>6, <1>7 DEF IdentityInv, TokensSpent

\* The same for a move of one caller.
LEMMA AgeingMoveKeeps ==
    ASSUME IdentityInv, RowTypes', PairsAge, NEW c \in IdCallers, NEW x, Moves(c, x), Tokenless(x)
    PROVE  TokensSpent' /\ RefreshOnce'
<1>1. /\ idreq'[c] = x
      /\ \A d \in IdCallers : d # c => idreq'[d] = idreq[d]
  BY MovedTypes DEF IdentityInv, IdentityTypes
<1>2. QED BY <1>1, AgeingKeeps

\* The local write of a request; with a deleted account go its tokens.
LEMMA LocalWriteKeeps ==
    ASSUME IdentityInv, NEW c \in IdCallers, LocalWrite(c)
    PROVE  IdentityInv'
<1>1. /\ idreq[c].name \in IdNames /\ idreq[c].pc = "local" /\ idreq[c].id \in Nat
      /\ acct[idreq[c].name] \in [id : Nat, status : Statuses, admin : BOOLEAN] \cup {NoAccount}
  BY DEF LocalWrite, IdentityInv, IdentityTypes, RequestTypes, RowTypes, IdRequests
<1>2. Moves(c, IdIdle) /\ IdIdle.pc = "idle" /\ UNCHANGED <<loginFailures, failedLogins, ldapEntry, accountIds>>
  BY IdleRequest DEF LocalWrite, IdDone, Moves
<1>3. LocalRow(idreq[c]) \in [id : Nat, status : Statuses, admin : BOOLEAN] \cup {NoAccount}
  <2>1. idreq[c].kind \in {"demote", "disable", "enable"} => acct[idreq[c].name] # NoAccount
    BY DEF LocalWrite, LocalApplies, HoldsId
  <2>2. CASE idreq[c].kind \in {"demote", "disable", "enable"}
    BY <1>1, <2>1, <2>2 DEF LocalRow, Statuses
  <2>3. CASE idreq[c].kind \notin {"demote", "disable", "enable"}
    BY <1>1, <2>3 DEF LocalRow, Statuses
  <2>4. QED BY <2>2, <2>3
<1>4. acct' \in [IdNames -> [id : Nat, status : Statuses, admin : BOOLEAN] \cup {NoAccount}]
  BY <1>1, <1>3 DEF LocalWrite, IdentityInv, IdentityTypes, RowTypes
<1> DEFINE PairType == [id : Nat, access : {"none", "live", "gone"},
                        refresh : {"none", "live", "gone"}, from : 0 .. MaxPairs]
<1>5. sessionPairs' \in [1 .. MaxPairs -> PairType] /\ PairsAge
  <2>1. sessionPairs \in [1 .. MaxPairs -> PairType]
    BY DEF IdentityInv, IdentityTypes, RowTypes
  <2>2. \A p \in 1 .. MaxPairs :
          LET q == [sessionPairs[p] EXCEPT !.access = "gone", !.refresh = "gone"]
          IN  q \in PairType /\ q.access = "gone" /\ q.refresh = "gone" /\ q.from = sessionPairs[p].from
    BY <2>1
  <2>3. CascadePairs(idreq[c].id) \in [1 .. MaxPairs -> PairType]
    BY <2>1, <2>2 DEF CascadePairs
  <2>4. \/ sessionPairs' = sessionPairs
        \/ sessionPairs' = CascadePairs(idreq[c].id)
    BY DEF LocalWrite
  <2>5. \A p \in 1 .. MaxPairs :
           \/ sessionPairs'[p] = sessionPairs[p]
           \/ sessionPairs'[p] = [sessionPairs[p] EXCEPT !.access = "gone", !.refresh = "gone"]
    BY <2>1, <2>4 DEF CascadePairs
  <2>6. PairsAge
    BY <2>2, <2>5 DEF PairsAge
  <2>7. QED BY <2>1, <2>3, <2>4, <2>6
<1>6. RowTypes'
  BY <1>2, <1>4, <1>5 DEF IdentityInv, IdentityTypes, RowTypes
<1>7. RequestTypes'
  BY <1>2, MovedTypes DEF IdentityInv, IdentityTypes
<1>8. CountsBehind' /\ LockEarned'
  BY <1>1, <1>2, CountsFrame
<1>9. TokensSpent' /\ RefreshOnce'
  BY <1>2, <1>5, <1>6, AgeingMoveKeeps DEF Tokenless
<1>10. QED BY <1>6, <1>7, <1>8, <1>9 DEF IdentityInv, IdentityTypes
PairType == [id : Nat, access : {"none", "live", "gone"}, refresh : {"none", "live", "gone"}, from : 0 .. MaxPairs]

(* What the requests of a session do to the pairs, short of issuing one.     *)
SessionMove(c) ==
    /\ \E x : /\ Moves(c, x)
              /\ x.pc \notin {"read", "record", "issue"}
              /\ Tokenless(x)
    /\ idreq[c].pc \notin {"read", "record"}
    /\ UNCHANGED <<loginFailures, failedLogins>>
    /\ PairsAge /\ RowTypes'

\* A move of a login, a logout or a refresh that pays with no token keeps the invariant.
LEMMA SessionMoveKeeps ==
    ASSUME IdentityInv, NEW c \in IdCallers, SessionMove(c)
    PROVE  IdentityInv'
<1>1. PICK x : /\ Moves(c, x)
               /\ x.pc \notin {"read", "record", "issue"}
               /\ Tokenless(x)
  BY DEF SessionMove
<1>2. RequestTypes'
  BY <1>1, MovedTypes DEF IdentityInv, IdentityTypes
<1>3. CountsBehind' /\ LockEarned'
  BY <1>1, CountsFrame DEF SessionMove
<1>4. TokensSpent' /\ RefreshOnce'
  BY <1>1, AgeingMoveKeeps DEF SessionMove
<1>5. QED BY <1>2, <1>3, <1>4 DEF SessionMove, IdentityInv, IdentityTypes

\* Logging out, reading a refresh token, setting a status and the second half
\* of issuing a pair are such moves.
LEMMA SessionMoves ==
    ASSUME IdentityInv, NEW c \in IdCallers,
           \/ SetUserStatus(c) \/ LogoutDeny(c) \/ IssueRefresh(c) \/ IssueFails(c)
           \/ \E p \in DOMAIN sessionPairs : Logout(c, p) \/ RefreshRead(c, p)
    PROVE  SessionMove(c)
<1>1. /\ idreq[c] \in IdRequests /\ (idreq[c].pc \notin {"idle", "consume"} => idreq[c].name \in IdNames)
      /\ sessionPairs \in [1 .. MaxPairs -> PairType]
      /\ DOMAIN sessionPairs = 1 .. MaxPairs
      /\ 1 .. MaxPairs \subseteq Nat
  BY IdentityAssumption DEF IdentityInv, IdentityTypes, RequestTypes, RowTypes, PairType
<1>2. CASE SetUserStatus(c)
  <2> DEFINE x == IF idreq[c].kind = "logout" THEN [idreq[c] EXCEPT !.pc = "deny"] ELSE IdIdle
  <2>1. /\ x \in IdRequests
        /\ \/ x = IdIdle /\ x.pc = "idle"
           \/ idreq[c].kind = "logout" /\ x.pc = "deny" /\ x.n = idreq[c].n /\ x.name = idreq[c].name
    <3>1. "deny" \in IdPcs
      BY DEF IdPcs
    <3>2. CASE idreq[c].kind = "logout"
      BY <1>1, <3>1, <3>2, RequestAt
    <3>3. CASE idreq[c].kind # "logout"
      BY <3>3, IdleRequest
    <3>4. QED BY <3>2, <3>3
  <2>2. Moves(c, x)
    BY <1>1, <1>2, <2>1 DEF SetUserStatus, IdStep, IdDone, Moves, IdentityInv, IdentityTypes, RequestTypes
  <2> HIDE DEF x
  <2>3. x.pc = "deny" => x.n \in 1 .. MaxPairs /\ sessionPairs[x.n].access # "none"
    BY <1>2, <2>1 DEF SetUserStatus, IdentityInv, TokensSpent
  <2>4. acct' \in [IdNames -> [id : Nat, status : Statuses, admin : BOOLEAN] \cup {NoAccount}]
    <3>1. CASE acct' = acct
      BY <3>1 DEF IdentityInv, IdentityTypes, RowTypes
    <3>2. CASE HoldsId(idreq[c].name, idreq[c].id) /\ acct' = [acct EXCEPT ![idreq[c].name].status = idreq[c].was]
      <4>1. idreq[c].name \in IdNames /\ idreq[c].was \in Statuses
        BY <1>2 DEF SetUserStatus, IdentityInv, IdentityTypes, RequestTypes
      <4>2. acct[idreq[c].name] \in [id : Nat, status : Statuses, admin : BOOLEAN]
        BY <3>2, <4>1 DEF HoldsId, IdentityInv, IdentityTypes, RowTypes
      <4>3. [acct[idreq[c].name] EXCEPT !.status = idreq[c].was] \in [id : Nat, status : Statuses, admin : BOOLEAN]
        BY <4>1, <4>2
      <4>4. QED BY <3>2, <4>1, <4>3 DEF IdentityInv, IdentityTypes, RowTypes
    <3>3. QED BY <1>2, <3>1, <3>2 DEF SetUserStatus
  <2>5. RowTypes' /\ PairsAge
    BY <1>1, <1>2, <2>4 DEF SetUserStatus, SessionStatic, IdentityInv, IdentityTypes, RowTypes, PairsAge
  <2>6. QED BY <1>2, <2>1, <2>2, <2>3, <2>5 DEF SetUserStatus, SessionMove, Tokenless
<1>3. CASE LogoutDeny(c)
  <2>1. idreq[c].n \in 1 .. MaxPairs /\ sessionPairs[idreq[c].n].access # "none"
    BY <1>3 DEF LogoutDeny, IdentityInv, TokensSpent
  <2>2. sessionPairs' \in [1 .. MaxPairs -> PairType] /\ PairsAge
    BY <1>1, <1>3, <2>1 DEF LogoutDeny, PairType, PairsAge
  <2>3. RowTypes'
    BY <1>3, <2>2 DEF LogoutDeny, SessionStatic, IdentityInv, IdentityTypes, RowTypes, PairType
  <2>4. Moves(c, IdIdle) /\ IdIdle.pc = "idle"
    BY <1>3, IdleRequest DEF LogoutDeny, IdDone, Moves
  <2>5. QED BY <1>3, <2>2, <2>3, <2>4 DEF LogoutDeny, SessionMove, Tokenless
<1>4. ASSUME NEW p \in DOMAIN sessionPairs, Logout(c, p)
      PROVE  SessionMove(c)
  <2>1. PICK n \in IdNames : IdBegin(c, [pc |-> "status", kind |-> "logout", name |-> n, id |-> sessionPairs[p].id,
                                         was |-> "offline", n |-> p])
    BY <1>4 DEF Logout
  <2> DEFINE x == [pc |-> "status", kind |-> "logout", name |-> n, id |-> sessionPairs[p].id,
                   was |-> "offline", n |-> p]
  <2>2. x \in IdRequests /\ x.pc = "status" /\ x.n = p /\ x.name = n /\ x.was \in Statuses
    BY <1>1 DEF IdRequests, IdPcs, IdKinds, Statuses, PairType
  <2>3. Moves(c, x)
    BY <2>1, <2>2 DEF IdBegin, Moves
  <2> HIDE DEF x
  <2>4. sessionPairs' \in [1 .. MaxPairs -> PairType] /\ PairsAge
    BY <1>1, <1>4 DEF Logout, PairType, PairsAge
  <2>5. RowTypes'
    BY <1>4, <2>4 DEF Logout, SessionStatic, IdentityInv, IdentityTypes, RowTypes, PairType
  <2>6. QED BY <1>1, <1>4, <2>2, <2>3, <2>4, <2>5 DEF Logout, SessionMove, Tokenless
<1>5. ASSUME NEW p \in DOMAIN sessionPairs, RefreshRead(c, p)
      PROVE  SessionMove(c)
  <2> DEFINE r == NewRequest("consume", "refresh", NoAccount, sessionPairs[p].id)
             x == [r EXCEPT !.n = p]
  <2>1. r \in IdRequests /\ r.pc = "consume" /\ r.kind = "refresh" /\ p \in Nat
    <3>1. "consume" \in IdPcs /\ "refresh" \in IdKinds /\ sessionPairs[p].id \in Nat /\ p \in Nat
      BY <1>1 DEF IdPcs, IdKinds, PairType
    <3>2. QED BY <3>1, NewRequestType
  <2>2. idreq' = [idreq EXCEPT ![c] = x]
    BY <1>5 DEF RefreshRead, IdBegin
  <2> HIDE DEF r
  <2>3. x \in IdRequests /\ x.pc = "consume" /\ x.kind = "refresh" /\ x.n = p
    BY <2>1, RequestWithN
  <2> HIDE DEF x
  <2>4. sessionPairs[p].access # "none"
    BY <1>1, <1>5 DEF RefreshRead, IdentityInv, TokensSpent
  <2>5. RowTypes' /\ PairsAge
    BY <1>5 DEF RefreshRead, SessionStatic, IdentityInv, IdentityTypes, RowTypes, PairsAge
  <2>6. QED BY <1>1, <1>5, <2>2, <2>3, <2>4, <2>5 DEF RefreshRead, SessionMove, Tokenless, Moves
<1>6. CASE IssueRefresh(c)
  <2> DEFINE x == [idreq[c] EXCEPT !.pc = "status", !.was = "online"]
  <2>1. /\ idreq[c].n \in 1 .. MaxPairs /\ sessionPairs[idreq[c].n].access # "none"
        /\ idreq[c].kind # "logout" /\ idreq[c].name \in IdNames
    BY <1>1, <1>6 DEF IssueRefresh, IdentityInv, TokensSpent
  <2>2. /\ x \in IdRequests /\ x.pc = "status" /\ x.name = idreq[c].name
        /\ x.kind = idreq[c].kind /\ x.was \in Statuses
    <3>1. "status" \in IdPcs /\ "online" \in Statuses
      BY DEF IdPcs, Statuses
    <3>2. QED BY <1>1, <3>1 DEF IdRequests
  <2>3. Moves(c, x)
    BY <1>6, <2>1, <2>2 DEF IssueRefresh, Moves, IdentityInv, IdentityTypes, RequestTypes
  <2> HIDE DEF x
  <2>4. sessionPairs' \in [1 .. MaxPairs -> PairType] /\ PairsAge
    BY <1>1, <1>6, <2>1 DEF IssueRefresh, PairType, PairsAge
  <2>5. RowTypes'
    BY <1>6, <2>4 DEF IssueRefresh, SessionStatic, IdentityInv, IdentityTypes, RowTypes, PairType
  <2>6. QED BY <1>6, <2>1, <2>2, <2>3, <2>4, <2>5 DEF IssueRefresh, SessionMove, Tokenless
<1>7. CASE IssueFails(c)
  <2>1. idreq[c].n \in 1 .. MaxPairs /\ sessionPairs[idreq[c].n].access # "none"
    BY <1>7 DEF IssueFails, IdentityInv, TokensSpent
  <2>2. sessionPairs' \in [1 .. MaxPairs -> PairType] /\ PairsAge
    <3>1. sessionPairs \in [1 .. MaxPairs -> PairType]
      BY <1>1
    <3>2. CASE sessionPairs' = sessionPairs
      BY <3>1, <3>2 DEF PairsAge
    <3>3. CASE sessionPairs' = [sessionPairs EXCEPT ![idreq[c].n].access = "gone"]
      BY <2>1, <3>1, <3>3 DEF PairType, PairsAge
    <3>4. QED BY <1>7, <3>2, <3>3 DEF IssueFails
  <2>3. RowTypes'
    BY <1>7, <2>2 DEF IssueFails, SessionStatic, IdentityInv, IdentityTypes, RowTypes, PairType
  <2>4. Moves(c, IdIdle) /\ IdIdle.pc = "idle"
    BY <1>7, IdleRequest DEF IssueFails, IdDone, Moves
  <2>5. QED BY <1>7, <2>2, <2>3, <2>4 DEF IssueFails, SessionMove, Tokenless
<1>8. QED BY <1>2, <1>3, <1>4, <1>5, <1>6, <1>7

\* A login that passes: it forgets the failures and goes on to issue a session.
LEMMA LoginPassKeeps ==
    ASSUME IdentityInv, NEW c \in IdCallers, NEW n \in IdNames, NEW k \in {"web", "cli"}, LoginPass(c, n, k)
    PROVE  IdentityInv'
<1> DEFINE pc == IF k = "cli" THEN "count" ELSE "issue"
           x == NewRequest(pc, k, n, acct[n].id)
<1>1. pc \in IdPcs /\ pc \in {"count", "issue"} /\ k \in IdKinds /\ acct[n].id \in Nat
  BY DEF LoginPass, activeUser, IdentityInv, IdentityTypes, RowTypes, IdPcs, IdKinds
<1>2. /\ x \in IdRequests /\ x.pc \in {"count", "issue"} /\ x.name \in IdNames
      /\ x.n = 0 /\ x.kind # "logout"
  BY <1>1, NewRequestType
<1>3. Moves(c, x) /\ idreq[c].pc = "idle"
  BY <1>2 DEF LoginPass, IdBegin, Moves
<1> HIDE DEF x
<1>4. /\ RequestTypes'
      /\ idreq'[c] = x
      /\ \A d \in IdCallers : d # c => idreq'[d] = idreq[d]
  BY <1>3, MovedTypes DEF IdentityInv, IdentityTypes
<1>5. FailuresForgotten
  <2>1. /\ NoFailures \in [count : Nat, lock : {"none", "on", "over"}]
        /\ NoFailures.count = 0 /\ NoFailures.lock = "none"
    BY DEF NoFailures
  <2>2. loginFailures' = [loginFailures EXCEPT ![n] = NoFailures]
    BY DEF LoginPass
  <2>3. QED BY <2>1, <2>2, LoginCounts DEF FailuresForgotten
<1>6. RowTypes' /\ PairsAge /\ failedLogins' = failedLogins
  BY <1>5 DEF LoginPass, SessionStatic, FailuresForgotten, PairsAge, IdentityInv, IdentityTypes, RowTypes
<1>7. \A m \in IdNames : Unrecorded(m)' = Unrecorded(m)
  BY <1>2, <1>3, <1>4 DEF Unrecorded
<1>8. CountsBehind' /\ LockEarned'
  <2>1. \A d \in IdCallers : idreq'[d].pc = "record" => idreq'[d] = idreq[d]
    BY <1>2, <1>4
  <2>2. QED BY <1>5, <1>6, <1>7, <2>1, ForgettingKeeps
<1>9. TokensSpent' /\ RefreshOnce'
  BY <1>2, <1>3, <1>6, AgeingMoveKeeps DEF Tokenless
<1>10. QED BY <1>4, <1>6, <1>8, <1>9 DEF IdentityInv, IdentityTypes

\* A lock that runs out leaves the counts as they are.
LEMMA LockExpiresKeeps ==
    ASSUME IdentityInv, NEW n \in IdNames, LockExpires(n)
    PROVE  IdentityInv'
<1>1. UNCHANGED <<idreq, acct, accountIds, ldapEntry, failedLogins, sessionPairs>>
  BY DEF LockExpires, SessionStatic
<1>2. FailuresForgotten
  BY DEF LockExpires, FailuresForgotten, IdentityInv, IdentityTypes, RowTypes
<1>3. CountsBehind' /\ LockEarned'
  <2>1. \A m \in IdNames : Unrecorded(m)' = Unrecorded(m)
    BY <1>1 DEF Unrecorded
  <2>2. QED BY <1>1, <1>2, <2>1, ForgettingKeeps
<1>4. IdentityTypes'
  BY <1>1, <1>2 DEF FailuresForgotten, IdentityInv, IdentityTypes, RequestTypes, RowTypes
<1>5. TokensSpent' /\ RefreshOnce'
  BY <1>1, ZenonT(30) DEF IdentityInv, TokensSpent, RefreshOnce
<1>6. QED BY <1>3, <1>4, <1>5 DEF IdentityInv

\* The clean-up of expired tokens only deletes.
LEMMA CleanupPairKeeps ==
    ASSUME IdentityInv, NEW p \in DOMAIN sessionPairs, CleanupPair(p)
    PROVE  IdentityInv'
<1>1. UNCHANGED <<idreq, acct, accountIds, ldapEntry, loginFailures, failedLogins>>
  BY DEF CleanupPair, SessionStatic
<1>2. sessionPairs \in [1 .. MaxPairs -> PairType] /\ p \in 1 .. MaxPairs
  BY DEF IdentityInv, IdentityTypes, RowTypes, PairType
<1>3. sessionPairs' \in [1 .. MaxPairs -> PairType] /\ PairsAge
  <2> DEFINE r == IF sessionPairs[p].access = "live" THEN sessionPairs[p].refresh ELSE "gone"
             q == [sessionPairs[p] EXCEPT !.access = "gone", !.refresh = r]
  <2>1. r \in {"none", "live", "gone"} /\ (sessionPairs[p].refresh = "gone" => r = "gone")
    BY <1>2 DEF PairType
  <2>2. sessionPairs' = [sessionPairs EXCEPT ![p] = q]
    BY <1>2 DEF CleanupPair
  <2> HIDE DEF r
  <2>3. q \in PairType /\ q.access = "gone" /\ q.refresh = r /\ q.from = sessionPairs[p].from
    BY <1>2, <2>1 DEF PairType
  <2> HIDE DEF q
  <2>4. QED BY <1>2, <2>1, <2>2, <2>3 DEF PairsAge
<1>4. IdentityTypes'
  BY <1>1, <1>3 DEF IdentityInv, IdentityTypes, RequestTypes, RowTypes, PairType
<1>5. CountsBehind' /\ LockEarned'
  BY <1>1 DEF IdentityInv, CountsBehind, LockEarned, UnrecordedCount, Unrecorded
<1>6. TokensSpent' /\ RefreshOnce'
  BY <1>1, <1>3, <1>4, AgeingKeeps DEF IdentityTypes
<1>7. QED BY <1>4, <1>5, <1>6 DEF IdentityInv

(* Of the refreshes that have read a token, the one whose delete removed it  *)
(* goes on: the token was live, so no request had it and no pair was bought  *)
(* with it.                                                                  *)
LEMMA RefreshConsumeKeeps ==
    ASSUME IdentityInv, NEW c \in IdCallers, RefreshConsume(c)
    PROVE  IdentityInv'
<1> DEFINE p == idreq[c].n
<1>1. /\ idreq[c] \in IdRequests /\ idreq[c].pc = "consume"
      /\ p \in 1 .. MaxPairs /\ sessionPairs[p].access # "none"
      /\ sessionPairs \in [1 .. MaxPairs -> PairType]
  BY DEF RefreshConsume, IdentityInv, IdentityTypes, RequestTypes, RowTypes, PairType, TokensSpent
<1>2. UNCHANGED <<acct, accountIds, ldapEntry, loginFailures, failedLogins>>
  BY DEF RefreshConsume, SessionStatic
<1>3. sessionPairs' = [sessionPairs EXCEPT ![p].refresh = "gone"]
  BY DEF RefreshConsume
<1> HIDE DEF p
<1>4. sessionPairs' \in [1 .. MaxPairs -> PairType] /\ PairsAge /\ sessionPairs'[p].refresh = "gone"
  BY <1>1, <1>3 DEF PairType, PairsAge
<1>5. RowTypes'
  BY <1>2, <1>4 DEF IdentityInv, IdentityTypes, RowTypes, PairType
<1>6. CASE Moves(c, IdIdle)
  <2>1. IdIdle.pc = "idle" /\ Tokenless(IdIdle)
    BY IdleRequest DEF Tokenless
  <2>2. RequestTypes'
    BY <1>6, MovedTypes DEF IdentityInv, IdentityTypes
  <2>3. CountsBehind' /\ LockEarned'
    BY <1>1, <1>2, <1>6, <2>1, CountsFrame
  <2>4. TokensSpent' /\ RefreshOnce'
    BY <1>4, <1>5, <1>6, <2>1, AgeingMoveKeeps
  <2>5. QED BY <1>5, <2>2, <2>3, <2>4 DEF IdentityInv, IdentityTypes
<1>7. CASE \E u \in IdNames : /\ sessionPairs[p].refresh = "live"
                             /\ idreq' = [idreq EXCEPT ![c].pc = "issue", ![c].name = u]
  <2>1. PICK u \in IdNames : /\ sessionPairs[p].refresh = "live"
                             /\ idreq' = [idreq EXCEPT ![c].pc = "issue", ![c].name = u]
    BY <1>7
  <2> DEFINE x == [idreq[c] EXCEPT !.pc = "issue", !.name = u]
  <2>2. x \in IdRequests /\ x.pc = "issue" /\ x.name = u /\ x.n = p /\ x.kind = idreq[c].kind
    <3>1. "issue" \in IdPcs
      BY DEF IdPcs
    <3>2. QED BY <1>1, <3>1 DEF IdRequests, p
  <2>3. Moves(c, x)
    BY <1>1, <2>1, <2>2 DEF Moves, IdentityInv, IdentityTypes, RequestTypes
  <2> HIDE DEF x
  <2>4. /\ RequestTypes'
        /\ idreq'[c] = x
        /\ \A d \in IdCallers : d # c => idreq'[d] = idreq[d]
    BY <2>3, MovedTypes DEF IdentityInv, IdentityTypes
  <2>5. CountsBehind' /\ LockEarned'
    BY <1>1, <1>2, <2>2, <2>3, CountsFrame
  <2>6. RefreshOnce'
    BY <1>1, <1>4 DEF PairsAge, IdentityInv, RefreshOnce
  <2>7. /\ \A d \in IdCallers : idreq[d].pc = "issue" => idreq[d].n # p
        /\ \A q \in 1 .. MaxPairs : sessionPairs[q].from # p
        /\ p # 0
    BY <1>1, <2>1, IdentityAssumption DEF IdentityInv, TokensSpent
  <2>8. TokensSpent'
    <3>1. \A q \in 1 .. MaxPairs : sessionPairs'[q].access = "none" =>
             sessionPairs'[q].refresh = "none" /\ sessionPairs'[q].from = 0
      BY <1>4 DEF PairsAge, IdentityInv, TokensSpent
    <3>2. \A q \in 1 .. MaxPairs : sessionPairs'[q].from # 0 =>
             sessionPairs'[sessionPairs'[q].from].refresh = "gone"
      <4>1. TAKE q \in 1 .. MaxPairs
      <4>2. HAVE sessionPairs'[q].from # 0
      <4>3. sessionPairs[q].from \in 1 .. MaxPairs /\ sessionPairs'[q].from = sessionPairs[q].from
        <5>1. sessionPairs[q].from \in 0 .. MaxPairs
          BY <1>1 DEF PairType
        <5>2. sessionPairs'[q].from = sessionPairs[q].from
          BY <1>4 DEF PairsAge
        <5>3. QED BY <4>2, <5>1, <5>2, IdentityAssumption
      <4>4. \A o \in 1 .. MaxPairs : sessionPairs[o].from # 0 => sessionPairs[sessionPairs[o].from].refresh = "gone"
        BY DEF IdentityInv, TokensSpent
      <4>5. sessionPairs[sessionPairs[q].from].refresh = "gone"
        BY <4>2, <4>3, <4>4
      <4>6. QED BY <1>4, <4>3, <4>5 DEF PairsAge
    <3>3. \A d \in IdCallers : idreq'[d].pc \in {"issue", "consume", "pair"} => idreq'[d].kind # "logout"
      <4>1. \A d \in IdCallers : idreq[d].pc \in {"issue", "consume", "pair"} => idreq[d].kind # "logout"
        BY DEF IdentityInv, TokensSpent
      <4>2. QED BY <1>1, <2>2, <2>4, <4>1
    <3>4. ASSUME NEW d \in IdCallers,
                 idreq'[d].pc \in {"consume", "deny", "pair"} \/ (idreq'[d].pc = "status" /\ idreq'[d].kind = "logout")
          PROVE  idreq'[d].n \in 1 .. MaxPairs /\ sessionPairs'[idreq'[d].n].access # "none"
      <4>1. d # c /\ idreq'[d] = idreq[d]
        BY <2>2, <2>4, <3>4
      <4>2. idreq[d].n \in 1 .. MaxPairs /\ sessionPairs[idreq[d].n].access # "none"
        BY <3>4, <4>1 DEF IdentityInv, TokensSpent
      <4>3. QED BY <1>4, <4>1, <4>2 DEF PairsAge
    <3>5. ASSUME NEW d \in IdCallers, idreq'[d].pc = "issue", idreq'[d].n # 0
          PROVE  /\ idreq'[d].n \in 1 .. MaxPairs
                 /\ sessionPairs'[idreq'[d].n].refresh = "gone"
                 /\ \A q \in 1 .. MaxPairs : sessionPairs'[q].from # idreq'[d].n
                 /\ \A e \in IdCallers : e # d /\ idreq'[e].pc = "issue" => idreq'[e].n # idreq'[d].n
      <4>1. CASE d = c
        BY <1>1, <1>4, <2>2, <2>4, <2>7, <4>1 DEF PairsAge
      <4>2. CASE d # c
        <5>1. idreq'[d] = idreq[d]
          BY <2>4, <4>2
        <5>2. /\ idreq[d].n \in 1 .. MaxPairs
              /\ sessionPairs[idreq[d].n].refresh = "gone"
              /\ \A q \in 1 .. MaxPairs : sessionPairs[q].from # idreq[d].n
              /\ \A e \in IdCallers : e # d /\ idreq[e].pc = "issue" => idreq[e].n # idreq[d].n
          BY <3>5, <5>1 DEF IdentityInv, TokensSpent
        <5>3. /\ sessionPairs'[idreq[d].n].refresh = "gone"
              /\ \A q \in 1 .. MaxPairs : sessionPairs'[q].from # idreq[d].n
          BY <1>4, <5>2 DEF PairsAge
        <5>4. idreq[d].n # p
          BY <2>7, <3>5, <5>1
        <5>5. \A e \in IdCallers : e # d /\ idreq'[e].pc = "issue" => idreq'[e].n # idreq[d].n
          BY <2>2, <2>4, <5>2, <5>4
        <5>6. QED BY <5>1, <5>2, <5>3, <5>5
      <4>3. QED BY <4>1, <4>2
    <3>6. QED BY <3>1, <3>2, <3>3, <3>4, <3>5 DEF TokensSpent
  <2>9. QED BY <1>5, <2>4, <2>5, <2>6, <2>8 DEF IdentityInv, IdentityTypes
<1>8. QED
  <2>1. \/ IdDone(c)
        \/ \E u \in IdNames : /\ sessionPairs[p].refresh = "live"
                              /\ idreq' = [idreq EXCEPT ![c].pc = "issue", ![c].name = u]
    BY DEF RefreshConsume, ConsumeRefreshToken, p
  <2>2. IdDone(c) => Moves(c, IdIdle)
    BY IdleRequest DEF IdDone, Moves
  <2>3. QED BY <1>6, <1>7, <2>1, <2>2
(* IssueSession spends the token the request holds: no pair was bought with  *)
(* it and no other request holds it.                                         *)
LEMMA IssueSessionKeeps ==
    ASSUME IdentityInv, NEW c \in IdCallers, IssueSession(c)
    PROVE  IdentityInv'
<1>1. /\ idreq[c] \in IdRequests /\ idreq[c].pc = "issue" /\ idreq[c].kind # "logout"
      /\ idreq[c].name \in IdNames /\ idreq[c].id \in Nat /\ idreq[c].n \in 0 .. MaxPairs
      /\ sessionPairs \in [1 .. MaxPairs -> PairType]
  BY IdentityAssumption
     DEF IssueSession, IdentityInv, IdentityTypes, RequestTypes, RowTypes, PairType, TokensSpent, IdRequests
<1>2. UNCHANGED <<acct, accountIds, ldapEntry, loginFailures, failedLogins>>
  BY DEF IssueSession, SessionStatic
<1>3. CASE ~HoldsId(idreq[c].name, idreq[c].id)
  <2>1. Moves(c, IdIdle) /\ IdIdle.pc = "idle" /\ Tokenless(IdIdle) /\ sessionPairs' = sessionPairs
    BY <1>3, IdleRequest DEF IssueSession, IdDone, Moves, Tokenless
  <2>2. RowTypes' /\ PairsAge
    BY <1>2, <2>1 DEF IdentityInv, IdentityTypes, RowTypes, PairsAge
  <2>3. RequestTypes'
    BY <2>1, MovedTypes DEF IdentityInv, IdentityTypes
  <2>4. CountsBehind' /\ LockEarned'
    BY <1>1, <1>2, <2>1, CountsFrame
  <2>5. TokensSpent' /\ RefreshOnce'
    BY <2>1, <2>2, AgeingMoveKeeps
  <2>6. QED BY <2>2, <2>3, <2>4, <2>5 DEF IdentityInv, IdentityTypes
<1>4. CASE HoldsId(idreq[c].name, idreq[c].id)
  <2> DEFINE new == [id |-> idreq[c].id, access |-> "live", refresh |-> "none", from |-> idreq[c].n]
  <2>3. PICK p \in 1 .. MaxPairs : /\ sessionPairs[p].access = "none"
                                   /\ sessionPairs' = [sessionPairs EXCEPT ![p] = new]
                                   /\ idreq' = [idreq EXCEPT ![c].pc = "pair", ![c].n = p]
    BY <1>1, <1>4 DEF IssueSession, FreePairs
  <2> DEFINE x == [idreq[c] EXCEPT !.pc = "pair", !.n = p]
  <2>1. /\ x \in IdRequests /\ x.pc = "pair" /\ x.name = idreq[c].name
        /\ x.kind = idreq[c].kind /\ x.n = p
    <3>1. "pair" \in IdPcs /\ p \in Nat
      BY IdentityAssumption DEF IdPcs
    <3>2. QED BY <1>1, <3>1 DEF IdRequests
  <2>2. Moves(c, x)
    BY <1>1, <2>1, <2>3 DEF Moves, IdentityInv, IdentityTypes, RequestTypes
  <2> HIDE DEF x
  <2>4. /\ new \in PairType /\ new.access = "live" /\ new.refresh = "none" /\ new.from = idreq[c].n
    BY <1>1 DEF PairType
  <2> HIDE DEF new
  <2>5. sessionPairs' \in [1 .. MaxPairs -> PairType]
    BY <1>1, <2>3, <2>4
  <2>6. RowTypes'
    BY <1>2, <2>5 DEF IdentityInv, IdentityTypes, RowTypes, PairType
  <2>7. /\ RequestTypes'
        /\ idreq'[c] = x
        /\ \A d \in IdCallers : d # c => idreq'[d] = idreq[d]
    BY <2>2, MovedTypes DEF IdentityInv, IdentityTypes
  <2>8. CountsBehind' /\ LockEarned'
    BY <1>1, <1>2, <2>1, <2>2, CountsFrame
  <2>9. /\ sessionPairs[p].refresh = "none" /\ sessionPairs[p].from = 0
        /\ sessionPairs'[p] = new
        /\ \A q \in 1 .. MaxPairs : q # p => sessionPairs'[q] = sessionPairs[q]
    BY <1>1, <2>3 DEF IdentityInv, TokensSpent
  <2>10. idreq[c].n # 0 => \A q \in 1 .. MaxPairs : sessionPairs[q].from # idreq[c].n
    BY <1>1 DEF IdentityInv, TokensSpent
  <2>11. RefreshOnce'
    BY <1>1, <2>4, <2>5, <2>9, <2>10 DEF IdentityInv, RefreshOnce
  <2>12. TokensSpent'
    <3>1. \A q \in 1 .. MaxPairs : sessionPairs'[q].access = "none" =>
             sessionPairs'[q].refresh = "none" /\ sessionPairs'[q].from = 0
      <4>1. \A q \in 1 .. MaxPairs : sessionPairs[q].access = "none" =>
               sessionPairs[q].refresh = "none" /\ sessionPairs[q].from = 0
        BY DEF IdentityInv, TokensSpent
      <4>2. QED BY <2>4, <2>9, <4>1
    <3>2. ASSUME NEW q \in 1 .. MaxPairs, sessionPairs'[q].from # 0
          PROVE  sessionPairs'[sessionPairs'[q].from].refresh = "gone"
      <4>1. sessionPairs'[q].from \in 1 .. MaxPairs
        BY <2>5, <3>2, IdentityAssumption DEF PairType
      <4>2. sessionPairs[sessionPairs'[q].from].refresh = "gone"
        <5>1. CASE q = p
          BY <1>1, <2>4, <2>9, <3>2, <5>1 DEF IdentityInv, TokensSpent
        <5>2. CASE q # p
          BY <2>9, <3>2, <5>2 DEF IdentityInv, TokensSpent
        <5>3. QED BY <5>1, <5>2
      <4>3. QED BY <2>9, <4>1, <4>2
    <3>3. \A d \in IdCallers : idreq'[d].pc = "issue" => idreq'[d] = idreq[d]
      BY <2>1, <2>7
    <3>4. ASSUME NEW d \in IdCallers,
                 idreq'[d].pc \in {"consume", "deny", "pair"} \/ (idreq'[d].pc = "status" /\ idreq'[d].kind = "logout")
          PROVE  idreq'[d].n \in 1 .. MaxPairs /\ sessionPairs'[idreq'[d].n].access # "none"
      <4>1. CASE d = c
        BY <2>1, <2>4, <2>7, <2>9, <4>1
      <4>2. CASE d # c
        <5>1. idreq'[d] = idreq[d]
          BY <2>7, <4>2
        <5>2. idreq[d].n \in 1 .. MaxPairs /\ sessionPairs[idreq[d].n].access # "none"
          BY <3>4, <5>1 DEF IdentityInv, TokensSpent
        <5>3. QED BY <2>4, <2>9, <5>1, <5>2
      <4>3. QED BY <4>1, <4>2
    <3>5. ASSUME NEW d \in IdCallers, idreq'[d].pc = "issue", idreq'[d].n # 0
          PROVE  /\ idreq'[d].n \in 1 .. MaxPairs
                 /\ sessionPairs'[idreq'[d].n].refresh = "gone"
                 /\ \A q \in 1 .. MaxPairs : sessionPairs'[q].from # idreq'[d].n
                 /\ \A e \in IdCallers : e # d /\ idreq'[e].pc = "issue" => idreq'[e].n # idreq'[d].n
      <4>1. d # c /\ idreq'[d] = idreq[d]
        BY <2>1, <2>7, <3>5
      <4>2. /\ idreq[d].n \in 1 .. MaxPairs /\ sessionPairs[idreq[d].n].refresh = "gone"
            /\ \A q \in 1 .. MaxPairs : sessionPairs[q].from # idreq[d].n
            /\ \A e \in IdCallers : e # d /\ idreq[e].pc = "issue" => idreq[e].n # idreq[d].n
        BY <3>5, <4>1 DEF IdentityInv, TokensSpent
      <4>3. idreq[d].n # idreq[c].n
        BY <1>1, <4>1, <4>2
      <4>4. \A q \in 1 .. MaxPairs : sessionPairs'[q].from # idreq[d].n
        BY <2>4, <2>9, <4>2, <4>3
      <4>5. QED BY <2>9, <3>3, <4>1, <4>2, <4>4
    <3>6. \A d \in IdCallers : idreq'[d].pc \in {"issue", "consume", "pair"} => idreq'[d].kind # "logout"
      <4>1. \A d \in IdCallers : idreq[d].pc \in {"issue", "consume", "pair"} => idreq[d].kind # "logout"
        BY DEF IdentityInv, TokensSpent
      <4>2. QED BY <1>1, <2>1, <2>7, <4>1
    <3>7. QED BY <3>1, <3>2, <3>4, <3>5, <3>6 DEF TokensSpent
  <2>13. QED BY <2>6, <2>7, <2>8, <2>11, <2>12 DEF IdentityInv, IdentityTypes
<1>5. QED BY <1>3, <1>4

\* Nobody has logged in and nobody has failed to.
LEMMA IdentityInitInv == IdentityInit => IdentityInv
<1> SUFFICES ASSUME IdentityInit PROVE IdentityInv
  OBVIOUS
<1>1. RequestTypes /\ (\A c \in IdCallers : idreq[c].pc = "idle")
  BY IdleRequest DEF IdentityInit, RequestTypes
<1>2. RowTypes
  <2>1. acct \in [IdNames -> [id : Nat, status : Statuses, admin : BOOLEAN] \cup {NoAccount}]
    <3>1. \A i \in UserIds : [id |-> i, status |-> "offline", admin |-> TRUE]
                               \in [id : Nat, status : Statuses, admin : BOOLEAN]
      <4>1. \A i \in UserIds : i \in Nat
        BY DEF UserIds
      <4>2. "offline" \in Statuses
        BY DEF Statuses
      <4>3. QED BY <4>1, <4>2
    <3> DEFINE S == {[id |-> i, status |-> "offline", admin |-> TRUE] : i \in UserIds} \cup {NoAccount}
               R == [id : Nat, status : Statuses, admin : BOOLEAN] \cup {NoAccount}
    <3>2. acct \in [IdNames -> S] /\ S \subseteq R
      BY <3>1 DEF IdentityInit
    <3> HIDE DEF S, R
    <3>3. acct \in [IdNames -> R]
      BY <3>2
    <3>4. QED BY <3>3 DEF R
  <2>2. accountIds \in Nat
    <3>1. IsFiniteSet({m \in IdNames : acct[m] # NoAccount})
      BY IdentityAssumption, FS_Subset
    <3>2. QED BY <3>1, FS_CardinalityType DEF IdentityInit
  <2>3. ldapEntry \in [IdNames -> Entries]
    BY DEF IdentityInit, Entries
  <2>4. loginFailures \in [IdNames -> [count : Nat, lock : {"none", "on", "over"}]]
    BY DEF IdentityInit, NoFailures
  <2>5. failedLogins \in [IdNames -> Nat]
    BY DEF IdentityInit
  <2>6. sessionPairs \in [1 .. MaxPairs -> PairType]
    <3>1. NoPair \in PairType
      BY IdentityAssumption DEF NoPair, PairType
    <3>2. QED BY <3>1 DEF IdentityInit
  <2>7. QED BY <2>1, <2>2, <2>3, <2>4, <2>5, <2>6 DEF RowTypes, PairType
<1>3. CountsBehind
  <2>1. \A n \in IdNames : Unrecorded(n) = {}
    BY <1>1 DEF Unrecorded
  <2>2. \A n \in IdNames : UnrecordedCount[n] = 0
    BY <2>1, FS_EmptySet DEF UnrecordedCount
  <2>3. \A n \in IdNames : loginFailures[n].count = 0 /\ failedLogins[n] = 0
    BY DEF IdentityInit, NoFailures
  <2>4. \A d \in IdCallers : idreq[d].pc # "record"
    BY <1>1
  <2>5. QED BY <2>2, <2>3, <2>4 DEF CountsBehind
<1>4. LockEarned
  BY DEF IdentityInit, LockEarned, NoFailures
<1>5. TokensSpent /\ RefreshOnce
  BY <1>1 DEF IdentityInit, TokensSpent, RefreshOnce, NoPair
<1>6. QED BY <1>1, <1>2, <1>3, <1>4, <1>5 DEF IdentityInv, IdentityTypes

\* Every step keeps the invariant: one case per action.
LEMMA IdentityStepInv == IdentityInv /\ [IdentityNext]_idVars => IdentityInv'
<1> SUFFICES ASSUME IdentityInv, [IdentityNext]_idVars PROVE IdentityInv'
  OBVIOUS
<1>1. CASE MirrorStep
  BY <1>1, MirrorKeeps
<1>2. CASE CredentialUpkeep
  BY <1>2, MirrorKeeps, CleanupPairKeeps DEF CredentialUpkeep
<1>3. CASE \E n \in IdNames : LockExpires(n)
  BY <1>3, LockExpiresKeeps
<1>4. ASSUME NEW c \in IdCallers, AccountStep(c)
      PROVE  IdentityInv'
  <2>1. CASE DirectoryWrite(c) \/ DirectoryError(c) \/ LocalError(c) \/ Compensate(c)
    BY <2>1, DirectoryMoves, PlainMoveKeeps
  <2>2. CASE LocalWrite(c)
    BY <2>2, LocalWriteKeeps
  <2>3. CASE \E n \in IdNames : Register(c, n)
    BY <2>3, RegisterMoves, PlainMoveKeeps
  <2>4. CASE \E a, n \in IdNames, k \in ManageKinds : Manage(c, a, n, k)
    BY <2>4, ManageMoves, PlainMoveKeeps
  <2>5. QED BY <1>4, <2>1, <2>2, <2>3, <2>4 DEF AccountStep, ManageKinds
<1>5. ASSUME NEW c \in IdCallers, SessionStep(c)
      PROVE  IdentityInv'
  <2>1. CASE IssueSession(c)
    BY <2>1, IssueSessionKeeps
  <2>2. CASE RefreshConsume(c)
    BY <2>2, RefreshConsumeKeeps
  <2>3. CASE \/ SetUserStatus(c) \/ LogoutDeny(c) \/ IssueRefresh(c) \/ IssueFails(c)
             \/ \E p \in DOMAIN sessionPairs : Logout(c, p) \/ RefreshRead(c, p)
    BY <2>3, SessionMoves, SessionMoveKeeps
  <2>4. CASE \E n \in IdNames : LoginPass(c, n, "web")
    BY <2>4, LoginPassKeeps
  <2>5. QED BY <1>5, <2>1, <2>2, <2>3, <2>4 DEF SessionStep
<1>6. ASSUME NEW c \in IdCallers, TokenStep(c)
      PROVE  IdentityInv'
  <2>1. CASE TokenCount(c) \/ TokenCreate(c) \/ \E n \in IdNames : TokenRequest(c, n)
    BY <2>1, TokenMoves, PlainMoveKeeps
  <2>2. CASE \E n \in IdNames : LoginPass(c, n, "cli")
    BY <2>2, LoginPassKeeps
  <2>3. QED BY <1>6, <2>1, <2>2 DEF TokenStep
<1>7. ASSUME NEW c \in IdCallers, LockoutStep(c)
      PROVE  IdentityInv'
  BY <1>7, ReadFailuresKeeps, RecordFailureKeeps, LoginFailKeeps DEF LockoutStep
<1>8. CASE UNCHANGED idVars
  <2>1. UNCHANGED <<idreq, acct, accountIds, ldapEntry, loginFailures, failedLogins, sessionPairs>>
    BY <1>8 DEF idVars
  <2>2. IdentityTypes'
    BY <2>1 DEF IdentityInv, IdentityTypes, RequestTypes, RowTypes
  <2>3. CountsBehind' /\ LockEarned'
    BY <2>1 DEF IdentityInv, CountsBehind, LockEarned, UnrecordedCount, Unrecorded
  <2>4. TokensSpent' /\ RefreshOnce'
    BY <2>1, ZenonT(30) DEF IdentityInv, TokensSpent, RefreshOnce
  <2>5. QED BY <2>2, <2>3, <2>4 DEF IdentityInv
<1>9. QED BY <1>1, <1>2, <1>3, <1>4, <1>5, <1>6, <1>7, <1>8 DEF IdentityNext

(* However many refreshes, logouts, cleanups and deletions overlap, no two   *)
(* sessions were bought with one refresh token (ConsumeRefreshToken).        *)
THEOREM RefreshBuysOnce == IdentitySpec => []RefreshOnce
<1>1. IdentityInv => RefreshOnce
  BY DEF IdentityInv
<1>2. QED BY <1>1, IdentityInitInv, IdentityStepInv, PTL DEF IdentitySpec

(* However many logins of a username fail at once, and whatever the others   *)
(* read before, it is locked only after more failures than the limit         *)
(* (recordLoginFailure).                                                     *)
THEOREM LocksAreEarned == IdentitySpec => []LockEarned
<1>1. IdentityInv => LockEarned
  BY DEF IdentityInv
<1>2. QED BY <1>1, IdentityInitInv, IdentityStepInv, PTL DEF IdentitySpec
=============================================================================
