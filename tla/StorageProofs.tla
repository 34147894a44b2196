---------------------------- MODULE StorageProofs ----------------------------
(***************************************************************************)
(* Fast-stage transfers and storage mounts for any number of requests,     *)
(* Jobs and groups: a transfer's record tells what happened, and pods      *)
(* mount what their plans named.                                           *)
(***************************************************************************)
EXTENDS FastTransfer, StorageMounts, TLAPS

\* A leaf is tried with Zenon, and where that fails with the SMT solver.
USE Zenon, SMTT(30)

-----------------------------------------------------------------------------
(* Fast-stage transfers.                                                     *)

SeenRecords == [status : TransferStatuses, pct : {0, 1, 100}]
MoverRecords == [owner : Transfers \cup {NoTransfer}, pc : {"none", "begin", "copy", "report", "over"},
                 attempt : 0 .. 2, copied : BOOLEAN, broke : BOOLEAN,
                 seen : SeenRecords \cup {NoTransfer}]
TransferRequests == [pc : {"idle", "create", "dispatch", "persist", "cancel"},
                     id : Transfers \cup {NoTransfer}, keyed : BOOLEAN, seen : DispatchStatuses]

TransferTypes ==
    /\ transfers \in [Transfers -> {NoTransfer} \cup TransferRecords]
    /\ movers \in [TransferNames -> MoverRecords]
    /\ treq \in [TransferCallers -> TransferRequests]

(* A request past its create works on a row there is, and holds the answer   *)
(* "submitted" only while the Job is the row's own.                          *)
RequestKnows(c) ==
    /\ treq[c].pc # "idle" => treq[c].id \in Transfers
    /\ treq[c].pc \in {"dispatch", "persist", "cancel"} => treq[c].id \in TransferRows
    /\ (treq[c].pc = "persist" /\ treq[c].seen = "submitted") =>
          movers[treq[c].id[2]].owner = treq[c].id

(* A Job belongs to a row of its own name.  Once an rsync ended without      *)
(* error the script runs none again; it reports a failure after a failed     *)
(* one; and it saw 100% only after its own success.                          *)
MoverKnows(n) ==
    /\ movers[n].pc = "none" <=> movers[n].owner = NoTransfer
    /\ movers[n].owner # NoTransfer => movers[n].owner \in TransferRows /\ movers[n].owner[2] = n
    /\ movers[n].copied => movers[n].pc \in {"report", "over"}
    /\ (movers[n].pc = "report" /\ ~movers[n].copied) => movers[n].broke
    /\ (movers[n].seen # NoTransfer /\ movers[n].seen.pct = 100) => movers[n].copied

TransferInv ==
    /\ TransferTypes
    /\ \A c \in TransferCallers : RequestKnows(c)
    /\ \A n \in TransferNames : MoverKnows(n)
    /\ TransferHonest

\* A transfer carries the name of its Job.
LEMMA TransferName == ASSUME NEW t \in Transfers PROVE t[2] \in TransferNames
BY DEF Transfers

\* TransferRequest makes a request, with the fields it is given.
LEMMA TransferRequestType ==
    ASSUME NEW pc \in {"idle", "create", "dispatch", "persist", "cancel"},
           NEW id \in Transfers \cup {NoTransfer}, NEW keyed \in BOOLEAN
    PROVE  /\ TransferRequest(pc, id, keyed) \in TransferRequests
           /\ TransferRequest(pc, id, keyed).pc = pc /\ TransferRequest(pc, id, keyed).id = id
BY DEF TransferRequest, TransferRequests, DispatchStatuses

\* An idle caller is a request.
LEMMA TransferIdleType == TransferIdle \in TransferRequests /\ TransferIdle.pc = "idle"
BY DEF TransferIdle, TransferRequest, TransferRequests, DispatchStatuses

\* A new Job has copied nothing and seen nothing.
LEMMA MoverType ==
    ASSUME NEW owner \in Transfers \cup {NoTransfer}, NEW attempt \in 0 .. 2,
           NEW pc \in {"none", "begin", "copy", "report", "over"}
    PROVE  /\ Mover(owner, pc, attempt) \in MoverRecords
           /\ Mover(owner, pc, attempt).owner = owner /\ Mover(owner, pc, attempt).pc = pc
           /\ ~Mover(owner, pc, attempt).copied /\ Mover(owner, pc, attempt).seen = NoTransfer
BY DEF Mover, MoverRecords

(* A request that does not move keeps what it knows while rows and owners    *)
(* stay.                                                                     *)
LEMMA RequestKeeps ==
    ASSUME NEW c \in TransferCallers, RequestKnows(c), treq'[c] = treq[c],
           TransferRows \subseteq TransferRows',
           \A n \in TransferNames : movers[n].owner # NoTransfer => movers'[n].owner = movers[n].owner
    PROVE  RequestKnows(c)'
BY TransferName, TransferAssumption DEF RequestKnows

(* A Job that does not move keeps what it knows while the rows stay.         *)
LEMMA MoverKeeps ==
    ASSUME NEW n \in TransferNames, MoverKnows(n), movers'[n] = movers[n],
           TransferRows \subseteq TransferRows'
    PROVE  MoverKnows(n)'
BY DEF MoverKnows

\* There are no transfers and no Jobs.
LEMMA TransferInvInit == TransferInit => TransferInv
<1> SUFFICES ASSUME TransferInit PROVE TransferInv
    OBVIOUS
<1> USE TransferAssumption
<1>1. NoMover \in MoverRecords /\ NoMover.owner = NoTransfer /\ NoMover.pc = "none"
         /\ ~NoMover.copied /\ NoMover.seen = NoTransfer
      BY MoverType DEF NoMover
<1>2. TransferTypes
      BY <1>1, TransferIdleType DEF TransferInit, TransferTypes
<1>3. \A c \in TransferCallers : RequestKnows(c)
      BY TransferIdleType DEF TransferInit, RequestKnows
<1>4. \A n \in TransferNames : MoverKnows(n)
      BY <1>1 DEF TransferInit, MoverKnows
<1>5. TransferHonest
      BY DEF TransferInit, TransferHonest, TransferRows
<1>6. QED BY <1>2, <1>3, <1>4, <1>5 DEF TransferInv

(* A request moves and the rows and the Jobs stay.                           *)
LEMMA RequestStep ==
    ASSUME TransferInv, UNCHANGED <<transfers, movers>>,
           NEW c \in TransferCallers, NEW r \in TransferRequests,
           treq' = [treq EXCEPT ![c] = r], RequestKnows(c)'
    PROVE  TransferInv'
<1>1. TransferTypes'
      BY DEF TransferInv, TransferTypes
<1>2. ASSUME NEW d \in TransferCallers PROVE RequestKnows(d)'
  <2>1. CASE d = c
        BY <2>1
  <2>2. CASE d # c
    <3>1. treq'[d] = treq[d] /\ TransferRows' = TransferRows
          BY <2>2 DEF TransferInv, TransferTypes, TransferRows
    <3>2. QED BY <3>1, RequestKeeps DEF TransferInv
  <2>3. QED BY <2>1, <2>2
<1>3. \A n \in TransferNames : MoverKnows(n)'
      BY MoverKeeps DEF TransferInv, TransferRows
<1>4. TransferHonest'
      BY DEF TransferInv, TransferHonest, TransferRows
<1>5. QED BY <1>1, <1>2, <1>3, <1>4 DEF TransferInv

(* A request writes one row, which stays borne out, and moves on or ends.    *)
LEMMA RowStep ==
    ASSUME TransferInv, UNCHANGED movers,
           NEW c \in TransferCallers, NEW r \in TransferRequests, treq' = [treq EXCEPT ![c] = r],
           r.pc \in {"idle", "dispatch"}, r.pc = "dispatch" => r.id \in TransferRows',
           NEW t \in Transfers, NEW row \in TransferRecords, transfers' = [transfers EXCEPT ![t] = row],
           row.dispatch = "submitted" => movers[t[2]].owner = t,
           \/ row.status = "queued" /\ row.pct = 0
           \/ /\ t \in TransferRows
              /\ row.status \in {transfers[t].status, "cancelled"}
              /\ row.pct = transfers[t].pct
    PROVE  TransferInv'
<1> USE TransferAssumption
<1>1. TransferTypes'
      BY DEF TransferInv, TransferTypes
<1>2. TransferRows' = TransferRows \cup {t}
      BY DEF TransferRows, TransferInv, TransferTypes
<1>3. ASSUME NEW d \in TransferCallers PROVE RequestKnows(d)'
  <2>1. CASE d = c
    <3>1. treq'[d] = r
          BY <2>1 DEF TransferInv, TransferTypes
    <3>2. r.pc = "dispatch" => r.id \in Transfers
          BY DEF TransferRows
    <3>3. QED BY <3>1, <3>2 DEF RequestKnows
  <2>2. CASE d # c
    <3>1. treq'[d] = treq[d]
          BY <2>2 DEF TransferInv, TransferTypes
    <3>2. QED BY <1>2, <3>1, RequestKeeps DEF TransferInv
  <2>3. QED BY <2>1, <2>2
<1>4. \A n \in TransferNames : MoverKnows(n)'
      BY <1>2, MoverKeeps DEF TransferInv
<1>5. TransferHonest'
  <2>1. ASSUME NEW u \in TransferRows'
        PROVE  /\ transfers'[u].dispatch = "submitted" => movers'[u[2]].owner = u
               /\ transfers'[u].status \in {"running", "failed", "succeeded"} =>
                     movers'[u[2]].owner = u /\ movers'[u[2]].pc # "none"
               /\ transfers'[u].status = "failed" => movers'[u[2]].broke
               /\ transfers'[u].status = "succeeded" \/ transfers'[u].pct = 100 =>
                     movers'[u[2]].owner = u /\ movers'[u[2]].copied
    <3>1. CASE u = t
      <4>1. transfers'[u] = row
            BY <3>1 DEF TransferInv, TransferTypes
      <4>2. QED BY <3>1, <4>1 DEF TransferInv, TransferHonest
    <3>2. CASE u # t
      <4>1. u \in TransferRows /\ transfers'[u] = transfers[u]
            BY <1>2, <2>1, <3>2 DEF TransferInv, TransferTypes, TransferRows
      <4>2. QED BY <4>1, ZenonT(30) DEF TransferInv, TransferHonest
    <3>3. QED BY <3>1, <3>2
  <2>2. QED BY <2>1 DEF TransferHonest
<1>6. QED BY <1>1, <1>3, <1>4, <1>5 DEF TransferInv

(* Each request's step.                                                      *)
LEMMA UserStep ==
    ASSUME TransferInv, NEW c \in TransferCallers, TransferRequestNext(c),
           ~dispatchFastTransferMoverJob(c)
    PROVE  TransferInv'
<1> USE TransferAssumption
<1>0. /\ treq[c] \in TransferRequests /\ TransferTypes /\ RequestKnows(c)
      /\ \A x : treq' = [treq EXCEPT ![c] = x] => treq'[c] = x
      BY DEF TransferInv, TransferTypes
<1>1. ASSUME NEW p \in TransferProjects, NEW name \in TransferNames \cup {Unnamed}, NEW keyed \in BOOLEAN,
             startFastTransfer(c, p, name, keyed)
      PROVE  TransferInv'
  <2>1. PICK n \in TransferNames : treq' = [treq EXCEPT ![c] = TransferRequest("create", <<p, n>>, keyed)]
        BY <1>1 DEF startFastTransfer, TransferBecomes
  <2> DEFINE r == TransferRequest("create", <<p, n>>, keyed)
  <2>2. r \in TransferRequests /\ r.pc = "create" /\ r.id \in Transfers
        BY TransferRequestType DEF Transfers
  <2>3. UNCHANGED <<transfers, movers>>
        BY <1>1 DEF startFastTransfer
  <2> HIDE DEF r
  <2>4. treq'[c] = r
        BY <1>0, <2>1 DEF r
  <2>5. RequestKnows(c)'
        BY <2>2, <2>4 DEF RequestKnows
  <2>6. QED BY <2>1, <2>2, <2>3, <2>5, RequestStep DEF r
<1>2. ASSUME NEW t \in Transfers, cancelFastTransfer(c, t) PROVE TransferInv'
  <2> DEFINE r == TransferRequest("cancel", t, FALSE)
  <2>1. r \in TransferRequests /\ r.pc = "cancel" /\ r.id = t
        BY TransferRequestType
  <2>2. treq' = [treq EXCEPT ![c] = r] /\ UNCHANGED <<transfers, movers>> /\ t \in TransferRows
        BY <1>2 DEF cancelFastTransfer, TransferBecomes
  <2>3. treq'[c] = r /\ TransferRows' = TransferRows
        BY <1>0, <2>2 DEF TransferRows
  <2> HIDE DEF r
  <2>4. RequestKnows(c)'
        BY <2>1, <2>2, <2>3 DEF RequestKnows
  <2>5. QED BY <2>1, <2>2, <2>4, RequestStep
<1>3. CASE treq' = [treq EXCEPT ![c] = TransferIdle] /\ UNCHANGED <<transfers, movers>>
  <2>1. RequestKnows(c)'
        BY <1>0, <1>3, TransferIdleType DEF RequestKnows
  <2>2. QED BY <1>3, <2>1, TransferIdleType, RequestStep
<1>4. CASE CreateTransfer(c) /\ treq[c].id \notin TransferRows
  <2> DEFINE t == treq[c].id
  <2> DEFINE r == TransferRequest("dispatch", t, FALSE)
  <2> DEFINE row == fastTransferRecord(treq[c].keyed)
  <2>1. /\ transfers' = [transfers EXCEPT ![t] = row] /\ treq' = [treq EXCEPT ![c] = r]
        /\ UNCHANGED movers /\ t \in Transfers
        BY <1>0, <1>4 DEF CreateTransfer, TransferBecomes, RequestKnows
  <2>2. r \in TransferRequests /\ r.pc = "dispatch" /\ r.id = t
        BY <2>1, TransferRequestType
  <2>3. row \in TransferRecords /\ row.status = "queued" /\ row.pct = 0 /\ row.dispatch = ""
        BY <1>0 DEF fastTransferRecord, TransferRecords, TransferStatuses, DispatchStatuses, TransferRequests
  <2>4. r.id \in TransferRows'
        BY <1>0, <2>1, <2>2, <2>3 DEF TransferRows, TransferTypes
  <2> HIDE DEF r, row, t
  <2>5. QED BY <2>1, <2>2, <2>3, <2>4, RowStep
<1>5. ASSUME persistFastTransferDispatch(c) \/ CancelTransfer(c) PROVE TransferInv'
  <2> DEFINE t == treq[c].id
  <2>1. t \in TransferRows /\ t \in Transfers /\ transfers[t] \in TransferRecords
        BY <1>0, <1>5 DEF persistFastTransferDispatch, CancelTransfer, RequestKnows, TransferRows, TransferTypes
  <2>2. treq' = [treq EXCEPT ![c] = TransferIdle] /\ UNCHANGED movers
        BY <1>5 DEF persistFastTransferDispatch, CancelTransfer, TransferDone
  <2>3. CASE persistFastTransferDispatch(c)
    <3> DEFINE row == [transfers[t] EXCEPT !.dispatch = treq[c].seen]
    <3>1. transfers' = [transfers EXCEPT ![t] = row]
          BY <2>3 DEF persistFastTransferDispatch
    <3>2. /\ row \in TransferRecords /\ row.status = transfers[t].status /\ row.pct = transfers[t].pct
          /\ row.dispatch = treq[c].seen
          BY <1>0, <2>1 DEF TransferRecords, TransferRequests
    <3>3. treq[c].seen = "submitted" => movers[t[2]].owner = t
          BY <1>0, <2>3 DEF persistFastTransferDispatch, RequestKnows
    <3> HIDE DEF row, t
    <3>4. QED BY <2>1, <2>2, <3>1, <3>2, <3>3, TransferIdleType, RowStep
  <2>4. CASE CancelTransfer(c)
    <3> DEFINE row == [transfers[t] EXCEPT !.status = "cancelled"]
    <3>1. transfers' = [transfers EXCEPT ![t] = row]
          BY <2>4 DEF CancelTransfer
    <3>2. /\ row \in TransferRecords /\ row.status = "cancelled" /\ row.pct = transfers[t].pct
          /\ row.dispatch = transfers[t].dispatch
          BY <2>1 DEF TransferRecords, TransferStatuses
    <3>3. row.dispatch = "submitted" => movers[t[2]].owner = t
          BY <2>1, <3>2 DEF TransferInv, TransferHonest
    <3> HIDE DEF row, t
    <3>4. QED BY <2>1, <2>2, <3>1, <3>2, <3>3, TransferIdleType, RowStep
  <2>5. QED BY <1>5, <2>3, <2>4
<1>6. ASSUME CreateTransfer(c) \/ RequestLost(c) PROVE TransferInv'
      BY <1>3, <1>4, <1>6 DEF CreateTransfer, RequestLost, TransferDone
<1>7. QED BY <1>1, <1>2, <1>5, <1>6 DEF TransferRequestNext

(* The dispatch: the Job is made when the name is free, and "submitted" is   *)
(* answered only when the Job of that name is the row's own.                 *)
LEMMA TransferDispatchStep ==
    ASSUME TransferInv, NEW c \in TransferCallers, dispatchFastTransferMoverJob(c)
    PROVE  TransferInv'
<1> USE TransferAssumption
<1> DEFINE t == treq[c].id
<1> DEFINE n == t[2]
<1>1. /\ treq[c] \in TransferRequests /\ t \in TransferRows /\ t \in Transfers /\ n \in TransferNames
      /\ TransferTypes /\ transfers' = transfers
      BY TransferName DEF TransferInv, TransferTypes, RequestKnows, TransferRows,
            dispatchFastTransferMoverJob
<1> DEFINE action == EnsureFastTransferMoverJob(n, t)
<1> DEFINE job == IF action = "created" THEN Mover(t, "begin", 1) ELSE movers[n]
<1>a. PICK answer \in {"submitted", "unsubmitted"} :
         /\ treq' = [treq EXCEPT ![c] = [treq[c] EXCEPT !.pc = "persist", !.seen = answer]]
         /\ movers' = movers \/ movers' = [movers EXCEPT ![n] = job]
         /\ answer = "submitted" => /\ action \in {"created", "already_exists"}
                                    /\ movers' = [movers EXCEPT ![n] = job]
      BY DEF dispatchFastTransferMoverJob, TransferBecomes, dispatchStatusOf
<1>b. /\ action = "created" <=> movers[n].owner = NoTransfer
      /\ action = "already_exists" => movers[n].owner = t
      BY DEF EnsureFastTransferMoverJob, fastTransferMoverJobMatches
<1> HIDE DEF action
<1> DEFINE r == [treq[c] EXCEPT !.pc = "persist", !.seen = answer]
<1>c. r \in TransferRequests /\ r.pc = "persist" /\ r.id = t /\ r.seen = answer
      BY <1>1 DEF TransferRequests, DispatchStatuses
<1>d. treq' = [treq EXCEPT ![c] = r]
      BY <1>a
<1> HIDE DEF r
<1>2. /\ treq' \in [TransferCallers -> TransferRequests]
      /\ treq'[c].pc = "persist" /\ treq'[c].id = t /\ treq'[c].seen = answer
      /\ \A d \in TransferCallers : d # c => treq'[d] = treq[d]
      BY <1>1, <1>c, <1>d DEF TransferTypes
<1>3. /\ movers' \in [TransferNames -> MoverRecords]
      /\ \A k \in TransferNames : k # n => movers'[k] = movers[k]
      /\ \/ movers'[n] = movers[n]
         \/ movers[n].owner = NoTransfer /\ movers'[n] = Mover(t, "begin", 1)
  <2>1. Mover(t, "begin", 1) \in MoverRecords
        BY <1>1, MoverType
  <2>2. CASE movers' = movers
        BY <1>1, <2>2 DEF TransferTypes
  <2>3. CASE movers' = [movers EXCEPT ![n] = job]
        BY <1>1, <1>b, <2>1, <2>3 DEF TransferTypes
  <2>4. QED BY <1>a, <2>2, <2>3
<1>4. answer = "submitted" => movers'[n].owner = t
      BY <1>1, <1>a, <1>b, MoverType DEF TransferTypes
<1> DEFINE j == Mover(t, "begin", 1)
<1>5. j.owner = t /\ j.pc = "begin" /\ ~j.copied /\ j.seen = NoTransfer
      BY <1>1, MoverType
<1>6. /\ TransferRows' = TransferRows
      /\ \A k \in TransferNames : movers[k].owner # NoTransfer => movers'[k].owner = movers[k].owner
      BY <1>1, <1>3 DEF TransferRows
<1> HIDE DEF n, t, j
<1>7. TransferTypes'
      BY <1>1, <1>2, <1>3 DEF TransferTypes
<1>8. ASSUME NEW d \in TransferCallers PROVE RequestKnows(d)'
  <2>1. CASE d = c
        BY <1>1, <1>2, <1>4, <1>6, <2>1 DEF RequestKnows, n
  <2>2. CASE d # c
        BY <1>2, <1>6, <2>2, RequestKeeps DEF TransferInv
  <2>3. QED BY <2>1, <2>2
<1>9. ASSUME NEW k \in TransferNames PROVE MoverKnows(k)'
  <2>1. CASE movers'[k] = movers[k]
        BY <1>6, <2>1, MoverKeeps DEF TransferInv
  <2>2. CASE k = n /\ movers'[k] = j
        BY <1>1, <1>5, <1>6, <2>2 DEF MoverKnows, n
  <2>3. QED BY <1>3, <2>1, <2>2 DEF j
<1>10. TransferHonest'
  <2>1. ASSUME NEW u \in TransferRows
        PROVE  LET row == transfers[u]
                   m == movers'[u[2]]
               IN  /\ row.dispatch = "submitted" => m.owner = u
                   /\ row.status \in {"running", "failed", "succeeded"} => m.owner = u /\ m.pc # "none"
                   /\ row.status = "failed" => m.broke
                   /\ row.status = "succeeded" \/ row.pct = 100 => m.owner = u /\ m.copied
    <3>1. u \in Transfers /\ u[2] \in TransferNames /\ u # NoTransfer
          BY TransferName DEF TransferRows
    <3>2. CASE movers'[u[2]] = movers[u[2]]
          BY <3>2 DEF TransferInv, TransferHonest
    <3>3. CASE movers[u[2]].owner = NoTransfer
          BY <3>1, <3>3 DEF TransferInv, TransferHonest
    <3>4. QED BY <1>3, <3>1, <3>2, <3>3
  <2>2. QED BY <1>1, <1>6, <2>1 DEF TransferHonest
<1>11. QED BY <1>7, <1>8, <1>9, <1>10 DEF TransferInv

(* The script of a Job goes on, and the row it reports to may be patched     *)
(* with what it went through.                                                *)
LEMMA JobStep ==
    ASSUME TransferInv, UNCHANGED treq, NEW n \in TransferNames, NEW m \in MoverRecords,
           movers[n].owner # NoTransfer, movers' = [movers EXCEPT ![n] = m],
           m.owner = movers[n].owner, m.pc # "none",
           movers[n].copied => m.copied, movers[n].broke => m.broke,
           m.copied => m.pc \in {"report", "over"},
           (m.pc = "report" /\ ~m.copied) => m.broke,
           (m.seen # NoTransfer /\ m.seen.pct = 100) => m.copied,
           NEW row \in TransferRecords, transfers' = [transfers EXCEPT ![movers[n].owner] = row],
           row.dispatch = transfers[movers[n].owner].dispatch,
           row.status = "failed" => m.broke,
           row.status = "succeeded" \/ row.pct = 100 => m.copied
    PROVE  TransferInv'
<1> USE TransferAssumption
<1> DEFINE t == movers[n].owner
<1>1. t \in TransferRows /\ t \in Transfers /\ t[2] = n
      BY DEF TransferInv, MoverKnows, TransferRows
<1>2. /\ TransferRows' = TransferRows
      /\ movers'[n] = m /\ \A k \in TransferNames : k # n => movers'[k] = movers[k]
      /\ transfers'[t] = row /\ \A u \in Transfers : u # t => transfers'[u] = transfers[u]
      BY <1>1 DEF TransferInv, TransferTypes, TransferRows
<1>3. TransferTypes'
      BY <1>1 DEF TransferInv, TransferTypes
<1>4. \A c \in TransferCallers : RequestKnows(c)'
      BY <1>2, RequestKeeps DEF TransferInv
<1>5. ASSUME NEW k \in TransferNames PROVE MoverKnows(k)'
  <2>1. CASE k = n
        BY <1>1, <1>2, <2>1 DEF MoverKnows
  <2>2. CASE k # n
        BY <1>2, <2>2, MoverKeeps DEF TransferInv
  <2>3. QED BY <2>1, <2>2
<1>6. TransferHonest'
  <2>1. ASSUME NEW u \in TransferRows
        PROVE  LET q == transfers'[u]
                   k == movers'[u[2]]
               IN  /\ q.dispatch = "submitted" => k.owner = u
                   /\ q.status \in {"running", "failed", "succeeded"} => k.owner = u /\ k.pc # "none"
                   /\ q.status = "failed" => k.broke
                   /\ q.status = "succeeded" \/ q.pct = 100 => k.owner = u /\ k.copied
    <3>1. u \in Transfers /\ u[2] \in TransferNames
          BY TransferName DEF TransferRows
    <3>2. CASE u = t
          BY <1>1, <1>2, <3>2
    <3>3. CASE u # t
      <4>1. transfers'[u] = transfers[u]
            BY <1>2, <3>1, <3>3
      <4>2. CASE u[2] # n
            BY <1>2, <3>1, <4>1, <4>2 DEF TransferInv, TransferHonest
      <4>3. CASE u[2] = n
            BY <1>2, <3>1, <3>3, <4>1, <4>3 DEF TransferInv, TransferHonest
      <4>4. QED BY <4>2, <4>3
    <3>4. QED BY <3>2, <3>3
  <2>2. QED BY <1>2, <2>1 DEF TransferHonest
<1>7. QED BY <1>3, <1>4, <1>5, <1>6 DEF TransferInv
(* What the script does after a post: it forgets what it read, keeps its     *)
(* owner and how its rsyncs ended, and starts over only after a failure.     *)
LEMMA AfterPostType ==
    ASSUME NEW m \in MoverRecords, m.pc \in {"begin", "report"}
    PROVE  /\ AfterPost(m) \in MoverRecords
           /\ AfterPost(m).owner = m.owner /\ AfterPost(m).pc \in {"begin", "copy", "over"}
           /\ AfterPost(m).copied = m.copied /\ AfterPost(m).broke = m.broke
           /\ AfterPost(m).seen = NoTransfer
           /\ m.pc = "report" /\ m.copied => AfterPost(m).pc = "over"
<1>1. CASE m.pc = "begin"
  <2>1. AfterPost(m) = [m EXCEPT !.pc = "copy", !.seen = NoTransfer]
        BY <1>1 DEF AfterPost
  <2>2. QED BY <1>1, <2>1 DEF MoverRecords
<1>2. CASE m.pc = "report" /\ ~m.copied /\ m.attempt = 1
  <2>1. AfterPost(m) = [m EXCEPT !.pc = "begin", !.attempt = 2, !.seen = NoTransfer]
        BY <1>2 DEF AfterPost
  <2>2. 2 \in 0 .. 2
        OBVIOUS
  <2> DEFINE A == 0 .. 2
  <2> HIDE DEF A
  <2>3. m \in [owner : Transfers \cup {NoTransfer}, pc : {"none", "begin", "copy", "report", "over"},
                attempt : A, copied : BOOLEAN, broke : BOOLEAN, seen : SeenRecords \cup {NoTransfer}]
        BY DEF A, MoverRecords
  <2>4. AfterPost(m) \in [owner : Transfers \cup {NoTransfer},
                          pc : {"none", "begin", "copy", "report", "over"},
                          attempt : A, copied : BOOLEAN, broke : BOOLEAN, seen : SeenRecords \cup {NoTransfer}]
        BY <2>1, <2>2, <2>3 DEF A
  <2>5. QED BY <1>2, <2>1, <2>3, <2>4 DEF A, MoverRecords
<1>3. CASE m.pc = "report" /\ ~(~m.copied /\ m.attempt = 1)
  <2>1. AfterPost(m) = [m EXCEPT !.pc = "over", !.seen = NoTransfer]
        BY <1>3 DEF AfterPost
  <2>2. QED BY <1>3, <2>1 DEF MoverRecords
<1>4. QED BY <1>1, <1>2, <1>3

\* Every step of a mover's script keeps the invariant.
LEMMA MoverStep ==
    ASSUME TransferInv, NEW n \in TransferNames, MoverNext(n)
    PROVE  TransferInv'
<1> USE TransferAssumption
<1> DEFINE m == movers[n]
<1> DEFINE t == m.owner
<1>1. /\ m \in MoverRecords /\ MoverKnows(n) /\ TransferTypes /\ treq' = treq
      /\ m.pc \in {"begin", "copy", "report"}
      BY DEF TransferInv, TransferTypes, MoverNext, ProgressRead, updateFastTransferProgress, ProgressLost, Rsync
<1>2. /\ t # NoTransfer /\ t \in Transfers /\ t \in TransferRows /\ t[2] = n
      /\ transfers[t] \in TransferRecords
      BY <1>1 DEF MoverKnows, TransferRows, TransferTypes
<1> DEFINE old == transfers[t]
<1>3. /\ old.status = "failed" => m.broke
      /\ old.status = "succeeded" \/ old.pct = 100 => m.copied
      BY <1>2, ZenonT(30) DEF TransferInv, TransferHonest
<1>4. m.copied => m.pc = "report"
      BY <1>1 DEF MoverKnows
<1>5. transfers' = transfers => transfers' = [transfers EXCEPT ![t] = old]
      BY <1>1, <1>2 DEF TransferTypes
<1>6. CASE ProgressRead(n)
  <2> DEFINE seen == [status |-> old.status, pct |-> old.pct]
  <2> DEFINE k == [m EXCEPT !.seen = seen]
  <2>1. seen \in SeenRecords /\ seen.pct = old.pct
        BY <1>2 DEF SeenRecords, TransferRecords
  <2>2. /\ k \in MoverRecords /\ k.owner = t /\ k.pc = m.pc /\ k.copied = m.copied /\ k.broke = m.broke
        /\ k.seen = seen
        BY <1>1, <2>1 DEF MoverRecords
  <2>3. movers' = [movers EXCEPT ![n] = k] /\ transfers' = transfers
        BY <1>6 DEF ProgressRead
  <2>4. (m.pc = "report" /\ ~m.copied) => m.broke
        BY <1>1 DEF MoverKnows
  <2> HIDE DEF k, seen
  <2>5. transfers' = [transfers EXCEPT ![t] = old]
        BY <1>5, <2>3
  <2>6. m.pc # "none"
        BY <1>1
  <2> HIDE DEF old, t, m
  <2>7. /\ movers[n].owner # NoTransfer /\ k.owner = movers[n].owner /\ k.pc # "none"
        /\ movers[n].copied => k.copied
        /\ movers[n].broke => k.broke
        /\ k.copied => k.pc \in {"report", "over"}
        /\ (k.pc = "report" /\ ~k.copied) => k.broke
        /\ (k.seen # NoTransfer /\ k.seen.pct = 100) => k.copied
        BY <1>2, <1>3, <1>4, <2>1, <2>2, <2>4, <2>6 DEF m, t
  <2>8. /\ old \in TransferRecords /\ transfers' = [transfers EXCEPT ![movers[n].owner] = old]
        /\ old.dispatch = transfers[movers[n].owner].dispatch
        /\ old.status = "failed" => k.broke
        /\ old.status = "succeeded" \/ old.pct = 100 => k.copied
        BY <1>2, <1>3, <2>2, <2>5 DEF m, t, old
  <2>9. QED BY <1>1, <2>2, <2>3, <2>7, <2>8, JobStep
<1>7. CASE Rsync(n)
  <2>1. PICK ok \in BOOLEAN :
           movers' = [movers EXCEPT ![n].pc = "report", ![n].copied = ok, ![n].broke = @ \/ ~ok]
        BY <1>7 DEF Rsync
  <2> DEFINE k == [m EXCEPT !.pc = "report", !.copied = ok, !.broke = m.broke \/ ~ok]
  <2>2. /\ k \in MoverRecords /\ k.owner = t /\ k.pc = "report" /\ k.seen = m.seen
        /\ m.broke => k.broke
        /\ k.copied \/ k.broke
        BY <1>1 DEF MoverRecords
  <2>3. movers' = [movers EXCEPT ![n] = k] /\ transfers' = transfers /\ m.pc = "copy"
        BY <1>1, <1>7, <2>1 DEF Rsync, MoverRecords, TransferTypes
  <2>4. ~m.copied /\ (m.seen # NoTransfer => m.seen.pct # 100)
        BY <1>1, <1>4, <2>3 DEF MoverKnows
  <2>5. transfers' = [transfers EXCEPT ![t] = old]
        BY <1>5, <2>3
  <2>6. /\ old.status = "failed" => k.broke
        /\ ~(old.status = "succeeded" \/ old.pct = 100)
        BY <1>3, <2>2, <2>4
  <2>7. /\ movers[n].copied => k.copied
        /\ k.copied => k.pc \in {"report", "over"}
        /\ (k.pc = "report" /\ ~k.copied) => k.broke
        /\ (k.seen # NoTransfer /\ k.seen.pct = 100) => k.copied
        /\ old.status = "succeeded" \/ old.pct = 100 => k.copied
        BY <2>2, <2>4, <2>6
  <2> HIDE DEF k
  <2>8. QED BY <1>1, <1>2, <2>2, <2>3, <2>5, <2>6, <2>7, JobStep, ZenonT(30)
<1>8. CASE ProgressLost(n) \/ updateFastTransferProgress(n)
  <2> DEFINE k == AfterPost(m)
  <2>1. /\ k \in MoverRecords /\ k.owner = t /\ k.pc \in {"begin", "copy", "over"} /\ k.copied = m.copied
        /\ k.broke = m.broke /\ k.seen = NoTransfer
        /\ m.copied => k.pc = "over"
        BY <1>1, <1>4, <1>8, AfterPostType DEF ProgressLost, updateFastTransferProgress
  <2>2. movers' = [movers EXCEPT ![n] = k] /\ m.pc \in {"begin", "report"}
        BY <1>8 DEF ProgressLost, updateFastTransferProgress
  <2>3. PICK row \in TransferRecords :
           /\ transfers' = [transfers EXCEPT ![t] = row]
           /\ row.dispatch = old.dispatch
           /\ row.status = "failed" => m.broke
           /\ row.status = "succeeded" \/ row.pct = 100 => m.copied
    <3>1. CASE transfers' = transfers
          BY <1>2, <1>3, <1>5, <3>1
    <3>2. CASE updateFastTransferProgress(n) /\ transfers' # transfers
      <4> DEFINE post == fastTransferMoverScript(m)
      <4> DEFINE patch == fastTransferProgressPatch(m.seen, post)
      <4> DEFINE row == [old EXCEPT !.status = patch.status, !.pct = patch.pct]
      <4>1. transfers' = [transfers EXCEPT ![t] = row] /\ m.seen \in SeenRecords /\ m.seen # NoTransfer
        <5>1. transfers' = [transfers EXCEPT ![t] = row] /\ m.seen # NoTransfer
              BY <3>2 DEF updateFastTransferProgress
        <5>2. m.seen \in SeenRecords \cup {NoTransfer}
              BY <1>1 DEF MoverRecords
        <5>3. QED BY <5>1, <5>2
      <4>2. \/ post.status = "running" /\ post.pct = 1
            \/ post.status = "succeeded" /\ post.pct = 100 /\ m.copied
            \/ post.status = "failed" /\ post.pct = 0 /\ ~m.copied /\ m.pc = "report"
        <5>1. CASE m.pc = "begin"
              BY <5>1 DEF fastTransferMoverScript
        <5>2. CASE m.pc = "report" /\ m.copied
              BY <5>2 DEF fastTransferMoverScript
        <5>3. CASE m.pc = "report" /\ ~m.copied
              BY <5>3 DEF fastTransferMoverScript
        <5>4. QED BY <2>2, <5>1, <5>2, <5>3
      <4>3. /\ patch.status = post.status
            /\ patch.pct = IF post.pct > 0 THEN post.pct
                           ELSE IF post.status = "succeeded" THEN 100 ELSE m.seen.pct
            BY DEF fastTransferProgressPatch
      <4>4. m.seen.pct \in {0, 1, 100} /\ (m.seen.pct = 100 => m.copied)
            BY <1>1, <4>1 DEF SeenRecords, MoverKnows
      <4>5. ~m.copied /\ m.pc = "report" => m.broke
            BY <1>1 DEF MoverKnows
      <4> HIDE DEF post, patch
      <4>6. /\ patch.status \in TransferStatuses /\ patch.pct \in {0, 1, 100}
            /\ patch.status = "failed" => m.broke
            /\ patch.status = "succeeded" \/ patch.pct = 100 => m.copied
            BY <4>2, <4>3, <4>4, <4>5 DEF TransferStatuses
      <4>7. /\ row \in TransferRecords /\ row.dispatch = old.dispatch
            /\ row.status = patch.status /\ row.pct = patch.pct
            BY <1>2, <4>6 DEF TransferRecords
      <4>8. QED BY <4>1, <4>6, <4>7
    <3>3. QED BY <1>8, <3>1, <3>2 DEF ProgressLost
  <2> HIDE DEF k
  <2>4. QED BY <1>1, <1>2, <2>1, <2>2, <2>3, JobStep, ZenonT(30)
<1>9. QED BY <1>6, <1>7, <1>8 DEF MoverNext

\* Every step of a transfer keeps the invariant.
LEMMA TransferInvNext == TransferInv /\ [TransferNext]_transferVars => TransferInv'
<1> SUFFICES ASSUME TransferInv, [TransferNext]_transferVars PROVE TransferInv'
    OBVIOUS
<1>1. CASE UNCHANGED transferVars
  <2>1. UNCHANGED <<transfers, movers, treq>> /\ TransferRows' = TransferRows
        BY <1>1 DEF transferVars, TransferRows
  <2>2. (\A c \in TransferCallers : RequestKnows(c)') /\ (\A n \in TransferNames : MoverKnows(n)')
        BY <2>1, RequestKeeps, MoverKeeps DEF TransferInv
  <2>3. TransferTypes' /\ TransferHonest'
        BY <2>1, ZenonT(30) DEF TransferInv, TransferTypes, TransferHonest
  <2>4. QED BY <2>2, <2>3 DEF TransferInv
<1>2. ASSUME NEW n \in TransferNames, MoverNext(n) PROVE TransferInv'
      BY <1>2, MoverStep
<1>3. ASSUME NEW c \in TransferCallers, TransferRequestNext(c) PROVE TransferInv'
      BY <1>3, UserStep, TransferDispatchStep
<1>4. QED BY <1>1, <1>2, <1>3 DEF TransferNext

(* What a transfer's record says is borne out by the cluster, with any       *)
(* number of projects, names and requests, however callbacks are lost,       *)
(* refused or late and cancels race them: submitted means that the Job of    *)
(* that name is the record's own, failed that an rsync of it failed, and     *)
(* succeeded or 100% that one ended without error.                           *)
THEOREM TransfersAreHonest == TransferSpec => []TransferHonest
<1>1. TransferInv => TransferHonest
      BY DEF TransferInv
<1>2. QED BY <1>1, TransferInvInit, TransferInvNext, PTL DEF TransferSpec

-----------------------------------------------------------------------------
(* Storage mounts.                                                           *)

MountPcs == {"idle", "profiles", "binding", "source", "permission", "scratch", "make",
             "share", "volume", "claim", "create"}
MountGroups == VolumeGroups \cup {NoGroup}
MounterStates == [pc : MountPcs, job : MountJobs \cup {""}, phase : {"", "mount", "stage"},
                  group : MountGroups, mount : MountGroups, stage : MountGroups,
                  mode : AccessModes \cup {""}, adopted : SUBSET {"share", "scratch"}]

ClusterTypes ==
    /\ sharePV \in [ShareNames -> MountGroups]
    /\ shareClaim \in ShareNames \cup {""}
    /\ scratchClaim \in [MountJobs -> AccessModes \cup {""}]

MountTypes ==
    /\ mounter \in MounterStates
    /\ profile \in [{"scratch", "checkpoint"} -> AccessModes \cup {""}]
    /\ binding \in MountGroups
    /\ ClusterTypes

(* A claim over the group's volume, and one of the planned mode: or what a   *)
(* create that came too late found.                                          *)
Backed(g) == shareClaim # "" /\ (sharePV[shareClaim] = g \/ "share" \in mounter.adopted)

Scratched ==
    /\ scratchClaim[mounter.job] # ""
    /\ scratchClaim[mounter.job] = mounter.mode \/ "scratch" \in mounter.adopted

(* The plan the dispatcher is executing, and what it has made of it.         *)
MounterKnows ==
    /\ mounter.pc # "idle" => mounter.job \in MountJobs
    /\ mounter.pc \in {"source", "permission", "scratch", "make", "share", "volume", "claim"} =>
          mounter.group \in VolumeGroups
    /\ mounter.phase = "mount" => mounter.mode = "" /\ mounter.stage = NoGroup
    /\ mounter.phase = "stage" /\ mounter.pc \notin {"idle", "profiles"} => mounter.mode \in AccessModes
    /\ mounter.pc \in {"scratch", "make"} =>
          mounter.phase = "stage" /\ mounter.stage \in {NoGroup, mounter.group}
    /\ mounter.pc \in {"share", "volume", "claim"} =>
          \/ mounter.phase = "mount" /\ mounter.mount = mounter.group
          \/ mounter.phase = "stage" /\ mounter.stage = mounter.group /\ Scratched
    /\ (mounter.phase = "stage" \/ mounter.pc \in {"profiles", "create"}) =>
          mounter.mount = NoGroup \/ Backed(mounter.mount)
    /\ mounter.pc = "create" =>
          \/ mounter.phase = "mount"
          \/ Scratched /\ (mounter.stage = NoGroup \/ Backed(mounter.stage))
    /\ mounter.pc = "claim" =>
          sharePV[ShareName(mounter.group)] = mounter.group \/ "share" \in mounter.adopted

MountInv == MountTypes /\ MounterKnows

\* The share of a group has one of the two names.
LEMMA ShareNameType == ASSUME NEW g PROVE ShareName(g) \in ShareNames
BY DEF ShareName, ShareNames

\* An idle dispatcher knows nothing.
LEMMA IdleMounter ==
    ASSUME MountTypes, mounter' = MounterIdle
    PROVE  mounter' \in MounterStates /\ mounter'.pc = "idle" /\ mounter'.phase = ""
BY DEF MounterIdle, MounterStates, MountPcs, MountGroups

\* The dispatcher at another step of the same plan.
SamePlan ==
    /\ mounter' \in MounterStates
    /\ mounter'.job = mounter.job /\ mounter'.phase = mounter.phase
    /\ mounter'.group = mounter.group /\ mounter'.mount = mounter.mount
    /\ mounter'.stage = mounter.stage /\ mounter'.mode = mounter.mode
    /\ mounter.adopted \subseteq mounter'.adopted

\* MounterGoes changes the step only.
LEMMA GoingMounter ==
    ASSUME MountTypes, NEW pc \in MountPcs, MounterGoes(pc)
    PROVE  SamePlan /\ mounter'.pc = pc
BY DEF MountTypes, MounterGoes, MounterStates, SamePlan

\* MounterMakes notes what it found, too.
LEMMA MakingMounter ==
    ASSUME MountTypes, NEW pc \in MountPcs, NEW what \in {"share", "scratch"}, NEW exists \in BOOLEAN,
           MounterMakes(pc, what, exists)
    PROVE  SamePlan /\ mounter'.pc = pc /\ (exists => what \in mounter'.adopted)
<1>1. mounter.adopted \in SUBSET {"share", "scratch"}
  BY DEF MountTypes, MounterStates
<1> DEFINE a == IF exists THEN mounter.adopted \cup {what} ELSE mounter.adopted
<1>2. a \in SUBSET {"share", "scratch"} /\ mounter.adopted \subseteq a /\ (exists => what \in a)
  BY <1>1
<1>3. mounter' = [mounter EXCEPT !.pc = pc, !.adopted = a]
  BY DEF MounterMakes, MountTypes, MounterStates
<1> HIDE DEF a
<1> QED
  BY <1>2, <1>3 DEF MountTypes, MounterStates, SamePlan

\* Claims and volumes are made, never changed or deleted.
Grows ==
    /\ shareClaim # "" => shareClaim' = shareClaim
    /\ \A v \in ShareNames : sharePV[v] # NoGroup => sharePV'[v] = sharePV[v]
    /\ \A j \in MountJobs : scratchClaim[j] # "" => scratchClaim'[j] = scratchClaim[j]

\* What a plan has made of the cluster stays made.
LEMMA StaysMade ==
    ASSUME MountInv, Grows,
           mounter'.job = mounter.job, mounter'.mode = mounter.mode,
           mounter.adopted \subseteq mounter'.adopted
    PROVE  /\ \A g \in VolumeGroups : Backed(g) => Backed(g)'
           /\ mounter.pc # "idle" /\ Scratched => Scratched'
<1>1. ASSUME NEW g \in VolumeGroups, Backed(g) PROVE Backed(g)'
  <2>1. shareClaim' = shareClaim /\ shareClaim \in ShareNames /\ shareClaim # ""
    BY <1>1 DEF Backed, Grows, MountInv, MountTypes, ClusterTypes
  <2>2. CASE sharePV[shareClaim] = g
    BY <2>1, <2>2, MountAssumption DEF Backed, Grows
  <2>3. CASE "share" \in mounter.adopted
    BY <2>1, <2>3 DEF Backed
  <2> QED
    BY <1>1, <2>2, <2>3 DEF Backed
<1>2. mounter.pc # "idle" /\ Scratched => Scratched'
  BY DEF Scratched, Grows, MountInv, MounterKnows
<1> QED
  BY <1>1, <1>2

\* The profiles stay a function.
LEMMA ProfilesStep ==
    ASSUME MountTypes, StorageRequest
    PROVE  /\ profile' \in [{"scratch", "checkpoint"} -> AccessModes \cup {""}]
           /\ binding' \in MountGroups
<1>1. /\ \/ UNCHANGED profile
         \/ \E k \in DOMAIN profile, m \in AccessModes \cup {""} : profile' = [profile EXCEPT ![k] = m]
         \/ seedDefaultStorageProfiles
      /\ binding' \in {binding, NoGroup} \cup VolumeGroups
  <2>1. CASE \E g \in VolumeGroups :
               \/ createGroupStorage(g) \/ DeleteGroupStorageCascadeTx(g)
               \/ \E s \in VolumeStatuses : commandGroupStorage(g, s)
               \/ createProjectBinding(g) \/ deleteStoragePermission(g)
               \/ \E p \in Permissions : createStoragePermission(g, p) \/ createStoragePolicy(g, p)
    <3>1. UNCHANGED profile /\ binding' \in {binding} \cup VolumeGroups
      BY <2>1 DEF createGroupStorage, DeleteGroupStorageCascadeTx, commandGroupStorage,
           createProjectBinding, deleteStoragePermission, createStoragePermission,
           createStoragePolicy
    <3> QED
      BY <3>1
  <2>2. CASE \/ DeleteProjectBindingCascadeTx \/ deleteProjectBindingPermission
             \/ (\E p \in Permissions : setProjectBindingPermission(p))
             \/ upsertCacheBinding \/ deleteCacheBinding
    <3>1. UNCHANGED profile /\ binding' \in {binding, NoGroup}
      BY <2>2 DEF DeleteProjectBindingCascadeTx, deleteProjectBindingPermission,
           setProjectBindingPermission, upsertCacheBinding, deleteCacheBinding
    <3> QED
      BY <3>1
  <2>3. CASE \E k \in DOMAIN profile :
               \/ deleteStorageProfile(k)
               \/ \E m \in AccessModes : createStorageProfile(k, m) \/ updateStorageProfile(k, m)
    BY <2>3 DEF deleteStorageProfile, createStorageProfile, updateStorageProfile
  <2>4. CASE seedDefaultStorageProfiles
    BY <2>4 DEF seedDefaultStorageProfiles
  <2> QED
    BY <2>1, <2>2, <2>3, <2>4 DEF StorageRequest
<1>2. binding' \in MountGroups
  BY <1>1 DEF MountTypes, MountGroups
<1>3. CASE seedDefaultStorageProfiles
  <2>1. /\ defaultStorageProfiles["scratch"] \in AccessModes
        /\ defaultStorageProfiles["checkpoint"] \in AccessModes
    BY DEF defaultStorageProfiles, AccessModes
  <2> QED
    BY <1>2, <1>3, <2>1 DEF seedDefaultStorageProfiles, MountTypes
<1> QED
  BY <1>1, <1>2, <1>3 DEF MountTypes

LEMMA MountStart == ASSUME MountInit PROVE MountInv
<1>1. mounter \in MounterStates /\ mounter.pc = "idle" /\ mounter.phase = ""
  BY DEF MountInit, MounterIdle, MounterStates, MountPcs, MountGroups
<1>a. profile \in [scratch : AccessModes \cup {""}, checkpoint : AccessModes \cup {""}]
  BY DEF MountInit, defaultStorageProfiles, AccessModes
<1>2. profile \in [{"scratch", "checkpoint"} -> AccessModes \cup {""}]
  BY <1>a
<1>3. MountTypes
  BY <1>1, <1>2 DEF MountInit, MountTypes, ClusterTypes, MountGroups, ShareNames
<1> QED
  BY <1>1, <1>3 DEF MountInit, MountInv, MounterKnows

\* The rows of storage-service and the repairs touch no claim.
LEMMA RowsKeepMounts ==
    ASSUME MountInv, StorageRequest \/ RepairStep
    PROVE  MountInv'
<1>1. UNCHANGED <<sharePV, shareClaim, scratchClaim, mounter, driver>>
  BY DEF StorageRequest, clusterVars, RepairStep, RepairLeaves, reconcileLonghornRWXVolume,
         CooldownEnds, LonghornManager, maybeRepairLonghornRWXVolume,
         failedLonghornShareManagerPods, annotateLonghornRWXRepair, DeleteShareManager, RepairError
<1>2. /\ profile' \in [{"scratch", "checkpoint"} -> AccessModes \cup {""}]
      /\ binding' \in MountGroups
  <2>1. CASE StorageRequest
    BY <2>1, ProfilesStep DEF MountInv
  <2>2. CASE RepairStep
    <3>1. UNCHANGED <<profile, binding>>
      BY <2>2 DEF RepairStep, RepairLeaves, storageRows, reconcileLonghornRWXVolume,
         CooldownEnds, LonghornManager, maybeRepairLonghornRWXVolume,
         failedLonghornShareManagerPods, annotateLonghornRWXRepair, DeleteShareManager, RepairError
    <3> QED
      BY <3>1 DEF MountInv, MountTypes
  <2> QED
    BY <2>1, <2>2
<1>3. MountTypes'
  BY <1>1, <1>2 DEF MountInv, MountTypes, ClusterTypes
<1>4. MounterKnows'
  BY <1>1 DEF MountInv, MounterKnows, Backed, Scratched, ShareName
<1> QED
  BY <1>3, <1>4 DEF MountInv

\* A dispatch that ends.
LEMMA EndKeepsMounts ==
    ASSUME MountInv, mounter' = MounterIdle, ClusterTypes', MounterLeaves
    PROVE  MountInv'
<1>1. mounter' \in MounterStates /\ mounter'.pc = "idle" /\ mounter'.phase = ""
  BY IdleMounter DEF MountInv
<1>2. MountTypes'
  BY <1>1 DEF MountInv, MountTypes, MounterLeaves, storageRows
<1> QED
  BY <1>1, <1>2 DEF MountInv, MounterKnows

\* ... with the claims as they were.
LEMMA EndNoCluster ==
    ASSUME MountInv, mounter' = MounterIdle, NoCluster, MounterLeaves
    PROVE  MountInv'
<1>1. ClusterTypes'
  BY DEF MountInv, MountTypes, ClusterTypes, NoCluster
<1> QED
  BY <1>1, EndKeepsMounts

\* A dispatch that goes on, with the claims as they were.
LEMMA PlanKeepsMounts ==
    ASSUME MountInv, NoCluster, MounterLeaves,
           \/ \E j \in MountJobs : dispatchJob(j)
           \/ resolveStorageDataPlanePlan \/ findProjectStorageBinding \/ findGroupStorageSource
           \/ resolveStorageMountPlan \/ resolveStorageDataPlaneStageIn,
           mounter' # MounterIdle
    PROVE  MountInv'
<1> USE DEF MountInv
<1>0. UNCHANGED <<sharePV, shareClaim, scratchClaim, driver, profile, binding>>
  BY DEF NoCluster, MounterLeaves, storageRows
<1>1. mounter' \in MounterStates /\ MounterKnows'
  <2>1. CASE \E j \in MountJobs : dispatchJob(j)
    <3> PICK j \in MountJobs : dispatchJob(j)
      BY <2>1
    <3>1. /\ mounter' \in MounterStates /\ mounter'.job = j /\ mounter'.mount = NoGroup
          /\ mounter'.mode = "" /\ mounter'.stage = NoGroup
          /\ mounter'.pc \in {"binding", "profiles"}
          /\ mounter'.phase = "stage" => mounter'.pc = "profiles"
      BY DEF dispatchJob, MounterIdle, MounterStates, MountPcs, MountGroups
    <3>2. mounter.pc = "idle"
      BY DEF dispatchJob
    <3> QED
      BY <3>1, <3>2 DEF MounterKnows
  <2>2. CASE resolveStorageDataPlanePlan
    <3>1. /\ mounter.pc = "profiles"
          /\ mounter' = [mounter EXCEPT !.pc = "binding", !.phase = "stage", !.mode = profile.scratch]
          /\ profile.scratch # ""
      BY <2>2 DEF resolveStorageDataPlanePlan, FailDispatch
    <3>2. /\ mounter' \in MounterStates /\ mounter'.job = mounter.job /\ mounter'.mount = mounter.mount
          /\ mounter'.phase = "stage" /\ mounter'.pc = "binding"
          /\ mounter'.adopted = mounter.adopted /\ mounter'.mode \in AccessModes
      BY <3>1 DEF MountTypes, MounterStates, MountPcs
    <3> QED
      BY <1>0, <3>1, <3>2 DEF MounterKnows, Backed, Scratched
  <2>3. CASE findProjectStorageBinding
    <3>1. /\ mounter.pc = "binding" /\ binding # NoGroup
          /\ mounter' = [mounter EXCEPT !.pc = "source", !.group = binding]
      BY <2>3 DEF findProjectStorageBinding, FailDispatch
    <3>2. /\ mounter' \in MounterStates /\ mounter'.job = mounter.job /\ mounter'.mount = mounter.mount
          /\ mounter'.phase = mounter.phase /\ mounter'.pc = "source" /\ mounter'.group = binding
          /\ mounter'.mode = mounter.mode /\ mounter'.stage = mounter.stage /\ binding \in VolumeGroups
          /\ mounter'.adopted = mounter.adopted
      BY <3>1 DEF MountTypes, MounterStates, MountPcs, MountGroups
    <3> QED
      BY <1>0, <3>1, <3>2 DEF MounterKnows, Backed, Scratched
  <2>4. CASE findGroupStorageSource
    <3>1. mounter.pc = "source" /\ MounterGoes("permission")
      BY <2>4 DEF findGroupStorageSource, FailDispatch
    <3>2. SamePlan /\ mounter'.pc = "permission"
      BY <3>1, GoingMounter DEF MountPcs
    <3> QED
      BY <1>0, <3>1, <3>2 DEF SamePlan, MounterKnows, Backed, Scratched
  <2>5. CASE resolveStorageMountPlan
    <3>1. /\ mounter.pc = "permission" /\ mounter.phase = "mount"
          /\ mounter' = [mounter EXCEPT !.pc = "share", !.mount = mounter.group]
      BY <2>5 DEF resolveStorageMountPlan, FailDispatch
    <3>2. /\ mounter' \in MounterStates /\ mounter'.job = mounter.job /\ mounter'.mount = mounter.group
          /\ mounter'.phase = mounter.phase /\ mounter'.pc = "share" /\ mounter'.group = mounter.group
          /\ mounter'.mode = mounter.mode /\ mounter'.stage = mounter.stage
          /\ mounter'.adopted = mounter.adopted
      BY <3>1 DEF MountTypes, MounterStates, MountPcs
    <3> QED
      BY <3>1, <3>2 DEF MounterKnows
  <2>6. CASE resolveStorageDataPlaneStageIn
    <3>1. /\ mounter.pc = "permission" /\ mounter.phase = "stage"
          /\ \E g \in {NoGroup, mounter.group} :
               mounter' = [mounter EXCEPT !.pc = "scratch", !.stage = g]
      BY <2>6 DEF resolveStorageDataPlaneStageIn, FailDispatch
    <3>2. /\ mounter' \in MounterStates /\ mounter'.job = mounter.job /\ mounter'.mount = mounter.mount
          /\ mounter'.phase = mounter.phase /\ mounter'.pc = "scratch" /\ mounter'.group = mounter.group
          /\ mounter'.mode = mounter.mode /\ mounter'.stage \in {NoGroup, mounter.group}
          /\ mounter'.adopted = mounter.adopted
      BY <3>1, ZenonT(30) DEF MountTypes, MounterStates, MountPcs, MountGroups
    <3> QED
      BY <1>0, <3>1, <3>2 DEF MounterKnows, Backed, Scratched
  <2> QED
    BY <2>1, <2>2, <2>3, <2>4, <2>5, <2>6
<1>2. MountTypes'
  BY <1>0, <1>1 DEF MountTypes, ClusterTypes
<1> QED
  BY <1>1, <1>2

\* Once the job has a scratch claim, the plan goes on to the share or the pods.
LEMMA ScratchedKeepsMounts ==
    ASSUME MountInv, mounter.pc \in {"scratch", "make"}, SamePlan, mounter'.pc = AfterScratch,
           MounterLeaves, ClusterTypes', Grows, Scratched'
    PROVE  MountInv'
<1> USE DEF MountInv
<1>1. MountTypes'
  BY DEF MountTypes, SamePlan, MounterLeaves, storageRows
<1>2. /\ mounter.phase = "stage" /\ mounter.job \in MountJobs /\ mounter.mode \in AccessModes
      /\ mounter.stage # NoGroup => mounter.stage = mounter.group /\ mounter.group \in VolumeGroups
      /\ mounter'.pc = IF mounter.stage = NoGroup THEN "create" ELSE "share"
  BY DEF MounterKnows, AfterScratch
<1>3. mounter.mount = NoGroup \/ Backed(mounter.mount)'
  <2>1. mounter.mount = NoGroup \/ (mounter.mount \in VolumeGroups /\ Backed(mounter.mount))
    BY <1>2 DEF MounterKnows, MountTypes, MounterStates, MountGroups
  <2> QED
    BY <2>1, StaysMade DEF SamePlan
<1>4. MounterKnows'
  BY <1>2, <1>3 DEF MounterKnows, SamePlan
<1> QED
  BY <1>1, <1>4

\* EnsurePVC finds a scratch claim of the mode that was planned, or none.
LEMMA ScratchKeepsMounts == ASSUME MountInv, EnsurePVC PROVE MountInv'
<1> USE DEF MountInv
<1>0. /\ mounter.pc = "scratch" /\ NoCluster /\ MounterLeaves
      /\ UNCHANGED <<sharePV, shareClaim, scratchClaim>>
      /\ UNCHANGED <<driver, profile, binding>>
      /\ ClusterTypes' /\ Grows
  BY DEF EnsurePVC, NoCluster, MounterLeaves, storageRows, Grows, MountTypes, ClusterTypes
<1>1. CASE mounter' = MounterIdle
  BY <1>0, <1>1, EndNoCluster
<1>2. CASE scratchClaim[mounter.job] = mounter.mode /\ MounterGoes(AfterScratch)
  <2>1. SamePlan /\ mounter'.pc = AfterScratch
    BY <1>2, GoingMounter DEF MountPcs, AfterScratch
  <2>2. mounter.mode # ""
    BY <1>0 DEF MounterKnows, AccessModes
  <2>3. Scratched'
    BY <1>0, <1>2, <2>1, <2>2 DEF Scratched, SamePlan
  <2> QED
    BY <1>0, <2>1, <2>3, ScratchedKeepsMounts
<1>3. CASE MounterGoes("make")
  <2>1. SamePlan /\ mounter'.pc = "make"
    BY <1>3, GoingMounter DEF MountPcs
  <2>2. MountTypes'
    BY <1>0, <2>1 DEF MountTypes, SamePlan
  <2>3. mounter.mount = NoGroup \/ Backed(mounter.mount)'
    <3>1. mounter.mount = NoGroup \/ (mounter.mount \in VolumeGroups /\ Backed(mounter.mount))
      BY <1>0 DEF MounterKnows, MountTypes, MounterStates, MountGroups
    <3> QED
      BY <1>0, <2>1, <3>1, StaysMade DEF SamePlan
  <2>4. MounterKnows'
    BY <1>0, <2>1, <2>3 DEF MounterKnows, SamePlan
  <2> QED
    BY <2>2, <2>4
<1> QED
  BY <1>1, <1>2, <1>3 DEF EnsurePVC, handleDispatchCreateError

\* The scratch claim that is made, by this dispatcher or before it could.
LEMMA MadeScratchTypes ==
    ASSUME MountInv, mounter.pc = "make", scratchClaim' = MadeScratch, UNCHANGED <<sharePV, shareClaim>>
    PROVE  /\ ClusterTypes' /\ Grows
           /\ scratchClaim'[mounter.job] # ""
           /\ scratchClaim[mounter.job] = "" => scratchClaim'[mounter.job] = mounter.mode
<1>1. mounter.job \in MountJobs /\ mounter.mode \in AccessModes /\ mounter.mode # ""
  BY DEF MountInv, MounterKnows, AccessModes
<1>2. scratchClaim \in [MountJobs -> AccessModes \cup {""}]
  BY DEF MountInv, MountTypes, ClusterTypes
<1>3. /\ scratchClaim' \in [MountJobs -> AccessModes \cup {""}]
      /\ \A j \in MountJobs : scratchClaim[j] # "" => scratchClaim'[j] = scratchClaim[j]
      /\ scratchClaim[mounter.job] = "" => scratchClaim'[mounter.job] = mounter.mode
  BY <1>1, <1>2 DEF MadeScratch
<1> QED
  BY <1>1, <1>3 DEF Grows, MountInv, MountTypes, ClusterTypes

LEMMA MakeKeepsMounts == ASSUME MountInv, createPVC PROVE MountInv'
<1> USE DEF MountInv
<1>1. /\ mounter.pc = "make" /\ scratchClaim' = MadeScratch /\ MounterLeaves
      /\ UNCHANGED <<sharePV, shareClaim>>
      /\ MounterMakes(AfterScratch, "scratch", scratchClaim[mounter.job] # "")
  BY DEF createPVC
<1>2. /\ SamePlan /\ mounter'.pc = AfterScratch
      /\ scratchClaim[mounter.job] # "" => "scratch" \in mounter'.adopted
  BY <1>1, MakingMounter DEF MountPcs, AfterScratch
<1>3. /\ ClusterTypes' /\ Grows /\ scratchClaim'[mounter.job] # ""
      /\ scratchClaim[mounter.job] = "" => scratchClaim'[mounter.job] = mounter.mode
  BY <1>1, MadeScratchTypes
<1>4. Scratched'
  BY <1>2, <1>3 DEF Scratched, SamePlan
<1> QED
  BY <1>1, <1>2, <1>3, <1>4, ScratchedKeepsMounts

\* Once the shared claim is of the group's volume, the plan that asked for it
\* is executed.
LEMMA SharedKeepsMounts ==
    ASSUME MountInv, mounter.pc \in {"share", "claim"}, SamePlan, mounter'.pc = AfterShare,
           MounterLeaves, ClusterTypes', Grows, Backed(mounter.group)'
    PROVE  MountInv'
<1> USE DEF MountInv
<1>1. MountTypes'
  BY DEF MountTypes, SamePlan, MounterLeaves, storageRows
<1>2. /\ mounter'.pc \in {"profiles", "create"}
      /\ mounter.phase # "mount" => mounter'.pc = "create"
      /\ mounter.job \in MountJobs
  BY DEF AfterShare, AfterMount, MounterKnows
<1>3. Scratched => Scratched'
  BY StaysMade DEF SamePlan
<1>4. mounter.mount = NoGroup \/ Backed(mounter.mount)'
  <2>1. CASE mounter.phase = "mount"
    BY <2>1 DEF MounterKnows, Backed, SamePlan
  <2>2. CASE mounter.phase = "stage"
    <3>1. mounter.mount = NoGroup \/ (mounter.mount \in VolumeGroups /\ Backed(mounter.mount))
      BY <2>2 DEF MounterKnows, MountTypes, MounterStates, MountGroups
    <3> QED
      BY <3>1, StaysMade DEF SamePlan
  <2> QED
    BY <2>1, <2>2 DEF MounterKnows
<1>5. mounter.phase = "stage" => Scratched' /\ Backed(mounter.stage)'
  BY <1>3 DEF MounterKnows, Backed, SamePlan
<1>6. MounterKnows'
  BY <1>2, <1>4, <1>5 DEF MounterKnows, SamePlan
<1> QED
  BY <1>1, <1>6

\* A share over a claim that is there: the claim is of the group's volume.
LEMMA ExistingKeepsMounts == ASSUME MountInv, MountExisting PROVE MountInv'
<1> USE DEF MountInv
<1>0. /\ mounter.pc = "share" /\ shareClaim # "" /\ NoCluster /\ MounterLeaves
      /\ UNCHANGED <<sharePV, shareClaim, scratchClaim>>
      /\ ClusterTypes' /\ Grows
  BY DEF MountExisting, NoCluster, Grows, MountTypes, ClusterTypes
<1>1. CASE mounter' = MounterIdle
  BY <1>0, <1>1, EndNoCluster
<1>2. CASE MounterGoes(AfterShare) /\ sharePV[shareClaim] = mounter.group
  <2>1. SamePlan /\ mounter'.pc = AfterShare
    BY <1>2, GoingMounter DEF AfterShare, AfterMount, MountPcs
  <2>2. Backed(mounter.group)'
    BY <1>0, <1>2, <2>1 DEF Backed, SamePlan
  <2> QED
    BY <1>0, <2>1, <2>2, SharedKeepsMounts
<1> QED
  BY <1>1, <1>2 DEF MountExisting, handleDispatchCreateError, ensureExistingJuiceFSTarget,
                    ensureExistingLonghornTarget, longhornTargetPVHealthy, UpdatePersistentVolume

\* A share without a claim, on its way to the PersistentVolume and from there
\* to the claim.
LEMMA SharingKeepsMounts ==
    ASSUME MountInv, SamePlan, MounterLeaves, ClusterTypes', Grows,
           \/ mounter.pc = "share" /\ mounter'.pc = "volume"
           \/ /\ mounter.pc = "volume" /\ mounter'.pc = "claim"
              /\ \/ sharePV'[ShareName(mounter.group)] = mounter.group
                 \/ "share" \in mounter'.adopted
    PROVE  MountInv'
<1> USE DEF MountInv
<1>1. MountTypes'
  BY DEF MountTypes, SamePlan, MounterLeaves, storageRows
<1>2. mounter.job \in MountJobs /\ mounter.group \in VolumeGroups
  BY DEF MounterKnows
<1>3. Scratched => Scratched'
  BY StaysMade DEF SamePlan
<1>4. mounter.phase = "stage" => mounter.mount = NoGroup \/ Backed(mounter.mount)'
  <2>1. mounter.phase = "stage" =>
          mounter.mount = NoGroup \/ (mounter.mount \in VolumeGroups /\ Backed(mounter.mount))
    BY DEF MounterKnows, MountTypes, MounterStates, MountGroups
  <2> QED
    BY <2>1, StaysMade DEF SamePlan
<1>5. ShareName(mounter.group)' = ShareName(mounter.group)
  BY DEF ShareName, SamePlan, MounterLeaves
<1>6. \/ mounter.phase = "mount" /\ mounter.mount = mounter.group
      \/ mounter.phase = "stage" /\ mounter.stage = mounter.group /\ Scratched'
  BY <1>3 DEF MounterKnows
<1>7. mounter'.pc = "claim" =>
        sharePV'[ShareName(mounter.group)'] = mounter'.group \/ "share" \in mounter'.adopted
  BY <1>5 DEF SamePlan
<1>8. MounterKnows'
  BY <1>2, <1>4, <1>6, <1>7 DEF MounterKnows, SamePlan
<1> QED
  BY <1>1, <1>8

LEMMA LookKeepsMounts == ASSUME MountInv, EnsurePVCMounted PROVE MountInv'
<1> USE DEF MountInv
<1>0. /\ mounter.pc = "share" /\ NoCluster /\ MounterLeaves
      /\ ClusterTypes' /\ Grows
  BY DEF EnsurePVCMounted, NoCluster, Grows, MountTypes, ClusterTypes
<1>1. CASE mounter' = MounterIdle
  BY <1>0, <1>1, EndNoCluster
<1>2. CASE MounterGoes("volume")
  <2>1. SamePlan /\ mounter'.pc = "volume"
    BY <1>2, GoingMounter DEF MountPcs
  <2> QED
    BY <1>0, <2>1, SharingKeepsMounts
<1> QED
  BY <1>1, <1>2 DEF EnsurePVCMounted, handleDispatchCreateError

\* The PersistentVolume that is made, by this dispatcher or before it could.
LEMMA MadeShareTypes ==
    ASSUME MountInv, mounter.pc = "volume", sharePV' = MadeShare, UNCHANGED <<shareClaim, scratchClaim>>
    PROVE  /\ ClusterTypes' /\ Grows
           /\ sharePV[ShareName(mounter.group)] = NoGroup =>
                sharePV'[ShareName(mounter.group)] = mounter.group
<1> DEFINE n == ShareName(mounter.group)
<1>1. n \in ShareNames /\ mounter.group \in MountGroups
  BY ShareNameType DEF MountInv, MountTypes, MounterStates
<1>2. sharePV \in [ShareNames -> MountGroups]
  BY DEF MountInv, MountTypes, ClusterTypes
<1>3. sharePV' = [sharePV EXCEPT ![n] = IF sharePV[n] = NoGroup THEN mounter.group ELSE sharePV[n]]
  BY <1>1, <1>2 DEF MadeShare
<1> HIDE DEF n
<1>4. /\ sharePV' \in [ShareNames -> MountGroups]
      /\ \A v \in ShareNames : sharePV[v] # NoGroup => sharePV'[v] = sharePV[v]
      /\ sharePV[n] = NoGroup => sharePV'[n] = mounter.group
  BY <1>1, <1>2, <1>3
<1> QED
  BY <1>4 DEF Grows, MountInv, MountTypes, ClusterTypes, n

LEMMA VolumeKeepsMounts == ASSUME MountInv, createSharePV PROVE MountInv'
<1> USE DEF MountInv
<1>1. /\ mounter.pc = "volume" /\ sharePV' = MadeShare /\ MounterLeaves
      /\ UNCHANGED <<shareClaim, scratchClaim>>
      /\ MounterMakes("claim", "share", sharePV[ShareName(mounter.group)] # NoGroup)
  BY DEF createSharePV
<1>2. /\ SamePlan /\ mounter'.pc = "claim"
      /\ sharePV[ShareName(mounter.group)] # NoGroup => "share" \in mounter'.adopted
  BY <1>1, MakingMounter DEF MountPcs
<1>3. /\ ClusterTypes' /\ Grows
      /\ sharePV[ShareName(mounter.group)] = NoGroup =>
           sharePV'[ShareName(mounter.group)] = mounter.group
  BY <1>1, MadeShareTypes
<1> QED
  BY <1>1, <1>2, <1>3, SharingKeepsMounts

\* The claim that is made, by this dispatcher or before it could.
LEMMA MadeClaimTypes ==
    ASSUME MountInv, shareClaim' = MadeClaim, UNCHANGED <<sharePV, scratchClaim>>
    PROVE  ClusterTypes' /\ Grows /\ shareClaim' \in ShareNames
<1>1. shareClaim' \in ShareNames
  BY ShareNameType DEF MadeClaim, MountInv, MountTypes, ClusterTypes
<1> QED
  BY <1>1 DEF MadeClaim, Grows, MountInv, MountTypes, ClusterTypes

LEMMA ClaimKeepsMounts == ASSUME MountInv, createStaticSharePVC PROVE MountInv'
<1> USE DEF MountInv
<1>1. /\ mounter.pc = "claim" /\ shareClaim' = MadeClaim /\ MounterLeaves
      /\ UNCHANGED <<sharePV, scratchClaim>>
      /\ MounterMakes(AfterShare, "share", shareClaim # "")
  BY DEF createStaticSharePVC
<1>2. /\ SamePlan /\ mounter'.pc = AfterShare
      /\ shareClaim # "" => "share" \in mounter'.adopted
  BY <1>1, MakingMounter DEF MountPcs, AfterShare, AfterMount
<1>3. ClusterTypes' /\ Grows /\ shareClaim' \in ShareNames
  BY <1>1, MadeClaimTypes
<1>4. Backed(mounter.group)'
  <2>1. shareClaim' # ""
    BY <1>3 DEF ShareNames
  <2>2. \/ sharePV[ShareName(mounter.group)] = mounter.group
        \/ "share" \in mounter'.adopted
    BY <1>1, <1>2 DEF MounterKnows, SamePlan
  <2>3. shareClaim = "" => shareClaim' = ShareName(mounter.group)
    BY <1>1 DEF MadeClaim
  <2> QED
    BY <1>1, <1>2, <2>1, <2>2, <2>3 DEF Backed, SamePlan
<1> QED
  BY <1>1, <1>2, <1>3, <1>4, SharedKeepsMounts

\* A create that the API server carried out without an answer.
LEMMA LostKeepsMounts == ASSUME MountInv, CreateAnswerLost PROVE MountInv'
<1>1. mounter' = MounterIdle /\ MounterLeaves
  BY DEF CreateAnswerLost, handleDispatchCreateError
<1>2. ClusterTypes'
  BY MadeScratchTypes, MadeShareTypes, MadeClaimTypes DEF CreateAnswerLost
<1> QED
  BY <1>1, <1>2, EndKeepsMounts

\* What the other dispatchers make stands beside what this one has made.
LEMMA OthersKeepMounts == ASSUME MountInv, OtherDispatcher PROVE MountInv'
<1> USE DEF MountInv
<1>0. UNCHANGED <<mounter, driver, profile, binding>>
  BY DEF OtherDispatcher, MounterLeaves, storageRows
<1>1. ClusterTypes' /\ Grows
  <2> USE DEF MountTypes, ClusterTypes, Grows
  <2>1. CASE \E g \in VolumeGroups :
               /\ driver[g] # "other" /\ sharePV[ShareName(g)] = NoGroup
               /\ sharePV' = [sharePV EXCEPT ![ShareName(g)] = g]
               /\ UNCHANGED <<shareClaim, scratchClaim, mounted>>
    <3> PICK g \in VolumeGroups :
               /\ sharePV[ShareName(g)] = NoGroup
               /\ sharePV' = [sharePV EXCEPT ![ShareName(g)] = g]
               /\ UNCHANGED <<shareClaim, scratchClaim>>
      BY <2>1
    <3> DEFINE n == ShareName(g)
    <3>1. n \in ShareNames /\ g \in MountGroups
      BY ShareNameType DEF MountGroups
    <3> HIDE DEF n
    <3> QED
      BY <3>1 DEF n
  <2>2. CASE \E v \in ShareNames :
               /\ shareClaim = "" /\ sharePV[v] # NoGroup
               /\ shareClaim' = v
               /\ UNCHANGED <<sharePV, scratchClaim, mounted>>
    BY <2>2
  <2>3. CASE \E j \in MountJobs, mode \in AccessModes :
               /\ mounted[j] = "waiting" /\ scratchClaim[j] = ""
               /\ scratchClaim' = [scratchClaim EXCEPT ![j] = mode]
               /\ UNCHANGED <<sharePV, shareClaim, mounted>>
    BY <2>3
  <2>4. CASE NoCluster
    BY <2>4 DEF NoCluster
  <2> QED
    BY <2>1, <2>2, <2>3, <2>4 DEF OtherDispatcher
<1>2. MountTypes'
  BY <1>0, <1>1 DEF MountTypes
<1>3. \A g \in VolumeGroups : Backed(g) => Backed(g)'
  BY <1>0, <1>1, StaysMade
<1>4. mounter.pc # "idle" /\ Scratched => Scratched'
  BY <1>0, <1>1, StaysMade
<1>5. mounter.mount \in MountGroups /\ mounter.stage \in MountGroups
  BY DEF MountTypes, MounterStates
<1>6. /\ mounter.mount = NoGroup \/ Backed(mounter.mount) => mounter.mount = NoGroup \/ Backed(mounter.mount)'
      /\ mounter.stage = NoGroup \/ Backed(mounter.stage) => mounter.stage = NoGroup \/ Backed(mounter.stage)'
  BY <1>0, <1>3, <1>5 DEF MountGroups, Backed
<1>7. mounter.pc = "claim" =>
        sharePV'[ShareName(mounter.group)'] = mounter.group \/ "share" \in mounter.adopted
  <2>1. ShareName(mounter.group)' = ShareName(mounter.group)
    BY <1>0 DEF ShareName
  <2>2. mounter.pc = "claim" => mounter.group # NoGroup
    BY MountAssumption DEF MounterKnows
  <2> QED
    BY <1>1, <2>1, <2>2, ShareNameType DEF MounterKnows, Grows
<1>8. MounterKnows'
  BY <1>0, <1>4, <1>6, <1>7 DEF MounterKnows
<1> QED
  BY <1>2, <1>8

\* Every step keeps the invariant.
LEMMA MountStep == ASSUME MountInv, [MountNext]_mountVars PROVE MountInv'
<1>1. CASE StorageRequest \/ RepairStep
  BY <1>1, RowsKeepMounts
<1>2. CASE \/ \E j \in MountJobs : dispatchJob(j)
           \/ resolveStorageDataPlanePlan \/ findProjectStorageBinding \/ findGroupStorageSource
           \/ resolveStorageMountPlan \/ resolveStorageDataPlaneStageIn
  <2>1. NoCluster /\ MounterLeaves
    BY <1>2 DEF dispatchJob, resolveStorageDataPlanePlan, findProjectStorageBinding,
         findGroupStorageSource, resolveStorageMountPlan, resolveStorageDataPlaneStageIn
  <2>2. CASE mounter' = MounterIdle
    BY <2>1, <2>2, EndNoCluster
  <2>3. CASE mounter' # MounterIdle
    BY <1>2, <2>1, <2>3, PlanKeepsMounts
  <2> QED
    BY <2>2, <2>3
<1>3. CASE PlanUnavailable \/ ClaimUnavailable \/ CreatePods
  BY <1>3, EndNoCluster DEF PlanUnavailable, ClaimUnavailable, CreatePods, handleDispatchCreateError
<1>4. CASE (\E j \in MountJobs : PodsEnd(j)) \/ UNCHANGED mountVars
  <2>1. UNCHANGED <<mounter, sharePV, shareClaim, scratchClaim, driver, profile, binding>>
    BY <1>4 DEF PodsEnd, NoCluster, MounterLeaves, storageRows, mountVars, clusterVars
  <2>2. MountTypes' /\ MounterKnows'
    BY <2>1 DEF MountInv, MountTypes, ClusterTypes, MounterKnows, Backed, Scratched, ShareName
  <2> QED
    BY <2>2 DEF MountInv
<1>5. CASE \/ EnsurePVC \/ createPVC \/ MountExisting \/ EnsurePVCMounted \/ createSharePV
           \/ createStaticSharePVC \/ CreateAnswerLost \/ OtherDispatcher
  BY <1>5, ScratchKeepsMounts, MakeKeepsMounts, ExistingKeepsMounts, LookKeepsMounts,
     VolumeKeepsMounts, ClaimKeepsMounts, LostKeepsMounts, OthersKeepMounts
<1> QED
  BY <1>1, <1>2, <1>3, <1>4, <1>5 DEF MountNext, DispatchStep

\* When the dispatcher creates a job's pods, their shared claim is backed by
\* the group volume each plan named and the scratch claim has the planned
\* access mode, unless a create of this dispatcher was answered with
\* AlreadyExists: for any groups, jobs, wants and drivers, with any number of
\* other dispatchers at work in the namespace, through rebinding, refused
\* plans, lost answers and retries (volume_share.go EnsurePVCMounted,
\* createStaticSharePVC; dispatcher_storage.go).
THEOREM MountsAsPlanned == MountSpec => []MountedAsPlanned
<1>1. MountInit => MountInv
  BY MountStart
<1>2. MountInv /\ [MountNext]_mountVars => MountInv'
  BY MountStep
<1>3. MountInv => MountedAsPlanned
  BY DEF MountInv, MounterKnows, MountedAsPlanned, Backed, Scratched
<1> QED
  BY <1>1, <1>2, <1>3, PTL DEF MountSpec

=============================================================================
