---------------------------- MODULE FastTransfer ----------------------------
(* Fast-stage transfers: storage-service keeps a record per transfer, asks   *)
(* k8s-control-service for a mover Job that runs rsync, and learns of its    *)
(* progress from the callbacks the mover's script posts.  A record is named  *)
(* by project, target namespace and name; the Job only by namespace and      *)
(* name.  Here every transfer has the same target namespace.                 *)
EXTENDS Naturals, FiniteSets

CONSTANTS TransferProjects, TransferNames,
          TransferCallers,  \* concurrent user requests
          MaxTransfers,     \* bound on records created
          Unnamed,          \* a request that leaves the name to the service
          NoTransfer

VARIABLES transfers,  \* <<project, name>> -> fast_transfers row
          movers,     \* name -> mover Job of the target namespace and its script
          treq        \* caller -> the request it is executing

transferVars == <<transfers, movers, treq>>

Transfers == TransferProjects \X TransferNames
TransferStatuses == {"queued", "running", "succeeded", "failed", "cancelled"}
(* not_configured, unavailable and failed are one: unsubmitted.              *)
DispatchStatuses == {"", "submitted", "unsubmitted"}
TransferRecords ==
    [status : TransferStatuses, pct : {0, 1, 100}, dispatch : DispatchStatuses, keyed : BOOLEAN]

ASSUME TransferAssumption ==
    /\ NoTransfer \notin Transfers
    /\ NoTransfer \notin TransferRecords

TransferRequest(pc, id, keyed) == [pc |-> pc, id |-> id, keyed |-> keyed, seen |-> ""]
TransferIdle == TransferRequest("idle", NoTransfer, FALSE)
Mover(owner, pc, attempt) == [owner |-> owner, pc |-> pc, attempt |-> attempt,
                              copied |-> FALSE, broke |-> FALSE, seen |-> NoTransfer]
NoMover == Mover(NoTransfer, "none", 0)

TransferInit ==
    /\ transfers = [t \in Transfers |-> NoTransfer]
    /\ movers = [n \in TransferNames |-> NoMover]
    /\ treq = [c \in TransferCallers |-> TransferIdle]

TransferRows == {t \in Transfers : transfers[t] # NoTransfer}
TransferBecomes(c, r) == treq' = [treq EXCEPT ![c] = r]
TransferDone(c) == treq' = [treq EXCEPT ![c] = TransferIdle]

-----------------------------------------------------------------------------
(* The state machine of a record                                             *)

fastTransferCanTransition(from, to) ==
    \/ from = to /\ to \in {"running", "queued"}
    \/ from = "queued" /\ to \in {"running", "cancelled"}
    \/ from = "running" /\ to \in {"succeeded", "failed", "cancelled"}

(* What a record says when it is created.                                    *)
fastTransferRecord(keyed) == [status |-> "queued", pct |-> 0, dispatch |-> "", keyed |-> keyed]

(* The fields a callback patches: an absent percentage is the one read, and  *)
(* the mover sends no byte counts.                                           *)
fastTransferProgressPatch(seen, post) ==
    [status |-> post.status,
     pct |-> IF post.pct > 0 THEN post.pct
             ELSE IF post.status = "succeeded" THEN 100
             ELSE seen.pct]

(* A callback is refused when the status read may not become the new one, or *)
(* when the percentage would fall.                                           *)
fastTransferProgressAccepted(seen, post) ==
    /\ fastTransferCanTransition(seen.status, post.status) \/ seen.status = post.status
    /\ fastTransferProgressPatch(seen, post).pct >= seen.pct

-----------------------------------------------------------------------------
(* User requests                                                             *)

(* FindFastTransferByIdempotencyKeyHash: the row a request with the key finds; *)
(* the key is the user's own, and each request uses the same one or none.    *)
findFastTransfer(p) == {t \in TransferRows : t[1] = p /\ transfers[t].keyed}

(* startFastTransfer up to the lookup: a key that is taken answers with the   *)
(* row or, for another payload, with a conflict, and ends the request.        *)
startFastTransfer(c, p, name, keyed) ==
    /\ treq[c].pc = "idle"
    /\ keyed => findFastTransfer(p) = {}
    /\ \E n \in TransferNames :
         /\ IF name = Unnamed THEN transfers[<<p, n>>] = NoTransfer ELSE n = name
         /\ TransferBecomes(c, TransferRequest("create", <<p, n>>, keyed))
    /\ UNCHANGED <<transfers, movers>>

(* CreateFastTransferWithEvent: the id is the primary key.                    *)
CreateTransfer(c) ==
    LET t == treq[c].id IN
    /\ treq[c].pc = "create"
    /\ \/ /\ t \in TransferRows
          /\ UNCHANGED transfers
          /\ TransferDone(c)
       \/ /\ t \notin TransferRows
          /\ Cardinality(TransferRows) < MaxTransfers
          /\ transfers' = [transfers EXCEPT ![t] = fastTransferRecord(treq[c].keyed)]
          /\ TransferBecomes(c, TransferRequest("dispatch", t, FALSE))
    /\ UNCHANGED movers

fastTransferMoverJobMatchesAny(n, t) == movers[n].owner # NoTransfer

fastTransferMoverJobMatches(n, t) == movers[n].owner = t

(* What k8s-control-service answers, by what it finds under the Job's name.   *)
EnsureFastTransferMoverJob(n, t) ==
    CASE movers[n].owner = NoTransfer -> "created"
      [] movers[n].owner # NoTransfer /\ fastTransferMoverJobMatches(n, t) -> "already_exists"
      [] OTHER -> "failed"

(* How storage-service records that answer.                                   *)
dispatchStatusOf(action) ==
    IF action \in {"created", "already_exists"} THEN "submitted" ELSE "unsubmitted"

(* dispatchFastTransferMoverJob: no service identity or no route; a request   *)
(* the mover's validation refuses; an answer; or no answer, in which case the *)
(* Job may or may not have been made.                                         *)
dispatchFastTransferMoverJob(c) ==
    LET t == treq[c].id
        n == t[2]
        action == EnsureFastTransferMoverJob(n, t)
        made == [movers EXCEPT ![n] = IF action = "created"
                                        THEN Mover(t, "begin", 1)
                                        ELSE @]
    IN  /\ treq[c].pc = "dispatch"
        /\ \/ /\ TransferBecomes(c, [treq[c] EXCEPT !.pc = "persist", !.seen = "unsubmitted"])
              /\ UNCHANGED movers
           \/ \E answer \in {dispatchStatusOf(action), "unsubmitted"} :
                TransferBecomes(c, [treq[c] EXCEPT !.pc = "persist", !.seen = answer]) /\ movers' = made
        /\ UNCHANGED transfers

(* persistFastTransferDispatch patches the dispatch fields alone.             *)
persistFastTransferDispatch(c) ==
    /\ treq[c].pc = "persist"
    /\ transfers' = [transfers EXCEPT ![treq[c].id].dispatch = treq[c].seen]
    /\ TransferDone(c)
    /\ UNCHANGED movers

(* cancelFastTransfer reads the record, decides, and patches its status.      *)
(* Nothing stops the mover.                                                   *)
cancelFastTransfer(c, t) ==
    /\ treq[c].pc = "idle"
    /\ t \in TransferRows
    /\ fastTransferCanTransition(transfers[t].status, "cancelled")
    /\ TransferBecomes(c, TransferRequest("cancel", t, FALSE))
    /\ UNCHANGED <<transfers, movers>>

CancelTransfer(c) ==
    /\ treq[c].pc = "cancel"
    /\ transfers' = [transfers EXCEPT ![treq[c].id].status = "cancelled"]
    /\ TransferDone(c)
    /\ UNCHANGED movers

(* The process serving a request stops, or its next store call fails.         *)
RequestLost(c) ==
    /\ treq[c].pc # "idle"
    /\ TransferDone(c)
    /\ UNCHANGED <<transfers, movers>>

-----------------------------------------------------------------------------
(* The mover: a Job with one retry whose script posts that it runs, runs      *)
(* rsync, and posts how that ended.  A post that fails is ignored.            *)

(* What the script posts at each point.                                       *)
fastTransferMoverScript(m) ==
    CASE m.pc = "begin" -> [status |-> "running", pct |-> 1]
      [] m.pc = "report" /\ m.copied -> [status |-> "succeeded", pct |-> 100]
      [] m.pc = "report" /\ ~m.copied -> [status |-> "failed", pct |-> 0]

AfterPost(m) ==
    CASE m.pc = "begin" -> [m EXCEPT !.pc = "copy", !.seen = NoTransfer]
      [] m.pc = "report" /\ ~m.copied /\ m.attempt = 1 ->
            [m EXCEPT !.pc = "begin", !.attempt = 2, !.seen = NoTransfer]
      [] OTHER -> [m EXCEPT !.pc = "over", !.seen = NoTransfer]

(* updateFastTransferProgress reads the record ...                            *)
ProgressRead(n) ==
    LET m == movers[n] IN
    /\ m.pc \in {"begin", "report"} /\ m.seen = NoTransfer
    /\ LET row == transfers[m.owner] IN
       movers' = [movers EXCEPT ![n].seen = [status |-> row.status, pct |-> row.pct]]
    /\ UNCHANGED <<transfers, treq>>

(* ... and patches it, or refuses the callback, by what it read.              *)
updateFastTransferProgress(n) ==
    LET m == movers[n]
        post == fastTransferMoverScript(m)
        patch == fastTransferProgressPatch(m.seen, post)
    IN  /\ m.pc \in {"begin", "report"} /\ m.seen # NoTransfer
        /\ transfers' = IF fastTransferProgressAccepted(m.seen, post)
                          THEN [transfers EXCEPT ![m.owner].status = patch.status,
                                                 ![m.owner].pct = patch.pct]
                          ELSE transfers
        /\ movers' = [movers EXCEPT ![n] = AfterPost(m)]
        /\ UNCHANGED treq

(* The callback fails: no callback address was set, the service is away, or   *)
(* the handler stops before it writes.                                        *)
ProgressLost(n) ==
    /\ movers[n].pc \in {"begin", "report"}
    /\ movers' = [movers EXCEPT ![n] = AfterPost(@)]
    /\ UNCHANGED <<transfers, treq>>

Rsync(n) ==
    /\ movers[n].pc = "copy"
    /\ \E ok \in BOOLEAN :
         movers' = [movers EXCEPT ![n].pc = "report", ![n].copied = ok, ![n].broke = @ \/ ~ok]
    /\ UNCHANGED <<transfers, treq>>

-----------------------------------------------------------------------------

TransferRequestNext(c) ==
    \/ \E p \in TransferProjects, name \in TransferNames \cup {Unnamed}, keyed \in BOOLEAN :
         startFastTransfer(c, p, name, keyed)
    \/ \E t \in Transfers : cancelFastTransfer(c, t)
    \/ CreateTransfer(c) \/ dispatchFastTransferMoverJob(c) \/ persistFastTransferDispatch(c)
    \/ CancelTransfer(c) \/ RequestLost(c)

MoverNext(n) == ProgressRead(n) \/ updateFastTransferProgress(n) \/ ProgressLost(n) \/ Rsync(n)

TransferNext ==
    \/ \E c \in TransferCallers : TransferRequestNext(c)
    \/ \E n \in TransferNames : MoverNext(n)

TransferSpec == TransferInit /\ [][TransferNext]_transferVars

TransferTypeOK ==
    /\ transfers \in [Transfers -> {NoTransfer} \cup TransferRecords]
    /\ \A n \in TransferNames :
         /\ movers[n].owner \in Transfers \cup {NoTransfer}
         /\ movers[n].pc \in {"none", "begin", "copy", "report", "over"}
         /\ movers[n].attempt \in 0 .. 2
    /\ \A c \in TransferCallers : treq[c].pc \in {"idle", "create", "dispatch", "persist", "cancel"}

(* What a transfer's record says is borne out by the cluster, whatever        *)
(* callbacks are lost or refused and whatever requests race: dispatched means *)
(* that its own mover Job exists (not another project's Job of that name),    *)
(* running that the Job started, failed that an rsync failed, and succeeded   *)
(* or 100% that an rsync of its own ended without error                       *)
(* (fast_transfer_state.go, fast_transfer_dispatch.go, fast_transfer_mover.go). *)
TransferHonest ==
    \A t \in TransferRows :
        LET row == transfers[t]
            m == movers[t[2]]
        IN  /\ row.dispatch = "submitted" => m.owner = t
            /\ row.status \in {"running", "failed", "succeeded"} => m.owner = t /\ m.pc # "none"
            /\ row.status = "failed" => m.broke
            /\ row.status = "succeeded" \/ row.pct = 100 => m.owner = t /\ m.copied
=============================================================================
