----------------------------- MODULE EventRelay -----------------------------
(***************************************************************************)
(* The maintenance lease and the task it guards that every process has:    *)
(* the relay of the Postgres outbox to the Redis stream.                   *)
(*                                                                         *)
(* The lease is a Redis key with a time to live equal to the interval.  A  *)
(* task does not renew it while it works and does not give it up when it   *)
(* ends, so it can expire at any moment and two relays can overlap.        *)
(***************************************************************************)
EXTENDS Naturals, FiniteSets, FiniteSetsExt

CONSTANTS
    Replicas,
    Emitted,        \* the numbers of the events, in the order of the outbox
    MaxAttempts,    \* defaultRelayMaxAttempts
    MaxFailures,    \* bound: calls to Redis and Postgres that fail
    NoReplica

ASSUME RelayAssumption ==
    /\ Emitted \subseteq Nat
    /\ MaxAttempts \in Nat \ {0}

VARIABLES
    lease,      \* who the lease key names, or NoReplica
    relay,      \* where each replica is in runMaintenance and RelayPending
    outbox,     \* event -> relay status and attempts
    stream,     \* event -> copies in the Redis stream
    failed,     \* history: event -> publications that failed
    failures    \* calls that failed

relayVars == <<lease, relay, outbox, stream, failed, failures>>

RelayIdle == [pc |-> "idle", todo |-> [e \in {} |-> 0]]
Undelivered == {"pending", "retry"}

RelayInit ==
    /\ lease = NoReplica
    /\ relay = [r \in Replicas |-> RelayIdle]
    /\ outbox = [e \in Emitted |-> [status |-> "none", attempts |-> 0]]
    /\ stream = [e \in Emitted |-> 0]
    /\ failed = stream
    /\ failures = 0

RelayAt(r, pc) == relay[r].pc = pc
RelayGoto(r, pc) == relay' = [relay EXCEPT ![r].pc = pc]
CallFails == failures < MaxFailures /\ failures' = failures + 1

---------------------------------------------------------------------------
insertOutboxEvent(e) ==
    /\ outbox[e].status = "none"
    /\ \A d \in Emitted : d < e => outbox[d].status # "none"
    /\ outbox' = [outbox EXCEPT ![e].status = "pending"]
    /\ UNCHANGED <<lease, relay, stream, failed, failures>>

\* Acquire: SETNX, and for a key that names this replica GET and PEXPIRE.
\* PEXPIRE succeeds whoever the key names by then.
AcquireNew(r) ==
    /\ RelayAt(r, "idle")
    /\ lease = NoReplica
    /\ lease' = r
    /\ RelayGoto(r, "select")
    /\ UNCHANGED <<outbox, stream, failed, failures>>

AcquireOwn(r) ==
    /\ RelayAt(r, "idle")
    /\ lease = r
    /\ RelayGoto(r, "refresh")
    /\ UNCHANGED <<lease, outbox, stream, failed, failures>>

AcquireRefresh(r) ==
    /\ RelayAt(r, "refresh")
    /\ RelayGoto(r, "select")
    /\ UNCHANGED <<lease, outbox, stream, failed, failures>>

LeaseExpires ==
    /\ lease # NoReplica
    /\ lease' = NoReplica
    /\ UNCHANGED <<relay, outbox, stream, failed, failures>>

---------------------------------------------------------------------------
\* As if a row that failed once were not selected again.
PendingOnly == {e \in Emitted : outbox[e].status = "pending"}

pendingRelayRows == {e \in Emitted : outbox[e].status \in Undelivered}

Select(r) ==
    /\ RelayAt(r, "select")
    /\ relay' = [relay EXCEPT ![r] =
          IF pendingRelayRows = {} THEN RelayIdle
          ELSE [pc |-> "publish", todo |-> [e \in pendingRelayRows |-> outbox[e].attempts]]]
    /\ UNCHANGED <<lease, outbox, stream, failed, failures>>

RelayRow(r) == Min(DOMAIN relay[r].todo)

\* The relay goes on with the next row it selected, or ends.
NextRelayRow(r) ==
    LET rest == DOMAIN relay[r].todo \ {RelayRow(r)} IN
    relay' = [relay EXCEPT ![r] =
        IF rest = {} THEN RelayIdle
        ELSE [pc |-> "publish", todo |-> [e \in rest |-> relay[r].todo[e]]]]

Publish(r) ==
    /\ RelayAt(r, "publish")
    /\ \/ /\ stream' = [stream EXCEPT ![RelayRow(r)] = @ + 1]
          /\ RelayGoto(r, "published")
          /\ UNCHANGED <<failed, failures>>
       \/ /\ CallFails
          /\ failed' = [failed EXCEPT ![RelayRow(r)] = @ + 1]
          /\ RelayGoto(r, "failed")
          /\ UNCHANGED stream
    /\ UNCHANGED <<lease, outbox>>

markOutboxRelayPublished(r) ==
    /\ RelayAt(r, "published")
    /\ outbox' = [outbox EXCEPT ![RelayRow(r)].status = "published"]
    /\ NextRelayRow(r)
    /\ UNCHANGED <<lease, stream, failed, failures>>

\* As if the attempts were counted from one.
MarkFailedEarly(r) ==
    /\ RelayAt(r, "failed")
    /\ LET attempts == relay[r].todo[RelayRow(r)] + 2
       IN outbox' = [outbox EXCEPT ![RelayRow(r)] =
            [status |-> IF attempts >= MaxAttempts THEN "dead_letter" ELSE "retry",
             attempts |-> attempts]]
    /\ NextRelayRow(r)
    /\ UNCHANGED <<lease, stream, failed, failures>>

\* The attempts written are those the relay read when it selected, plus one.
markOutboxRelayFailed(r) ==
    /\ RelayAt(r, "failed")
    /\ LET attempts == relay[r].todo[RelayRow(r)] + 1
       IN outbox' = [outbox EXCEPT ![RelayRow(r)] =
            [status |-> IF attempts >= MaxAttempts THEN "dead_letter" ELSE "retry",
             attempts |-> attempts]]
    /\ NextRelayRow(r)
    /\ UNCHANGED <<lease, stream, failed, failures>>

\* Postgres does not take the mark: the error is remembered, the loop goes on.
MarkError(r) ==
    /\ RelayAt(r, "published") \/ RelayAt(r, "failed")
    /\ CallFails
    /\ NextRelayRow(r)
    /\ UNCHANGED <<lease, outbox, stream, failed>>

---------------------------------------------------------------------------
RelayStep(r) ==
    \/ AcquireNew(r) \/ AcquireOwn(r) \/ AcquireRefresh(r) \/ Select(r) \/ Publish(r)
    \/ markOutboxRelayPublished(r) \/ markOutboxRelayFailed(r) \/ MarkError(r)

RelayNext ==
    \/ \E e \in Emitted : insertOutboxEvent(e)
    \/ \E r \in Replicas : RelayStep(r)
    \/ LeaseExpires

RelaySpec == RelayInit /\ [][RelayNext]_relayVars

---------------------------------------------------------------------------
(* Properties.                                                             *)

RelayTypeOK ==
    /\ lease \in Replicas \cup {NoReplica}
    /\ \A r \in Replicas : DOMAIN relay[r].todo \subseteq Emitted
    /\ \A e \in Emitted : outbox[e].status \in {"none", "published", "dead_letter"} \cup Undelivered
    /\ \A e \in Emitted : outbox[e].attempts <= MaxAttempts

\* relayOutboxRow (events_postgres.go:212-232): a row marked published is in
\* the stream, and a row is given up only after MaxAttempts publications of
\* it failed, although relays overlap and write attempts they read earlier.
RelayHonest ==
    \A e \in Emitted :
        /\ outbox[e].status = "published" => stream[e] > 0
        /\ outbox[e].status = "dead_letter" => failed[e] >= MaxAttempts

\* WithEventRelay (ports.go:137-139), "every process that writes events
\* through the Postgres outbox must relay them": each event reaches the
\* stream, or is left as a dead letter.
Delivered ==
    \A e \in Emitted :
        outbox[e].status = "pending" ~> (stream[e] > 0 \/ outbox[e].status = "dead_letter")

=============================================================================
