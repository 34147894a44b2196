--------------------------- MODULE PlatformProofs ---------------------------
(***************************************************************************)
(* The platform components for any number of replicas, events, clients,    *)
(* records, runners and releases: the outbox relay keeps its word, the     *)
(* record store never hands out an id twice nor lets events and rows       *)
(* disagree, and the migration ledger tells what happened.                 *)
(***************************************************************************)
EXTENDS EventRelay, RecordStore, Migrations, WellFoundedInduction, TLAPS

\* A leaf is tried with Zenon, and where that fails with the SMT solver.
USE Zenon, SMTT(30)

(***************************************************************************)
(* Minima and maxima of sets of numbers.                                   *)
(***************************************************************************)

\* A set of naturals that is not empty has a least member.
LEMMA LeastNat ==
    ASSUME NEW T, T \subseteq Nat, T # {}
    PROVE  \E x \in T : \A y \in T : x =< y
  <1>1. PICK x \in T : \A y \in T : ~ (<<y, x>> \in OpToRel(<, Nat))
    BY WFMin, NatLessThanWellFounded
  <1>2. \A y \in T : <<y, x>> \in Nat \X Nat
    OBVIOUS
  <1>3. \A y \in T : ~(y < x)
    BY <1>1, <1>2 DEF OpToRel
  <1> QED  BY <1>3

\* The row a relay works on is the least one it selected.
LEMMA MinIn ==
    ASSUME NEW T, T \subseteq Nat, T # {}
    PROVE  Min(T) \in T /\ \A y \in T : Min(T) =< y
  BY LeastNat DEF Min

\* A bounded set of naturals that is not empty has a greatest member.
LEMMA MaxIn ==
    ASSUME NEW T, T \subseteq Nat, T # {}, NEW n \in Nat, \A y \in T : y =< n
    PROVE  Max(T) \in T /\ \A y \in T : Max(T) >= y
  <1> DEFINE U == {u \in Nat : \A y \in T : y =< u}
  <1>1. PICK u \in U : \A v \in U : u =< v
    <2>1. U \subseteq Nat /\ n \in U
      OBVIOUS
    <2>2. U # {}
      BY <2>1
    <2> HIDE DEF U
    <2> QED  BY <2>1, <2>2, LeastNat
  <1>2. u \in T
    <2>1. SUFFICES ASSUME u \notin T PROVE FALSE
      OBVIOUS
    <2> PICK t \in T : TRUE
      OBVIOUS
    <2>2. u \in Nat /\ \A y \in T : y \in Nat /\ y =< u /\ y # u
      BY <2>1
    <2>3. u - 1 \in Nat /\ \A y \in T : y =< u - 1
      BY <2>2
    <2>4. u - 1 \in U /\ ~(u =< u - 1)
      BY <2>2, <2>3
    <2> QED  BY <1>1, <2>4
  <1>3. \E x \in T : \A y \in T : x >= y
    BY <1>2
  <1> QED  BY <1>3 DEF Max

-----------------------------------------------------------------------------
(***************************************************************************)
(* The outbox relay.                                                       *)
(***************************************************************************)

RelayTodos == UNION {[S -> Nat] : S \in SUBSET Emitted}

RelayTypes ==
    /\ relay \in [Replicas -> [pc : {"idle", "refresh", "select", "publish", "published", "failed"},
                               todo : RelayTodos]]
    /\ outbox \in [Emitted -> [status : {"none", "published", "dead_letter", "pending", "retry"},
                               attempts : 0..MaxAttempts]]
    /\ stream \in [Emitted -> Nat]
    /\ failed \in [Emitted -> Nat]

\* What a replica holds was read from the outbox some time ago: each of its
\* rows had room for one more attempt, and every attempt it read had failed.
\* While it works on a row, what it is about to write is already true.
RelayHolds(r) ==
    LET l == relay[r] IN
    /\ l.pc \in {"publish", "published", "failed"} => DOMAIN l.todo # {}
    /\ \A e \in DOMAIN l.todo : l.todo[e] <= failed[e] /\ l.todo[e] < MaxAttempts
    /\ l.pc = "published" => stream[RelayRow(r)] > 0
    /\ l.pc = "failed" => l.todo[RelayRow(r)] + 1 <= failed[RelayRow(r)]

\* The attempts of a row were made, and one that is still to be relayed has
\* attempts left.
AttemptsMade ==
    \A e \in Emitted :
        /\ outbox[e].attempts <= failed[e]
        /\ outbox[e].status \in {"none", "pending", "retry"} => outbox[e].attempts < MaxAttempts

RelayInv ==
    /\ RelayTypes
    /\ RelayHonest
    /\ AttemptsMade
    /\ \A r \in Replicas : RelayHolds(r)
\* The rows a replica holds are rows of the outbox, with the attempts it read.
LEMMA RelayTodoType ==
    ASSUME RelayTypes, NEW r \in Replicas
    PROVE  \E S \in SUBSET Emitted : relay[r].todo \in [S -> Nat]
  <1>1. relay[r].todo \in RelayTodos
    BY DEF RelayTypes
  <1> QED  BY <1>1 DEF RelayTodos

\* Where a replica works on a row, the row is one it selected.
LEMMA RelayRowIn ==
    ASSUME RelayTypes, NEW r \in Replicas, DOMAIN relay[r].todo # {}
    PROVE  RelayRow(r) \in DOMAIN relay[r].todo /\ RelayRow(r) \in Emitted
  <1>1. PICK S \in SUBSET Emitted : relay[r].todo \in [S -> Nat]
    BY RelayTodoType
  <1>2. DOMAIN relay[r].todo \subseteq Emitted
    BY <1>1
  <1> QED  BY <1>2, MinIn, RelayAssumption DEF RelayRow

\* What a replica holds stays true while other replicas and the outbox move:
\* copies in the stream and failures only become more.
LEMMA RelayHoldsStays ==
    ASSUME RelayTypes, NEW p \in Replicas, RelayHolds(p), relay'[p] = relay[p],
           failed' \in [Emitted -> Nat], stream' \in [Emitted -> Nat],
           \A e \in Emitted : failed'[e] >= failed[e] /\ stream'[e] >= stream[e]
    PROVE  RelayHolds(p)'
  <1>1. PICK S \in SUBSET Emitted : relay[p].todo \in [S -> Nat]
    BY RelayTodoType
  <1>2. RelayRow(p)' = RelayRow(p)
    BY DEF RelayRow
  <1>3. relay[p].pc \in {"published", "failed"} =>
            RelayRow(p) \in DOMAIN relay[p].todo /\ RelayRow(p) \in Emitted
    BY RelayRowIn DEF RelayHolds
  <1>4. \A e \in DOMAIN relay[p].todo : e \in Emitted /\ relay[p].todo[e] \in Nat
    BY <1>1
  <1> QED  BY <1>2, <1>3, <1>4 DEF RelayHolds, RelayTypes

\* Moving the program counter of a replica.
LEMMA RelayGotoStep ==
    ASSUME RelayTypes, NEW r \in Replicas,
           NEW pc \in {"idle", "refresh", "select", "publish", "published", "failed"},
           RelayGoto(r, pc)
    PROVE  /\ relay' \in [Replicas -> [pc : {"idle", "refresh", "select", "publish", "published", "failed"},
                                       todo : RelayTodos]]
           /\ relay'[r].pc = pc /\ relay'[r].todo = relay[r].todo
           /\ \A p \in Replicas \ {r} : relay'[p] = relay[p]
  BY DEF RelayTypes, RelayGoto

\* Going on with the next row: the replica holds fewer rows, as it read them.
LEMMA NextRelayRowStep ==
    ASSUME RelayTypes, NEW r \in Replicas, NextRelayRow(r)
    PROVE  /\ relay' \in [Replicas -> [pc : {"idle", "refresh", "select", "publish", "published", "failed"},
                                       todo : RelayTodos]]
           /\ relay'[r].pc \in {"idle", "publish"}
           /\ relay'[r].pc = "publish" => DOMAIN relay'[r].todo # {}
           /\ \A e \in DOMAIN relay'[r].todo : /\ e \in DOMAIN relay[r].todo
                                               /\ relay'[r].todo[e] = relay[r].todo[e]
           /\ \A p \in Replicas \ {r} : relay'[p] = relay[p]
  <1> DEFINE rest == DOMAIN relay[r].todo \ {RelayRow(r)}
             kept == [e \in rest |-> relay[r].todo[e]]
             next == IF rest = {} THEN RelayIdle ELSE [pc |-> "publish", todo |-> kept]
  <1>1. PICK S \in SUBSET Emitted : relay[r].todo \in [S -> Nat]
    BY RelayTodoType
  <1>2. relay' = [relay EXCEPT ![r] = next]
    BY DEF NextRelayRow
  <1>3. kept \in RelayTodos
    <2>1. rest \in SUBSET Emitted /\ kept \in [rest -> Nat]
      BY <1>1
    <2> QED  BY <2>1 DEF RelayTodos
  <1>4. [e \in {} |-> 0] \in RelayTodos
    <2>1. {} \in SUBSET Emitted /\ [e \in {} |-> 0] \in [{} -> Nat]
      OBVIOUS
    <2> QED  BY <2>1 DEF RelayTodos
  <1>5. next \in [pc : {"idle", "refresh", "select", "publish", "published", "failed"}, todo : RelayTodos]
    BY <1>3, <1>4 DEF RelayIdle
  <1>6. /\ next.pc \in {"idle", "publish"}
        /\ next.pc = "publish" => DOMAIN next.todo # {}
        /\ \A e \in DOMAIN next.todo : e \in DOMAIN relay[r].todo /\ next.todo[e] = relay[r].todo[e]
    BY DEF RelayIdle
  <1> HIDE DEF next
  <1>7. /\ relay' \in [Replicas -> [pc : {"idle", "refresh", "select", "publish", "published", "failed"},
                                    todo : RelayTodos]]
        /\ relay'[r] = next
        /\ \A p \in Replicas \ {r} : relay'[p] = relay[p]
    BY <1>2, <1>5 DEF RelayTypes
  <1> QED  BY <1>6, <1>7

\* Nothing has been emitted.
LEMMA RelayInitInv == RelayInit => RelayInv
  <1> SUFFICES ASSUME RelayInit PROVE RelayInv
    OBVIOUS
  <1>1. [e \in {} |-> 0] \in RelayTodos
    <2>1. {} \in SUBSET Emitted /\ [e \in {} |-> 0] \in [{} -> Nat]
      OBVIOUS
    <2> QED  BY <2>1 DEF RelayTodos
  <1>2. RelayTypes
    BY <1>1, RelayAssumption DEF RelayInit, RelayTypes, RelayIdle
  <1>3. RelayHonest /\ AttemptsMade
    BY RelayAssumption DEF RelayInit, RelayHonest, AttemptsMade
  <1>4. \A r \in Replicas : RelayHolds(r)
    BY DEF RelayInit, RelayHolds, RelayIdle
  <1> QED  BY <1>2, <1>3, <1>4 DEF RelayInv
\* Acquiring the lease moves only a replica that holds nothing it will mark.
LEMMA AcquireInv ==
    ASSUME RelayInv, NEW r \in Replicas, AcquireNew(r) \/ AcquireOwn(r) \/ AcquireRefresh(r)
    PROVE  RelayInv'
  <1>1. RelayTypes /\ RelayHolds(r) /\ UNCHANGED <<outbox, stream, failed>>
    BY DEF RelayInv, AcquireNew, AcquireOwn, AcquireRefresh
  <1>2. PICK pc \in {"refresh", "select"} : RelayGoto(r, pc)
    BY DEF AcquireNew, AcquireOwn, AcquireRefresh
  <1>3. RelayTypes'
    BY <1>1, <1>2, RelayGotoStep DEF RelayTypes
  <1>4. RelayHolds(r)'
    <2>1. relay'[r].pc = pc /\ relay'[r].todo = relay[r].todo
      BY <1>1, <1>2, RelayGotoStep
    <2> QED  BY <1>1, <1>2, <2>1 DEF RelayHolds
  <1>5. \A p \in Replicas \ {r} : RelayHolds(p)'
    BY <1>1, <1>2, RelayGotoStep, RelayHoldsStays DEF RelayInv, RelayTypes
  <1> QED  BY <1>1, <1>3, <1>4, <1>5 DEF RelayInv, RelayHonest, AttemptsMade

\* The rows a replica selects have the attempts the outbox has.
LEMMA SelectInv ==
    ASSUME RelayInv, NEW r \in Replicas, Select(r)
    PROVE  RelayInv'
  <1> DEFINE read == [e \in pendingRelayRows |-> outbox[e].attempts]
             next == IF pendingRelayRows = {} THEN RelayIdle ELSE [pc |-> "publish", todo |-> read]
  <1>1. RelayTypes /\ AttemptsMade /\ UNCHANGED <<outbox, stream, failed>>
        /\ relay' = [relay EXCEPT ![r] = next]
    BY DEF RelayInv, Select
  <1>2. read \in RelayTodos /\ [e \in {} |-> 0] \in RelayTodos
    <2>1. \A e \in Emitted : outbox[e].attempts \in Nat
      BY <1>1, RelayAssumption DEF RelayTypes
    <2>2. pendingRelayRows \in SUBSET Emitted
      BY DEF pendingRelayRows
    <2>3. read \in [pendingRelayRows -> Nat]
      BY <2>1, <2>2
    <2>4. {} \in SUBSET Emitted /\ [e \in {} |-> 0] \in [{} -> Nat]
      OBVIOUS
    <2> QED  BY <2>2, <2>3, <2>4 DEF RelayTodos
  <1>3. next \in [pc : {"idle", "refresh", "select", "publish", "published", "failed"}, todo : RelayTodos]
    BY <1>2 DEF RelayIdle
  <1>4. /\ next.pc \in {"idle", "publish"}
        /\ next.pc = "publish" => DOMAIN next.todo # {}
        /\ \A e \in DOMAIN next.todo : next.todo[e] <= failed[e] /\ next.todo[e] < MaxAttempts
    BY <1>1 DEF RelayIdle, pendingRelayRows, Undelivered, AttemptsMade
  <1> HIDE DEF next
  <1>5. RelayTypes' /\ relay'[r] = next /\ \A p \in Replicas \ {r} : relay'[p] = relay[p]
    BY <1>1, <1>3 DEF RelayTypes
  <1>6. RelayHolds(r)'
    BY <1>1, <1>4, <1>5 DEF RelayHolds
  <1>7. \A p \in Replicas \ {r} : RelayHolds(p)'
    BY <1>1, <1>5, RelayHoldsStays DEF RelayInv, RelayTypes
  <1> QED  BY <1>1, <1>5, <1>6, <1>7 DEF RelayInv, RelayHonest, AttemptsMade

\* A publication adds a copy to the stream, or a failure.
LEMMA PublishInv ==
    ASSUME RelayInv, NEW r \in Replicas, Publish(r)
    PROVE  RelayInv'
  <1>1. /\ RelayTypes /\ RelayHonest /\ AttemptsMade /\ RelayHolds(r)
        /\ relay[r].pc = "publish" /\ outbox' = outbox
    BY DEF RelayInv, Publish, RelayAt
  <1>2. RelayRow(r) \in DOMAIN relay[r].todo /\ RelayRow(r) \in Emitted
    BY <1>1, RelayRowIn DEF RelayHolds
  <1>3. PICK pc \in {"published", "failed"} :
            /\ RelayGoto(r, pc)
            /\ \/ /\ pc = "published"
                  /\ stream' = [stream EXCEPT ![RelayRow(r)] = @ + 1] /\ failed' = failed
               \/ /\ pc = "failed"
                  /\ failed' = [failed EXCEPT ![RelayRow(r)] = @ + 1] /\ stream' = stream
    BY DEF Publish
  <1>4. /\ stream' \in [Emitted -> Nat] /\ failed' \in [Emitted -> Nat]
        /\ \A e \in Emitted : failed'[e] >= failed[e] /\ stream'[e] >= stream[e]
        /\ pc = "published" => stream'[RelayRow(r)] > 0
        /\ pc = "failed" => failed'[RelayRow(r)] = failed[RelayRow(r)] + 1
    <2>1. stream \in [Emitted -> Nat] /\ failed \in [Emitted -> Nat]
      BY <1>1 DEF RelayTypes
    <2>2. CASE pc = "published"
      BY <1>2, <1>3, <2>1, <2>2
    <2>3. CASE pc = "failed"
      BY <1>2, <1>3, <2>1, <2>3
    <2> QED  BY <2>2, <2>3
  <1>5. /\ RelayTypes' /\ relay'[r].pc = pc /\ relay'[r].todo = relay[r].todo
        /\ \A p \in Replicas \ {r} : relay'[p] = relay[p]
    BY <1>1, <1>3, <1>4, RelayGotoStep DEF RelayTypes
  <1>6. RelayHolds(r)'
    <2>1. RelayRow(r)' = RelayRow(r)
      BY <1>5 DEF RelayRow
    <2>2. PICK S \in SUBSET Emitted : relay[r].todo \in [S -> Nat]
      BY <1>1, RelayTodoType
    <2>3. \A e \in DOMAIN relay[r].todo : /\ relay[r].todo[e] \in Nat /\ failed[e] \in Nat
                                          /\ failed'[e] \in Nat /\ failed'[e] >= failed[e]
      BY <1>1, <1>4, <2>2 DEF RelayTypes
    <2> QED  BY <1>1, <1>2, <1>4, <1>5, <2>1, <2>3 DEF RelayHolds
  <1>7. \A p \in Replicas \ {r} : RelayHolds(p)'
    BY <1>1, <1>4, <1>5, RelayHoldsStays DEF RelayInv
  <1>8. RelayHonest' /\ AttemptsMade'
    BY <1>1, <1>4, RelayAssumption DEF RelayHonest, AttemptsMade, RelayTypes
  <1> QED  BY <1>5, <1>6, <1>7, <1>8 DEF RelayInv

\* Whatever becomes of the mark, the replica goes on with rows it holds.
LEMMA MarkHolds ==
    ASSUME RelayInv, NEW r \in Replicas, NextRelayRow(r), UNCHANGED <<stream, failed>>
    PROVE  \A p \in Replicas : RelayHolds(p)'
  <1>1. RelayTypes /\ RelayHolds(r)
    BY DEF RelayInv
  <1>2. RelayHolds(r)'
    BY <1>1, NextRelayRowStep DEF RelayHolds
  <1>3. ASSUME NEW p \in Replicas \ {r} PROVE RelayHolds(p)'
    <2>1. relay'[p] = relay[p]
      BY <1>1, NextRelayRowStep
    <2>2. /\ failed' \in [Emitted -> Nat] /\ stream' \in [Emitted -> Nat]
          /\ \A e \in Emitted : failed'[e] >= failed[e] /\ stream'[e] >= stream[e]
      BY <1>1 DEF RelayTypes
    <2> QED  BY <1>1, <2>1, <2>2, RelayHoldsStays DEF RelayInv
  <1> QED  BY <1>2, <1>3
\* A row is marked published once it is in the stream.
LEMMA MarkPublishedInv ==
    ASSUME RelayInv, NEW r \in Replicas, markOutboxRelayPublished(r)
    PROVE  RelayInv'
  <1>1. /\ RelayTypes /\ RelayHonest /\ AttemptsMade /\ RelayHolds(r)
        /\ relay[r].pc = "published" /\ NextRelayRow(r) /\ UNCHANGED <<stream, failed>>
        /\ outbox' = [outbox EXCEPT ![RelayRow(r)].status = "published"]
    BY DEF RelayInv, markOutboxRelayPublished, RelayAt
  <1>2. RelayRow(r) \in Emitted /\ stream[RelayRow(r)] > 0
    BY <1>1, RelayRowIn DEF RelayHolds
  <1>3. /\ outbox' \in [Emitted -> [status : {"none", "published", "dead_letter", "pending", "retry"},
                                    attempts : 0..MaxAttempts]]
        /\ \A e \in Emitted \ {RelayRow(r)} : outbox'[e] = outbox[e]
        /\ outbox'[RelayRow(r)].status = "published"
        /\ outbox'[RelayRow(r)].attempts = outbox[RelayRow(r)].attempts
    BY <1>1, <1>2 DEF RelayTypes
  <1>4. RelayTypes'
    BY <1>1, <1>3, NextRelayRowStep DEF RelayTypes
  <1>5. RelayHonest' /\ AttemptsMade'
    BY <1>1, <1>2, <1>3 DEF RelayHonest, AttemptsMade
  <1> QED  BY <1>1, <1>4, <1>5, MarkHolds DEF RelayInv

\* A row gets one attempt more than the replica read; that many have failed.
LEMMA MarkFailedInv ==
    ASSUME RelayInv, NEW r \in Replicas, markOutboxRelayFailed(r)
    PROVE  RelayInv'
  <1> DEFINE n == relay[r].todo[RelayRow(r)] + 1
             row == [status |-> IF n >= MaxAttempts THEN "dead_letter" ELSE "retry", attempts |-> n]
  <1>1. /\ RelayTypes /\ RelayHonest /\ AttemptsMade /\ RelayHolds(r)
        /\ relay[r].pc = "failed" /\ NextRelayRow(r) /\ UNCHANGED <<stream, failed>>
        /\ outbox' = [outbox EXCEPT ![RelayRow(r)] = row]
    BY DEF RelayInv, markOutboxRelayFailed, RelayAt
  <1>2. RelayRow(r) \in DOMAIN relay[r].todo /\ RelayRow(r) \in Emitted
    BY <1>1, RelayRowIn DEF RelayHolds
  <1>3. relay[r].todo[RelayRow(r)] \in Nat
    BY <1>1, <1>2, RelayTodoType
  <1>4. n <= failed[RelayRow(r)] /\ n \in 0..MaxAttempts
    BY <1>1, <1>2, <1>3, RelayAssumption DEF RelayHolds
  <1>5. row \in [status : {"none", "published", "dead_letter", "pending", "retry"}, attempts : 0..MaxAttempts]
    BY <1>4
  <1>6. /\ row.attempts = n /\ row.status \in {"dead_letter", "retry"}
        /\ row.status = "dead_letter" => n >= MaxAttempts
        /\ row.status = "retry" => n < MaxAttempts
    BY <1>3, RelayAssumption
  <1> HIDE DEF row, n
  <1>7. /\ outbox' \in [Emitted -> [status : {"none", "published", "dead_letter", "pending", "retry"},
                                    attempts : 0..MaxAttempts]]
        /\ \A e \in Emitted \ {RelayRow(r)} : outbox'[e] = outbox[e]
        /\ outbox'[RelayRow(r)] = row
    BY <1>1, <1>2, <1>5 DEF RelayTypes
  <1>8. RelayTypes'
    BY <1>1, <1>7, NextRelayRowStep DEF RelayTypes
  <1>9. RelayHonest'
    <2>0. failed[RelayRow(r)] \in Nat
      BY <1>1, <1>2 DEF RelayTypes
    <2>1. failed[RelayRow(r)] \in Nat /\ n \in Int /\ MaxAttempts \in Int
      BY <1>4, <2>0, RelayAssumption
    <2>2. row.status = "dead_letter" => failed[RelayRow(r)] >= MaxAttempts
      <3> SUFFICES ASSUME row.status = "dead_letter" PROVE failed[RelayRow(r)] >= MaxAttempts
        OBVIOUS
      <3>1. n >= MaxAttempts
        BY <1>6
      <3> QED  BY <1>4, <2>1, <3>1
    <2>3. \A e \in Emitted \ {RelayRow(r)} : outbox'[e] = outbox[e] /\ stream' = stream /\ failed' = failed
      BY <1>1, <1>7
    <2>4. outbox'[RelayRow(r)].status # "published"
      BY <1>6, <1>7
    <2> QED  BY <1>1, <1>7, <2>2, <2>3, <2>4 DEF RelayHonest
  <1>10. AttemptsMade'
    BY <1>1, <1>4, <1>6, <1>7 DEF AttemptsMade
  <1> QED  BY <1>1, <1>8, <1>9, <1>10, MarkHolds DEF RelayInv

\* A mark that fails leaves the row as it was.
LEMMA MarkErrorInv ==
    ASSUME RelayInv, NEW r \in Replicas, MarkError(r)
    PROVE  RelayInv'
  <1>1. RelayTypes /\ NextRelayRow(r) /\ UNCHANGED <<outbox, stream, failed>>
    BY DEF RelayInv, MarkError
  <1>2. RelayTypes'
    BY <1>1, NextRelayRowStep DEF RelayTypes
  <1> QED  BY <1>1, <1>2, MarkHolds DEF RelayInv, RelayHonest, AttemptsMade

\* A new row has its attempts before it.
LEMMA InsertInv ==
    ASSUME RelayInv, NEW e \in Emitted, insertOutboxEvent(e)
    PROVE  RelayInv'
  <1>1. /\ RelayTypes /\ RelayHonest /\ AttemptsMade /\ UNCHANGED <<relay, stream, failed>>
        /\ outbox[e].status = "none"
        /\ outbox' = [outbox EXCEPT ![e].status = "pending"]
    BY DEF RelayInv, insertOutboxEvent
  <1>2. /\ outbox' \in [Emitted -> [status : {"none", "published", "dead_letter", "pending", "retry"},
                                    attempts : 0..MaxAttempts]]
        /\ \A d \in Emitted \ {e} : outbox'[d] = outbox[d]
        /\ outbox'[e].status = "pending" /\ outbox'[e].attempts = outbox[e].attempts
    BY <1>1 DEF RelayTypes
  <1>3. RelayTypes'
    BY <1>1, <1>2 DEF RelayTypes
  <1>4. RelayHonest' /\ AttemptsMade'
    BY <1>1, <1>2 DEF RelayHonest, AttemptsMade
  <1>5. \A r \in Replicas : RelayHolds(r)'
    BY <1>1 DEF RelayInv, RelayHolds, RelayRow
  <1> QED  BY <1>3, <1>4, <1>5 DEF RelayInv

\* Every step of the relay keeps the invariant.
LEMMA RelayNextInv == RelayInv /\ [RelayNext]_relayVars => RelayInv'
  <1> SUFFICES ASSUME RelayInv, [RelayNext]_relayVars PROVE RelayInv'
    OBVIOUS
  <1>1. CASE \E e \in Emitted : insertOutboxEvent(e)
    BY <1>1, InsertInv
  <1>2. CASE \E r \in Replicas : RelayStep(r)
    BY <1>2, AcquireInv, SelectInv, PublishInv, MarkPublishedInv, MarkFailedInv, MarkErrorInv
    DEF RelayStep
  <1>3. CASE LeaseExpires \/ UNCHANGED relayVars
    BY <1>3 DEF LeaseExpires, relayVars, RelayInv, RelayTypes, RelayHonest, AttemptsMade,
                RelayHolds, RelayRow
  <1> QED  BY <1>1, <1>2, <1>3 DEF RelayNext

\* RelayPending and relayOutboxRow, for any number of replicas and events and
\* however their leases expire: a row marked published is in the stream, and
\* a row is given up only after MaxAttempts publications of it failed.
THEOREM RelayKeepsItsWord == RelaySpec => []RelayHonest
  <1>1. RelayInv => RelayHonest
    BY DEF RelayInv
  <1> QED  BY <1>1, RelayInitInv, RelayNextInv, PTL DEF RelaySpec
-----------------------------------------------------------------------------
(***************************************************************************)
(* The record store.                                                       *)
(***************************************************************************)

StoreTypes ==
    /\ DOMAIN records = RecordIds /\ DOMAIN told = RecordIds /\ DOMAIN op = Clients
    /\ highWater \in RecordIds \cup {0}
    /\ given \in [RecordIds -> Nat]
    /\ clock \in Nat /\ \A i \in RecordIds : told[i].at \in Nat
    /\ \A c \in Clients :
        /\ op[c].pc # "idle" => op[c].id \in RecordIds
        /\ op[c].pc = "commit" => op[c].at \in Nat /\ op[c].also \subseteq RecordIds

\* An id that was counted is not above the high-water mark.
CountedBelowMark == \A i \in RecordIds \ Times : given[i] > 0 => i <= highWater

\* No two transactions hold a row, so the event of one that is about to
\* commit is younger than every event the outbox has about its row.
RowsHeldOnce == \A c, d \in Clients : c # d => RowsHeld(c) \cap RowsHeld(d) = {}

YoungestEvent ==
    /\ \A i \in RecordIds : told[i].at <= clock
    /\ \A c \in Clients : op[c].pc = "commit" => told[op[c].id].at < op[c].at /\ op[c].at <= clock

IdsInv == CountedBelowMark /\ IdsNeverReused
RowsInv == RowsHeldOnce /\ YoungestEvent /\ EventsExplainRows
StoreInv == StoreTypes /\ IdsInv /\ RowsInv

\* The store is empty.
LEMMA StoreInitInv == StoreInit => StoreInv
  <1> SUFFICES ASSUME StoreInit PROVE StoreInv
    OBVIOUS
  <1>1. StoreTypes
    BY DEF StoreInit, StoreTypes, StoreIdle
  <1>2. IdsInv
    BY DEF StoreInit, IdsInv, CountedBelowMark, IdsNeverReused
  <1>3. RowsHeldOnce
    BY DEF StoreInit, StoreIdle, RowsHeldOnce, RowsHeld
  <1>4. YoungestEvent /\ EventsExplainRows
    BY DEF StoreInit, StoreIdle, YoungestEvent, EventsExplainRows
  <1> QED  BY <1>1, <1>2, <1>3, <1>4 DEF StoreInv, RowsInv

\* What allocateNextID returns is above the mark.
LEMMA AllocatedAboveMark ==
    ASSUME StoreTypes
    PROVE  allocateNextID \in Nat /\ allocateNextID > highWater
  <1> DEFINE T == {highWater} \cup {i \in RecordIds : RecordExists(i)}
  <1>1. T \subseteq Nat /\ highWater \in T /\ MaxId \in Nat /\ \A i \in T : i =< MaxId
    BY StoreAssumption DEF StoreTypes, RecordIds
  <1>2. T # {}
    BY <1>1
  <1> HIDE DEF T
  <1>3. Max(T) \in T /\ \A y \in T : Max(T) >= y
    BY <1>1, <1>2, MaxIn
  <1>4. Max(T) \in Nat /\ highWater \in Nat /\ Max(T) >= highWater
    BY <1>1, <1>3
  <1>5. Max(T) + 1 \in Nat /\ Max(T) + 1 > highWater
    BY <1>4
  <1> QED  BY <1>5 DEF allocateNextID, T

\* A client outside a transaction holds no row.
LEMMA LetGoInv ==
    ASSUME StoreTypes, RowsInv, NEW c \in Clients, NEW pc \in {"idle", "create", "upsert", "again"}, NEW i,
           UNCHANGED <<records, told, clock, untold>>, StoreGoto(c, pc, i)
    PROVE  RowsInv'
  <1>1. DOMAIN op' = Clients /\ op'[c].pc = pc /\ \A d \in Clients \ {c} : op'[d] = op[d]
    BY DEF StoreTypes, StoreGoto
  <1>2. RowsHeldOnce'
    <2>1. RowsHeld(c)' = {} /\ \A d \in Clients \ {c} : RowsHeld(d)' = RowsHeld(d)
      BY <1>1 DEF RowsHeld
    <2> QED  BY <2>1 DEF RowsInv, RowsHeldOnce
  <1>3. YoungestEvent' /\ EventsExplainRows'
    BY <1>1 DEF RowsInv, YoungestEvent, EventsExplainRows
  <1> QED  BY <1>2, <1>3 DEF RowsInv

\* A new id is above the high-water mark, so nobody was given it.
LEMMA NextIDInv ==
    ASSUME StoreInv, NEW c \in Clients, NextID(c)
    PROVE  StoreInv'
  <1>1. StoreTypes /\ CountedBelowMark /\ IdsNeverReused /\ UNCHANGED <<records, told, clock, untold>>
    BY DEF StoreInv, IdsInv, NextID
  <1>2. PICK n \in RecordIds :
            /\ StoreGoto(c, "create", n)
            /\ \/ n = allocateNextID /\ n \notin Times /\ highWater' = n
               \/ /\ n \in Times /\ highWater' = highWater
                  /\ \A i \in RecordIds : RecordExists(i) \/ given[i] > 0 => n > i
    BY StoreAssumption DEF NextID, RecordIds
  <1>3. op'[c].id = n /\ given' = [given EXCEPT ![op'[c].id] = @ + 1]
    BY <1>1, <1>2 DEF StoreGoto, StoreTypes, NextID
  <1>4. given' = [given EXCEPT ![n] = @ + 1]
    BY <1>3
  <1>5. StoreTypes'
    <2>1. DOMAIN op' = Clients /\ op'[c] = [pc |-> "create", id |-> n]
      BY <1>1, <1>2 DEF StoreTypes, StoreGoto
    <2>2. \A d \in Clients \ {c} : op'[d] = op[d]
      BY <1>1, <1>2 DEF StoreTypes, StoreGoto
    <2>3. highWater' \in RecordIds \cup {0} /\ given' \in [RecordIds -> Nat]
      BY <1>1, <1>2, <1>4 DEF StoreTypes
    <2> QED  BY <1>1, <2>1, <2>2, <2>3 DEF StoreTypes
  <1>6. given[n] = 0
    <2>1. given[n] \in Nat /\ n \in Nat /\ highWater \in Nat
      BY <1>1, StoreAssumption DEF StoreTypes, RecordIds
    <2>2. CASE n = allocateNextID /\ n \notin Times
      BY <1>1, <2>1, <2>2, AllocatedAboveMark DEF CountedBelowMark
    <2>3. CASE \A i \in RecordIds : RecordExists(i) \/ given[i] > 0 => n > i
      BY <2>1, <2>3
    <2> QED  BY <1>2, <2>2, <2>3
  <1>7. given'[n] = 1 /\ \A i \in RecordIds \ {n} : given'[i] = given[i]
    BY <1>1, <1>4, <1>6 DEF StoreTypes
  <1>8. highWater' >= highWater /\ (n \notin Times => highWater' >= n)
    <2>1. n \in Nat /\ highWater \in Nat
      BY <1>1, StoreAssumption DEF StoreTypes, RecordIds
    <2> QED  BY <1>1, <1>2, <2>1, AllocatedAboveMark
  <1>9. CountedBelowMark'
    <2>1. highWater \in Nat /\ highWater' \in Nat /\ \A i \in RecordIds : i \in Nat
      BY <1>1, <1>5, StoreAssumption DEF StoreTypes, RecordIds
    <2> QED  BY <1>1, <1>7, <1>8, <2>1 DEF CountedBelowMark
  <1>10. IdsNeverReused'
    BY <1>1, <1>7 DEF IdsNeverReused
  <1>11. RowsInv'
    BY <1>1, <1>2, LetGoInv DEF StoreInv
  <1> QED  BY <1>5, <1>9, <1>10, <1>11 DEF StoreInv, IdsInv

\* Nor do the other steps hand out an id.
LEMMA IdsStay ==
    ASSUME IdsInv, UNCHANGED <<highWater, given>>
    PROVE  IdsInv'
  BY DEF IdsInv, CountedBelowMark, IdsNeverReused

\* A step to a handler's next statement, or to its end.
LEMMA StatementInv ==
    ASSUME StoreInv, NEW c \in Clients, UNCHANGED <<records, highWater, told, clock, untold, given>>,
           \/ StoreGoto(c, "idle", 0)
           \/ \E i \in RecordIds, pc \in {"create", "upsert", "again"} : StoreGoto(c, pc, i)
    PROVE  StoreInv'
  <1>1. PICK pc \in {"idle", "create", "upsert", "again"}, i \in RecordIds \cup {0} :
            StoreGoto(c, pc, i) /\ (pc # "idle" => i \in RecordIds)
    OBVIOUS
  <1>2. StoreTypes'
    <2>1. DOMAIN op' = Clients /\ op'[c].pc = pc /\ op'[c].id = i /\ \A d \in Clients \ {c} : op'[d] = op[d]
      BY <1>1 DEF StoreInv, StoreTypes, StoreGoto
    <2> QED  BY <1>1, <2>1 DEF StoreInv, StoreTypes
  <1>3. RowsInv'
    BY <1>1, LetGoInv DEF StoreInv
  <1> QED  BY <1>2, <1>3, IdsStay DEF StoreInv

\* A cascade takes the row it deletes first.
LEMMA CascadeInv ==
    ASSUME StoreInv, NEW c \in Clients, NEW i \in RecordIds, DeleteCascade(c, i)
    PROVE  StoreInv'
  <1>1. /\ StoreTypes /\ RowsHeldOnce /\ YoungestEvent /\ EventsExplainRows /\ RowFree(i)
        /\ StoreGoto(c, "cascade", i) /\ UNCHANGED <<records, highWater, told, clock, untold, given>>
    BY DEF StoreInv, RowsInv, DeleteCascade
  <1>2. StoreTypes'
    BY <1>1 DEF StoreTypes, StoreGoto
  <1>3. RowsHeldOnce'
    <2>1. RowsHeld(c)' = {i} /\ \A d \in Clients \ {c} : RowsHeld(d)' = RowsHeld(d)
      BY <1>1 DEF StoreTypes, StoreGoto, RowsHeld
    <2> QED  BY <1>1, <2>1 DEF RowsHeldOnce, RowFree
  <1>4. YoungestEvent'
    <2>1. op'[c].pc = "cascade" /\ \A d \in Clients \ {c} : op'[d] = op[d]
      BY <1>1 DEF StoreTypes, StoreGoto
    <2> QED  BY <1>1, <2>1 DEF YoungestEvent
  <1>5. EventsExplainRows'
    BY <1>1 DEF EventsExplainRows
  <1> QED  BY <1>1, <1>2, <1>3, <1>4, <1>5, IdsStay DEF StoreInv, RowsInv

\* An event is built while its row, and those deleted with it, are held.
LEMMA EventInv ==
    ASSUME StoreInv, NEW c \in Clients, NEW i \in RecordIds, NEW says, NEW also \in SUBSET RecordIds,
           UNCHANGED <<records, highWater, told, untold, given>>, BuildEvent(c, i, says, also),
           \A j \in also \cup {i} : RowFree(j) \/ j \in RowsHeld(c)
    PROVE  StoreInv'
  <1>1. /\ StoreTypes /\ RowsHeldOnce /\ YoungestEvent /\ EventsExplainRows /\ clock' = clock + 1
        /\ op' = [op EXCEPT ![c] = [pc |-> "commit", id |-> i, says |-> says, also |-> also, at |-> clock + 1]]
    BY DEF StoreInv, RowsInv, BuildEvent
  <1>2. DOMAIN op' = Clients /\ \A d \in Clients \ {c} : op'[d] = op[d]
    BY <1>1 DEF StoreTypes
  <1>3. op'[c].pc = "commit" /\ op'[c].id = i /\ op'[c].also = also /\ op'[c].at = clock + 1
    BY <1>1 DEF StoreTypes
  <1>4. StoreTypes'
    BY <1>1, <1>2, <1>3 DEF StoreTypes
  <1>5. RowsHeldOnce'
    <2>1. RowsHeld(c)' = also \cup {i} /\ \A d \in Clients \ {c} : RowsHeld(d)' = RowsHeld(d)
      BY <1>2, <1>3 DEF RowsHeld
    <2>2. \A j \in also \cup {i}, d \in Clients \ {c} : j \notin RowsHeld(d)
      BY <1>1 DEF RowsHeldOnce, RowFree
    <2> QED  BY <1>1, <2>1, <2>2 DEF RowsHeldOnce
  <1>6. YoungestEvent'
    BY <1>1, <1>2, <1>3 DEF StoreTypes, YoungestEvent
  <1>7. EventsExplainRows'
    BY <1>1 DEF EventsExplainRows
  <1> QED  BY <1>4, <1>5, <1>6, <1>7, IdsStay DEF StoreInv, RowsInv

\* The event that is committed is the youngest about its row, and the other
\* transactions are about other rows.
LEMMA CommitInv ==
    ASSUME StoreInv, NEW c \in Clients, CommitRecord(c)
    PROVE  StoreInv'
  <1> DEFINE t == op[c]
  <1>1. /\ StoreTypes /\ RowsHeldOnce /\ YoungestEvent /\ EventsExplainRows /\ t.pc = "commit"
        /\ records' = [i \in RecordIds |-> IF i = t.id THEN t.says ELSE IF i \in t.also THEN NoRow ELSE records[i]]
        /\ untold' = (untold \ {t.id}) \cup t.also
        /\ StoreGoto(c, "idle", 0) /\ UNCHANGED <<highWater, clock, given>>
    BY DEF StoreInv, RowsInv, CommitRecord
  <1>2. t.id \in RecordIds /\ t.at \in Nat /\ told[t.id].at \in Nat /\ told[t.id].at < t.at /\ t.at <= clock
    BY <1>1 DEF StoreTypes, YoungestEvent
  <1>3. told' = [told EXCEPT ![t.id] = [at |-> t.at, says |-> t.says]]
    BY <1>2 DEF CommitRecord
  <1>4. /\ DOMAIN told' = RecordIds /\ told'[t.id].at = t.at /\ told'[t.id].says = t.says
        /\ \A i \in RecordIds \ {t.id} : told'[i] = told[i]
    BY <1>1, <1>2, <1>3 DEF StoreTypes
  <1>5. /\ DOMAIN op' = Clients /\ op'[c].pc = "idle"
        /\ \A d \in Clients \ {c} : op'[d] = op[d]
    BY <1>1 DEF StoreTypes, StoreGoto
  <1> HIDE DEF t
  <1>6. StoreTypes'
    BY <1>1, <1>2, <1>4, <1>5 DEF StoreTypes
  <1>7. RowsHeldOnce'
    <2>1. RowsHeld(c)' = {} /\ \A d \in Clients \ {c} : RowsHeld(d)' = RowsHeld(d)
      BY <1>5 DEF RowsHeld
    <2> QED  BY <1>1, <2>1 DEF RowsHeldOnce
  <1>8. YoungestEvent'
    <2>1. ASSUME NEW d \in Clients \ {c}, op[d].pc = "commit" PROVE op[d].id # t.id
      BY <1>1, <1>2, <2>1 DEF t, RowsHeldOnce, RowsHeld
    <2>2. \A i \in RecordIds : told'[i].at <= clock'
      BY <1>1, <1>2, <1>4 DEF YoungestEvent
    <2>3. ASSUME NEW d \in Clients, op'[d].pc = "commit"
          PROVE  told'[op'[d].id].at < op'[d].at /\ op'[d].at <= clock'
      <3>1. d # c /\ op'[d] = op[d]
        BY <1>5, <2>3
      <3>2. op[d].id \in RecordIds \ {t.id} /\ told[op[d].id].at < op[d].at /\ op[d].at <= clock
        BY <1>1, <2>1, <2>3, <3>1 DEF StoreTypes, YoungestEvent
      <3> QED  BY <1>1, <1>4, <3>1, <3>2
    <2> QED  BY <2>2, <2>3 DEF YoungestEvent
  <1>9. EventsExplainRows'
    BY <1>1, <1>2, <1>4 DEF EventsExplainRows
  <1> QED  BY <1>1, <1>6, <1>7, <1>8, <1>9, IdsStay DEF StoreInv, RowsInv

\* A statement that writes a row waited for it.
LEMMA WriteInv ==
    ASSUME StoreInv, NEW c \in Clients, NEW i \in RecordIds, NEW says, WriteRecord(c, i, says),
           UNCHANGED <<records, highWater, told, untold, given>>
    PROVE  StoreInv'
  BY EventInv DEF WriteRecord

\* Every step of the store keeps the invariant.
LEMMA StoreNextInv == StoreInv /\ [StoreNext]_storeVars => StoreInv'
  <1> SUFFICES ASSUME StoreInv, [StoreNext]_storeVars PROVE StoreInv'
    OBVIOUS
  <1>1. ASSUME NEW c \in Clients, NextID(c) PROVE StoreInv'
    BY <1>1, NextIDInv
  <1>2. ASSUME NEW c \in Clients, NEW i \in RecordIds,
               \/ handleCRUDCreate(c) /\ i = op[c].id
               \/ UpsertInsert(c) /\ i = op[c].id
               \/ UpsertAgain(c) /\ i = op[c].id
               \/ CreateNamed(c, i) \/ handleCRUDUpdate(c, i) \/ UpsertRecord(c, i)
        PROVE  StoreInv'
    <2>1. UNCHANGED <<records, highWater, told, untold, given>>
      BY <1>2 DEF handleCRUDCreate, UpsertInsert, UpsertAgain, CreateNamed, handleCRUDUpdate, UpsertRecord
    <2>2. \/ WriteRecord(c, i, {c})
          \/ WriteRecord(c, i, records[i] \cup {c})
          \/ UNCHANGED clock /\ StoreGoto(c, "idle", 0)
          \/ UNCHANGED clock /\ \E pc \in {"create", "upsert", "again"} : StoreGoto(c, pc, i)
      BY <1>2 DEF handleCRUDCreate, UpsertInsert, UpsertAgain, CreateNamed, handleCRUDUpdate, UpsertRecord,
                  createPostgresRecord, updatePostgresRecord
    <2>3. CASE WriteRecord(c, i, {c}) \/ WriteRecord(c, i, records[i] \cup {c})
      BY <2>1, <2>3, WriteInv
    <2> QED  BY <2>1, <2>2, <2>3, StatementInv
  <1>3. ASSUME NEW c \in Clients, handleCRUDCreate(c) \/ UpsertInsert(c) \/ UpsertAgain(c)
        PROVE  StoreInv'
    <2>1. op[c].id \in RecordIds
      BY <1>3 DEF StoreInv, StoreTypes, handleCRUDCreate, UpsertInsert, UpsertAgain
    <2> QED  BY <1>2, <1>3, <2>1
  <1>4. ASSUME NEW c \in Clients, CommitRecord(c) PROVE StoreInv'
    BY <1>4, CommitInv
  <1>5. ASSUME NEW c \in Clients, AbortRecord(c) PROVE StoreInv'
    BY <1>5, StatementInv DEF AbortRecord
  <1>6. ASSUME NEW c \in Clients, NEW i \in RecordIds, DeleteRecord(c, i) PROVE StoreInv'
    BY <1>6, WriteInv DEF DeleteRecord
  <1>7. ASSUME NEW c \in Clients, NEW i \in RecordIds, DeleteCascade(c, i) PROVE StoreInv'
    BY <1>7, CascadeInv
  <1>8. ASSUME NEW c \in Clients, NEW j \in RecordIds, DeleteDependent(c, j) PROVE StoreInv'
    <2>1. /\ op[c].pc = "cascade" /\ RowFree(j) /\ BuildEvent(c, op[c].id, NoRow, {j})
          /\ UNCHANGED <<records, highWater, told, untold, given>>
      BY <1>8 DEF DeleteDependent
    <2>2. op[c].id \in RecordIds /\ op[c].id \in RowsHeld(c)
      BY <2>1 DEF StoreInv, StoreTypes, RowsHeld
    <2>3. \A k \in {j} \cup {op[c].id} : RowFree(k) \/ k \in RowsHeld(c)
      BY <2>1, <2>2
    <2> QED  BY <2>1, <2>2, <2>3, EventInv
  <1>9. CASE UNCHANGED storeVars
    <2>1. UNCHANGED <<records, highWater, told, clock, op, untold, given>>
      BY <1>9 DEF storeVars
    <2>2. StoreTypes' /\ IdsInv'
      BY <2>1, IdsStay DEF StoreInv, StoreTypes
    <2>3. RowsHeldOnce'
      BY <2>1 DEF StoreInv, RowsInv, RowsHeldOnce, RowsHeld
    <2>4. YoungestEvent' /\ EventsExplainRows'
      BY <2>1 DEF StoreInv, RowsInv, YoungestEvent, EventsExplainRows
    <2> QED  BY <2>2, <2>3, <2>4 DEF StoreInv, RowsInv
  <1>10. Named \subseteq RecordIds
    BY StoreAssumption DEF RecordIds
  <1> QED  BY <1>1, <1>2, <1>3, <1>4, <1>5, <1>6, <1>7, <1>8, <1>9, <1>10 DEF StoreNext

\* The invariant of the store holds throughout.
LEMMA StoreInvariance == StoreSpec => []StoreInv
  BY StoreInitInv, StoreNextInv, PTL DEF StoreSpec

\* NextID and its fallback to the clock, for any number of clients, ids and
\* clock readings: no id is handed out twice, whatever is deleted.
THEOREM NoIdTwice == StoreSpec => []IdsNeverReused
  <1>1. StoreInv => IdsNeverReused
    BY DEF StoreInv, IdsInv
  <1> QED  BY <1>1, StoreInvariance, PTL

\* CreateRecordWithEvent, UpdateRecordWithEvent, UpsertWithEvent, deletes and
\* cascades, for any number of clients and ids, however their transactions
\* overlap or are rolled back: the event about an id that the outbox lists
\* last says what its row holds, but for rows a cascade took along.
THEOREM RowsExplained == StoreSpec => []EventsExplainRows
  <1>1. StoreInv => EventsExplainRows
    BY DEF StoreInv, RowsInv
  <1> QED  BY <1>1, StoreInvariance, PTL

-----------------------------------------------------------------------------
(* Migrations.                                                               *)

UnitRecords == [unit : MigrationUnits, sum : Nat \ {0}]
LedgerRows == [sum : Nat, dirty : BOOLEAN]
MigratorPcs == {"idle", "lock", "dirty", "unit", "mark", "apply", "clear"}
Locked == {"dirty", "unit", "mark", "apply", "clear"}

MigrationTypes ==
    /\ ledger \in [MigrationUnits -> LedgerRows]
    /\ schemaOf \in [MigrationUnits -> Seq(Nat)]
    /\ migrator \in [Migrators -> [pc : MigratorPcs, units : Seq(UnitRecords), i : Nat \ {0}]]

(* One runner at a time is past the lock, and knows what it has done.        *)
LedgerSeen(m) ==
    /\ migrator[m].pc \in Locked <=> mlock = m
    /\ migrator[m].pc \in {"lock", "dirty"} => migrator[m].i = 1
    /\ migrator[m].pc \in {"mark", "apply", "clear"} => migrator[m].i \in 1..Len(migrator[m].units)
    /\ migrator[m].pc \in {"unit", "mark"} => \A u \in MigrationUnits : ~ledger[u].dirty
    /\ migrator[m].pc = "mark" => ledger[UnitAt(m).unit] = NoLedgerRow
    /\ migrator[m].pc \in {"apply", "clear"} =>
          /\ ledger[UnitAt(m).unit] = [sum |-> UnitAt(m).sum, dirty |-> TRUE]
          /\ schemaOf[UnitAt(m).unit] = IF migrator[m].pc = "apply" THEN << >> ELSE <<UnitAt(m).sum>>
    /\ migrator[m].pc # "idle" =>
          \A k \in 1..(migrator[m].i - 1) :
             ledger[migrator[m].units[k].unit] = [sum |-> migrator[m].units[k].sum, dirty |-> FALSE]

(* What a row says of the schema; at most one unit's outcome is not known.   *)
RowTold(u) ==
    /\ ledger[u] = NoLedgerRow => schemaOf[u] = << >>
    /\ ledger[u].dirty => schemaOf[u] = << >> \/ schemaOf[u] = <<ledger[u].sum>>
    /\ (ledger[u] # NoLedgerRow /\ ~ledger[u].dirty) => schemaOf[u] = <<ledger[u].sum>>

OneDirty == \A u, v \in MigrationUnits : ledger[u].dirty /\ ledger[v].dirty => u = v

MigrationInv ==
    /\ MigrationTypes
    /\ \A m \in Migrators : LedgerSeen(m)
    /\ \A u \in MigrationUnits : RowTold(u)
    /\ OneDirty
MigratorRecords == [pc : MigratorPcs, units : Seq(UnitRecords), i : Nat \ {0}]

\* What a runner is working on is a unit with a checksum.
LEMMA UnitAtType ==
    ASSUME MigrationTypes, NEW m \in Migrators, migrator[m].i \in 1..Len(migrator[m].units)
    PROVE  /\ UnitAt(m) \in UnitRecords /\ UnitAt(m).unit \in MigrationUnits
           /\ UnitAt(m).sum \in Nat \ {0}
<1>1. migrator[m].units \in Seq(UnitRecords)
      BY DEF MigrationTypes
<1>2. UnitAt(m) \in UnitRecords
      BY <1>1 DEF UnitAt
<1>3. QED BY <1>2 DEF UnitRecords

(* The units before the one a runner is at are in the ledger, and done.      *)
LEMMA UnitDone ==
    ASSUME MigrationInv, NEW m \in Migrators, migrator[m].pc \in {"mark", "apply", "clear"},
           NEW k \in 1..(migrator[m].i - 1)
    PROVE  LET e == migrator[m].units[k]
           IN  /\ e.unit \in MigrationUnits
               /\ ledger[e.unit] = [sum |-> e.sum, dirty |-> FALSE]
               /\ ledger[e.unit] # NoLedgerRow /\ ~ledger[e.unit].dirty
<1> DEFINE e == migrator[m].units[k]
<1>1. migrator[m] \in MigratorRecords /\ LedgerSeen(m)
      BY DEF MigrationInv, MigrationTypes, MigratorRecords
<1>2. migrator[m].i \in 1..Len(migrator[m].units) /\ ledger[e.unit] = [sum |-> e.sum, dirty |-> FALSE]
      BY <1>1 DEF LedgerSeen
<1>3. migrator[m].units \in Seq(UnitRecords)
      BY <1>1 DEF MigratorRecords
<1>4. e \in UnitRecords
      BY <1>2, <1>3
<1> HIDE DEF e
<1>5. e.unit \in MigrationUnits /\ e.sum # 0
      BY <1>4 DEF UnitRecords
<1>6. ledger[e.unit] # NoLedgerRow /\ ~ledger[e.unit].dirty
      BY <1>2, <1>5 DEF NoLedgerRow
<1>7. QED BY <1>2, <1>5, <1>6 DEF e

(* A runner that is before its first unit has done none.                     *)
LEMMA SeesFromStart ==
    ASSUME NEW m \in Migrators, migrator'[m].pc \in {"lock", "dirty", "unit"}, migrator'[m].i = 1,
           mlock' = m <=> migrator'[m].pc # "lock",
           migrator'[m].pc = "unit" => \A u \in MigrationUnits : ~ledger'[u].dirty
    PROVE  LedgerSeen(m)'
<1>1. 1..(migrator'[m].i - 1) = {}
      OBVIOUS
<1>2. migrator'[m].pc \in Locked <=> migrator'[m].pc # "lock"
      BY DEF Locked
<1>3. QED BY <1>1, <1>2 DEF LedgerSeen

\* An idle runner is a runner.
LEMMA MigratorIdleType == MigratorIdle \in MigratorRecords /\ MigratorIdle.pc = "idle"
BY DEF MigratorIdle, MigratorRecords, MigratorPcs

(* A runner that does not move keeps what it has seen: nobody else writes    *)
(* the ledger while it holds the lock, and without the lock it has seen      *)
(* nothing.                                                                  *)
LEMMA OtherRunner ==
    ASSUME NEW m \in Migrators, LedgerSeen(m), migrator'[m] = migrator[m],
           migrator[m] \in MigratorRecords,
           \/ UNCHANGED <<ledger, schemaOf>> /\ (mlock = m <=> mlock' = m)
           \/ mlock # m /\ mlock' # m
    PROVE  LedgerSeen(m)'
<1>1. CASE UNCHANGED <<ledger, schemaOf>> /\ (mlock = m <=> mlock' = m)
      BY <1>1 DEF LedgerSeen, UnitAt
<1>2. CASE mlock # m /\ mlock' # m
  <2>1. migrator[m].pc \in {"idle", "lock"}
        BY <1>2 DEF LedgerSeen, MigratorRecords, MigratorPcs, Locked
  <2>2. migrator[m].pc = "lock" => migrator[m].i = 1
        BY DEF LedgerSeen
  <2>3. QED BY <1>2, <2>1, <2>2 DEF LedgerSeen, Locked
<1>3. QED BY <1>1, <1>2

(* One runner's step.                                                        *)
LEMMA RunnerStep ==
    ASSUME MigrationInv, NEW m \in Migrators, NEW x \in MigratorRecords,
           migrator' = [migrator EXCEPT ![m] = x], LedgerSeen(m)',
           ledger' \in [MigrationUnits -> LedgerRows], schemaOf' \in [MigrationUnits -> Seq(Nat)],
           \A u \in MigrationUnits : RowTold(u)', OneDirty',
           \/ UNCHANGED <<ledger, schemaOf, mlock>>
           \/ /\ UNCHANGED <<ledger, schemaOf>> /\ mlock = NoMigrator /\ mlock' = m
           \/ mlock = m /\ mlock' \in {m, NoMigrator}
    PROVE  MigrationInv'
<1>1. MigrationTypes'
      BY DEF MigrationInv, MigrationTypes, MigratorRecords
<1>2. ASSUME NEW n \in Migrators PROVE LedgerSeen(n)'
  <2>1. CASE n = m
        BY <2>1
  <2>2. CASE n # m
    <3>1. migrator'[n] = migrator[n] /\ migrator[n] \in MigratorRecords /\ LedgerSeen(n)
          BY <2>2 DEF MigrationInv, MigrationTypes, MigratorRecords
    <3>2. n # NoMigrator
          BY MigrationsAssumption
    <3>3. QED BY <2>2, <3>1, <3>2, OtherRunner
  <2>3. QED BY <2>1, <2>2
<1>3. QED BY <1>1, <1>2 DEF MigrationInv

(* The ledger as it was.                                                     *)
LEMMA SameLedger ==
    ASSUME MigrationInv, UNCHANGED <<ledger, schemaOf>>
    PROVE  /\ ledger' \in [MigrationUnits -> LedgerRows] /\ schemaOf' \in [MigrationUnits -> Seq(Nat)]
           /\ \A u \in MigrationUnits : RowTold(u)'
           /\ OneDirty'
BY DEF MigrationInv, MigrationTypes, RowTold, OneDirty

(* A run that ends leaves the ledger to the next.                            *)
LEMMA RunEnds ==
    ASSUME MigrationInv, NEW m \in Migrators, EndRun(m), migrator[m].pc # "idle",
           ledger' \in [MigrationUnits -> LedgerRows], schemaOf' \in [MigrationUnits -> Seq(Nat)],
           \A u \in MigrationUnits : RowTold(u)', OneDirty',
           mlock = m \/ UNCHANGED <<ledger, schemaOf>>
    PROVE  MigrationInv'
<1>1. migrator' = [migrator EXCEPT ![m] = MigratorIdle] /\ migrator'[m] = MigratorIdle
      BY DEF EndRun, MigrationInv, MigrationTypes
<1>2. mlock' # m /\ (mlock = m => mlock' = NoMigrator) /\ (mlock # m => mlock' = mlock)
      BY MigrationsAssumption DEF EndRun
<1>3. LedgerSeen(m)'
      BY <1>1, <1>2, MigratorIdleType DEF LedgerSeen, Locked
<1>4. QED BY <1>1, <1>2, <1>3, MigratorIdleType, RunnerStep

\* There is no ledger row and no schema.
LEMMA MigrationInvInit == MigrationsInit => MigrationInv
<1> SUFFICES ASSUME MigrationsInit PROVE MigrationInv
    OBVIOUS
<1>1. NoLedgerRow \in LedgerRows /\ ~NoLedgerRow.dirty
      BY DEF NoLedgerRow, LedgerRows
<1>2. MigrationTypes
      BY <1>1, MigratorIdleType DEF MigrationsInit, MigrationTypes, MigratorRecords
<1>3. ASSUME NEW m \in Migrators PROVE LedgerSeen(m)
      BY MigratorIdleType, MigrationsAssumption DEF MigrationsInit, LedgerSeen, Locked
<1>4. (\A u \in MigrationUnits : RowTold(u)) /\ OneDirty
      BY <1>1 DEF MigrationsInit, RowTold, OneDirty
<1>5. QED BY <1>2, <1>3, <1>4 DEF MigrationInv

(* A runner moves on to pc, over the ledger as it was.                       *)
LEMMA MovesOn ==
    ASSUME MigrationInv, NEW m \in Migrators, NEW pc \in MigratorPcs, MigrateTo(m, pc)
    PROVE  \E x \in MigratorRecords :
              /\ migrator' = [migrator EXCEPT ![m] = x] /\ migrator'[m] = x
              /\ x.pc = pc /\ x.units = migrator[m].units /\ x.i = migrator[m].i
<1> DEFINE x == [migrator[m] EXCEPT !.pc = pc]
<1>1. migrator[m] \in MigratorRecords
      BY DEF MigrationInv, MigrationTypes, MigratorRecords
<1>2. x \in MigratorRecords /\ x.pc = pc /\ x.units = migrator[m].units /\ x.i = migrator[m].i
      BY <1>1 DEF MigratorRecords
<1>3. migrator' = [migrator EXCEPT ![m] = x]
      BY DEF MigrateTo
<1> HIDE DEF x
<1>4. migrator'[m] = x
      BY <1>3 DEF MigrationInv, MigrationTypes
<1>5. QED BY <1>2, <1>3, <1>4

\* A runner that is done with a unit goes on to the next.
LEMMA NextUnitType ==
    ASSUME MigrationInv, NEW m \in Migrators, NextUnit(m)
    PROVE  \E x \in MigratorRecords :
              /\ migrator' = [migrator EXCEPT ![m] = x] /\ migrator'[m] = x
              /\ x.pc = "unit" /\ x.units = migrator[m].units /\ x.i = migrator[m].i + 1
<1> DEFINE x == [migrator[m] EXCEPT !.pc = "unit", !.i = migrator[m].i + 1]
<1>1. migrator[m] \in MigratorRecords
      BY DEF MigrationInv, MigrationTypes, MigratorRecords
<1>2. migrator[m].i + 1 \in Nat \ {0}
      BY <1>1 DEF MigratorRecords
<1>3. x \in MigratorRecords /\ x.pc = "unit" /\ x.units = migrator[m].units /\ x.i = migrator[m].i + 1
      BY <1>1, <1>2 DEF MigratorRecords, MigratorPcs
<1>4. migrator' = [migrator EXCEPT ![m] = x]
      BY <1>1 DEF NextUnit, MigratorRecords, MigrationInv, MigrationTypes
<1> HIDE DEF x
<1>5. migrator'[m] = x
      BY <1>4 DEF MigrationInv, MigrationTypes
<1>6. QED BY <1>3, <1>4, <1>5

(* Skipping a unit that is done, or turning to one that is not.              *)
LEMMA LookStep ==
    ASSUME MigrationInv, NEW m \in Migrators, migrationAlreadyApplied(m) \/ MigrationSummary(m)
    PROVE  MigrationInv'
<1>0. /\ UNCHANGED <<ledger, schemaOf>> /\ LedgerSeen(m) /\ migrator[m].pc = "unit" /\ mlock = m
      /\ migrator[m] \in MigratorRecords
      BY DEF migrationAlreadyApplied, MigrationSummary, MigrationInv, MigrationTypes, LedgerSeen, Locked,
             MigratorRecords
<1>1. CASE EndRun(m)
      BY <1>0, <1>1, SameLedger, RunEnds
<1>2. CASE /\ migrator[m].i <= Len(migrator[m].units) /\ ledger[UnitAt(m).unit] = NoLedgerRow
           /\ MigrateTo(m, "mark") /\ UNCHANGED mlock
  <2>1. PICK x \in MigratorRecords :
              /\ migrator' = [migrator EXCEPT ![m] = x] /\ migrator'[m] = x
              /\ x.pc = "mark" /\ x.units = migrator[m].units /\ x.i = migrator[m].i
        BY <1>2, MovesOn DEF MigratorPcs
  <2>2. UnitAt(m)' = UnitAt(m)
        BY <2>1 DEF UnitAt
  <2>3. migrator[m].i \in 1..Len(migrator[m].units)
        BY <1>0, <1>2 DEF MigratorRecords
  <2>4. LedgerSeen(m)'
        BY <1>0, <1>2, <2>1, <2>2, <2>3 DEF LedgerSeen, Locked
  <2>5. QED BY <1>0, <1>2, <2>1, <2>4, SameLedger, RunnerStep
<1>3. CASE /\ migrator[m].i <= Len(migrator[m].units) /\ ~ledger[UnitAt(m).unit].dirty
           /\ ledger[UnitAt(m).unit].sum = UnitAt(m).sum /\ NextUnit(m) /\ UNCHANGED mlock
  <2>1. PICK x \in MigratorRecords :
              /\ migrator' = [migrator EXCEPT ![m] = x] /\ migrator'[m] = x
              /\ x.pc = "unit" /\ x.units = migrator[m].units /\ x.i = migrator[m].i + 1
        BY <1>3, NextUnitType
  <2>2. migrator[m].i \in 1..Len(migrator[m].units)
        BY <1>0, <1>3 DEF MigratorRecords
  <2>3. ledger[UnitAt(m).unit] = [sum |-> UnitAt(m).sum, dirty |-> FALSE]
    <3>1. ledger[UnitAt(m).unit] \in LedgerRows
          BY <2>2, UnitAtType DEF MigrationInv, MigrationTypes
    <3>2. QED BY <1>3, <3>1 DEF LedgerRows
  <2>4. ASSUME NEW k \in 1..(x.i - 1)
        PROVE  ledger[x.units[k].unit] = [sum |-> x.units[k].sum, dirty |-> FALSE]
    <3>1. k = migrator[m].i \/ k \in 1..(migrator[m].i - 1)
          BY <2>1, <2>2
    <3>2. QED BY <1>0, <2>1, <2>3, <3>1 DEF LedgerSeen, UnitAt
  <2>5. LedgerSeen(m)'
        BY <1>0, <1>3, <2>1, <2>4 DEF LedgerSeen, Locked
  <2>6. QED BY <1>0, <1>3, <2>1, <2>5, SameLedger, RunnerStep
<1>4. QED BY <1>1, <1>2, <1>3 DEF migrationAlreadyApplied, MigrationSummary
(* What each of a unit's three statements does to the ledger and the schema, *)
(* whether or not the runner learns of it.                                   *)
LEMMA MarkEffect ==
    ASSUME MigrationInv, NEW m \in Migrators, migrator[m].pc = "mark",
           ledger' = [ledger EXCEPT ![UnitAt(m).unit] = [sum |-> UnitAt(m).sum, dirty |-> TRUE]],
           UNCHANGED schemaOf
    PROVE  /\ ledger' \in [MigrationUnits -> LedgerRows] /\ schemaOf' \in [MigrationUnits -> Seq(Nat)]
           /\ \A u \in MigrationUnits : RowTold(u)'
           /\ OneDirty'
<1> DEFINE a == UnitAt(m).unit
<1> DEFINE row == [sum |-> UnitAt(m).sum, dirty |-> TRUE]
<1>1. LedgerSeen(m) /\ migrator[m].i \in 1..Len(migrator[m].units)
      BY DEF MigrationInv, LedgerSeen
<1>2. a \in MigrationUnits /\ row \in LedgerRows /\ row.dirty /\ row # NoLedgerRow
      BY <1>1, UnitAtType DEF MigrationInv, LedgerRows, NoLedgerRow
<1>3. ledger[a] = NoLedgerRow /\ \A u \in MigrationUnits : ~ledger[u].dirty
      BY <1>1 DEF LedgerSeen
<1> HIDE DEF a, row
<1>4. ledger' = [ledger EXCEPT ![a] = row]
      BY DEF a, row
<1>5. /\ ledger'[a] = row /\ ledger' \in [MigrationUnits -> LedgerRows]
      /\ \A u \in MigrationUnits : u # a => ledger'[u] = ledger[u]
      BY <1>2, <1>4 DEF MigrationInv, MigrationTypes
<1>6. ASSUME NEW u \in MigrationUnits PROVE RowTold(u)'
  <2>1. CASE u = a
        BY <1>2, <1>3, <1>5, <2>1 DEF MigrationInv, RowTold
  <2>2. CASE u # a
        BY <1>5, <2>2 DEF MigrationInv, RowTold
  <2>3. QED BY <2>1, <2>2
<1>7. OneDirty'
      BY <1>3, <1>5 DEF OneDirty
<1>8. schemaOf' \in [MigrationUnits -> Seq(Nat)]
      BY DEF MigrationInv, MigrationTypes
<1>9. QED BY <1>5, <1>6, <1>7, <1>8

\* The SQL of a unit is committed once, under its dirty row.
LEMMA ApplyEffect ==
    ASSUME MigrationInv, NEW m \in Migrators, migrator[m].pc = "apply",
           schemaOf' = [schemaOf EXCEPT ![UnitAt(m).unit] = Append(@, UnitAt(m).sum)],
           UNCHANGED ledger
    PROVE  /\ ledger' \in [MigrationUnits -> LedgerRows] /\ schemaOf' \in [MigrationUnits -> Seq(Nat)]
           /\ schemaOf'[UnitAt(m).unit] = <<UnitAt(m).sum>>
           /\ \A u \in MigrationUnits : RowTold(u)'
           /\ OneDirty'
<1> DEFINE a == UnitAt(m).unit
<1> DEFINE s == UnitAt(m).sum
<1>1. LedgerSeen(m) /\ migrator[m].i \in 1..Len(migrator[m].units)
      BY DEF MigrationInv, LedgerSeen
<1>2. a \in MigrationUnits /\ s \in Nat
      BY <1>1, UnitAtType DEF MigrationInv
<1>3. ledger[a] = [sum |-> s, dirty |-> TRUE] /\ schemaOf[a] = << >>
      BY <1>1 DEF LedgerSeen
<1> HIDE DEF a, s
<1>4. schemaOf' = [schemaOf EXCEPT ![a] = Append(schemaOf[a], s)]
      BY DEF a, s
<1>5. Append(schemaOf[a], s) = <<s>>
      BY <1>2, <1>3
<1>6. <<s>> \in Seq(Nat)
      BY <1>2
<1> DEFINE once == <<s>>
<1> DEFINE Histories == Seq(Nat)
<1>a. once \in Histories /\ schemaOf \in [MigrationUnits -> Histories]
      BY <1>6 DEF MigrationInv, MigrationTypes
<1>b. schemaOf' = [schemaOf EXCEPT ![a] = once]
      BY <1>4, <1>5
<1> HIDE DEF once, Histories
<1>c. /\ schemaOf'[a] = once /\ schemaOf' \in [MigrationUnits -> Histories]
      /\ \A u \in MigrationUnits : u # a => schemaOf'[u] = schemaOf[u]
      BY <1>2, <1>a, <1>b
<1>7. /\ schemaOf'[a] = <<s>> /\ schemaOf' \in [MigrationUnits -> Seq(Nat)]
      /\ \A u \in MigrationUnits : u # a => schemaOf'[u] = schemaOf[u]
      BY <1>c DEF once, Histories
<1>8. ASSUME NEW u \in MigrationUnits PROVE RowTold(u)'
  <2>1. CASE u = a
    <3>1. ledger'[u].dirty /\ ledger'[u].sum = s /\ ledger'[u] # NoLedgerRow
          BY <1>3, <2>1 DEF NoLedgerRow
    <3>2. QED BY <1>7, <2>1, <3>1 DEF RowTold
  <2>2. CASE u # a
        BY <1>7, <2>2 DEF MigrationInv, RowTold
  <2>3. QED BY <2>1, <2>2
<1>9. ledger' \in [MigrationUnits -> LedgerRows] /\ OneDirty'
      BY DEF MigrationInv, MigrationTypes, OneDirty
<1>10. QED BY <1>7, <1>8, <1>9 DEF a, s

\* The dirty mark is cleared for a unit whose SQL is committed.
LEMMA ClearEffect ==
    ASSUME MigrationInv, NEW m \in Migrators, migrator[m].pc = "clear",
           ledger' = [ledger EXCEPT ![UnitAt(m).unit] = [sum |-> UnitAt(m).sum, dirty |-> FALSE]],
           UNCHANGED schemaOf
    PROVE  /\ ledger' \in [MigrationUnits -> LedgerRows] /\ schemaOf' \in [MigrationUnits -> Seq(Nat)]
           /\ \A u \in MigrationUnits : RowTold(u)'
           /\ \A u \in MigrationUnits : ~ledger'[u].dirty
           /\ OneDirty'
           /\ ledger'[UnitAt(m).unit] = [sum |-> UnitAt(m).sum, dirty |-> FALSE]
           /\ \A u \in MigrationUnits : ledger[u].dirty \/ ledger'[u] = ledger[u]
<1> DEFINE a == UnitAt(m).unit
<1> DEFINE s == UnitAt(m).sum
<1> DEFINE row == [sum |-> s, dirty |-> FALSE]
<1>1. LedgerSeen(m) /\ migrator[m].i \in 1..Len(migrator[m].units)
      BY DEF MigrationInv, LedgerSeen
<1>2. a \in MigrationUnits /\ s \in Nat \ {0}
      BY <1>1, UnitAtType DEF MigrationInv
<1>3. row \in LedgerRows /\ ~row.dirty /\ row.sum = s /\ row # NoLedgerRow
      BY <1>2 DEF LedgerRows, NoLedgerRow
<1>4. ledger[a].dirty /\ schemaOf[a] = <<s>>
      BY <1>1 DEF LedgerSeen
<1>5. ledger' = [ledger EXCEPT ![a] = row]
      OBVIOUS
<1> HIDE DEF a, row, s
<1>6. /\ ledger'[a] = row /\ ledger' \in [MigrationUnits -> LedgerRows]
      /\ \A u \in MigrationUnits : u # a => ledger'[u] = ledger[u]
      BY <1>2, <1>3, <1>5 DEF MigrationInv, MigrationTypes
<1>7. \A u \in MigrationUnits : u # a => ~ledger[u].dirty
      BY <1>2, <1>4 DEF MigrationInv, OneDirty
<1>8. \A u \in MigrationUnits : ~ledger'[u].dirty
      BY <1>3, <1>6, <1>7
<1>9. ASSUME NEW u \in MigrationUnits PROVE RowTold(u)'
  <2>1. CASE u = a
        BY <1>3, <1>4, <1>6, <2>1 DEF RowTold
  <2>2. CASE u # a
        BY <1>6, <2>2 DEF MigrationInv, RowTold
  <2>3. QED BY <2>1, <2>2
<1>10. schemaOf' \in [MigrationUnits -> Seq(Nat)] /\ OneDirty'
      BY <1>8 DEF MigrationInv, MigrationTypes, OneDirty
<1>11. \A u \in MigrationUnits : ledger[u].dirty \/ ledger'[u] = ledger[u]
      BY <1>4, <1>6
<1>12. ledger'[a] = [sum |-> s, dirty |-> FALSE]
      BY <1>6 DEF row
<1>13. QED BY <1>6, <1>8, <1>9, <1>10, <1>11, <1>12 DEF a, s

\* The three statements about a unit keep the invariant.
LEMMA UnitStep ==
    ASSUME MigrationInv, NEW m \in Migrators,
           markMigrationDirty(m) \/ applyMigrationUnit(m) \/ clearDirtyMigration(m)
    PROVE  MigrationInv'
<1>0. /\ LedgerSeen(m) /\ migrator[m].pc \in {"mark", "apply", "clear"} /\ mlock = m
      /\ migrator[m] \in MigratorRecords /\ migrator[m].i \in 1..Len(migrator[m].units)
      BY DEF markMigrationDirty, applyMigrationUnit, clearDirtyMigration, MigrationInv, MigrationTypes,
             LedgerSeen, Locked, MigratorRecords
<1>1. UnitAt(m).unit \in MigrationUnits
      BY <1>0, UnitAtType DEF MigrationInv
<1>2. CASE EndRun(m) /\ UNCHANGED <<ledger, schemaOf>>
      BY <1>0, <1>2, SameLedger, RunEnds
<1>3. CASE markMigrationDirty(m) /\ ledger[UnitAt(m).unit] = NoLedgerRow
  <2>1. /\ ledger' = [ledger EXCEPT ![UnitAt(m).unit] = [sum |-> UnitAt(m).sum, dirty |-> TRUE]]
        /\ MigrateTo(m, "apply") /\ UNCHANGED <<mlock, schemaOf>> /\ migrator[m].pc = "mark"
        /\ ledger[UnitAt(m).unit] = NoLedgerRow
        BY <1>3 DEF markMigrationDirty
  <2>2. PICK x \in MigratorRecords :
              /\ migrator' = [migrator EXCEPT ![m] = x] /\ migrator'[m] = x
              /\ x.pc = "apply" /\ x.units = migrator[m].units /\ x.i = migrator[m].i
        BY <2>1, MovesOn DEF MigratorPcs
  <2>3. UnitAt(m)' = UnitAt(m)
        BY <2>2 DEF UnitAt
  <2>4. /\ ledger'[UnitAt(m).unit] = [sum |-> UnitAt(m).sum, dirty |-> TRUE]
        /\ schemaOf[UnitAt(m).unit] = << >>
        BY <1>1, <2>1 DEF MigrationInv, MigrationTypes, RowTold
  <2>5. ASSUME NEW k \in 1..(migrator[m].i - 1)
        PROVE  ledger'[migrator[m].units[k].unit] = [sum |-> migrator[m].units[k].sum, dirty |-> FALSE]
    <3>1. /\ migrator[m].units[k].unit \in MigrationUnits
          /\ ledger[migrator[m].units[k].unit] = [sum |-> migrator[m].units[k].sum, dirty |-> FALSE]
          /\ migrator[m].units[k].unit # UnitAt(m).unit
          BY <1>0, <2>1, UnitDone
    <3>2. QED BY <2>1, <3>1 DEF MigrationInv, MigrationTypes
  <2>6. LedgerSeen(m)'
        BY <1>0, <2>1, <2>2, <2>3, <2>4, <2>5, ZenonT(30) DEF LedgerSeen, Locked
  <2>7. QED BY <1>0, <2>1, <2>2, <2>6, MarkEffect, RunnerStep
<1>4. CASE applyMigrationUnit(m)
  <2>1. /\ schemaOf' = [schemaOf EXCEPT ![UnitAt(m).unit] = Append(@, UnitAt(m).sum)]
        /\ MigrateTo(m, "clear") /\ UNCHANGED <<mlock, ledger>> /\ migrator[m].pc = "apply"
        BY <1>4 DEF applyMigrationUnit
  <2>2. PICK x \in MigratorRecords :
              /\ migrator' = [migrator EXCEPT ![m] = x] /\ migrator'[m] = x
              /\ x.pc = "clear" /\ x.units = migrator[m].units /\ x.i = migrator[m].i
        BY <2>1, MovesOn DEF MigratorPcs
  <2>3. UnitAt(m)' = UnitAt(m)
        BY <2>2 DEF UnitAt
  <2>4. schemaOf'[UnitAt(m).unit] = <<UnitAt(m).sum>>
        BY <2>1, ApplyEffect
  <2>5. LedgerSeen(m)'
        BY <1>0, <2>1, <2>2, <2>3, <2>4, ZenonT(30) DEF LedgerSeen, Locked
  <2>6. QED BY <1>0, <2>1, <2>2, <2>5, ApplyEffect, RunnerStep
<1>5. CASE clearDirtyMigration(m) /\ ledger[UnitAt(m).unit] # NoLedgerRow
  <2>1. /\ ledger' = [ledger EXCEPT ![UnitAt(m).unit] = [sum |-> UnitAt(m).sum, dirty |-> FALSE]]
        /\ NextUnit(m) /\ UNCHANGED <<mlock, schemaOf>> /\ migrator[m].pc = "clear"
        BY <1>5 DEF clearDirtyMigration
  <2>2. PICK x \in MigratorRecords :
              /\ migrator' = [migrator EXCEPT ![m] = x] /\ migrator'[m] = x
              /\ x.pc = "unit" /\ x.units = migrator[m].units /\ x.i = migrator[m].i + 1
        BY <2>1, NextUnitType
  <2>3. /\ \A u \in MigrationUnits : ~ledger'[u].dirty
        /\ ledger'[UnitAt(m).unit] = [sum |-> UnitAt(m).sum, dirty |-> FALSE]
        /\ \A u \in MigrationUnits : ledger[u].dirty \/ ledger'[u] = ledger[u]
        BY <2>1, ClearEffect
  <2>4. ASSUME NEW k \in 1..(x.i - 1)
        PROVE  ledger'[x.units[k].unit] = [sum |-> x.units[k].sum, dirty |-> FALSE]
    <3>1. CASE k = migrator[m].i
          BY <2>2, <2>3, <3>1 DEF UnitAt
    <3>2. CASE k \in 1..(migrator[m].i - 1)
      <4>1. /\ ledger[migrator[m].units[k].unit] = [sum |-> migrator[m].units[k].sum, dirty |-> FALSE]
            /\ migrator[m].units[k].unit \in MigrationUnits
            /\ ~ledger[migrator[m].units[k].unit].dirty
            BY <1>0, <3>2, UnitDone
      <4>2. QED BY <2>2, <2>3, <4>1
    <3>3. k = migrator[m].i \/ k \in 1..(migrator[m].i - 1)
          BY <1>0, <2>2
    <3>4. QED BY <3>1, <3>2, <3>3
  <2>5. LedgerSeen(m)'
        BY <1>0, <2>1, <2>2, <2>3, <2>4 DEF LedgerSeen, Locked
  <2>6. QED BY <1>0, <2>1, <2>2, <2>5, ClearEffect, RunnerStep
<1>6. QED BY <1>2, <1>3, <1>4, <1>5 DEF markMigrationDirty, clearDirtyMigration

\* A statement that fails ends the run and leaves the row as it is.
LEMMA FailStep ==
    ASSUME MigrationInv, NEW m \in Migrators, StatementFails(m)
    PROVE  MigrationInv'
<1>0. EndRun(m) /\ migrator[m].pc # "idle" /\ LedgerSeen(m)
      BY DEF StatementFails, MigrationInv
<1>1. CASE UNCHANGED <<ledger, schemaOf>>
      BY <1>0, <1>1, SameLedger, RunEnds
<1>2. migrator[m].pc \in {"mark", "apply", "clear"} => mlock = m
      BY <1>0 DEF LedgerSeen, Locked
<1>3. CASE /\ migrator[m].pc = "mark" /\ UNCHANGED schemaOf
           /\ ledger' = [ledger EXCEPT ![UnitAt(m).unit] = [sum |-> UnitAt(m).sum, dirty |-> TRUE]]
      BY <1>0, <1>2, <1>3, MarkEffect, RunEnds
<1>4. CASE /\ migrator[m].pc = "apply" /\ UNCHANGED ledger
           /\ schemaOf' = [schemaOf EXCEPT ![UnitAt(m).unit] = Append(@, UnitAt(m).sum)]
      BY <1>0, <1>2, <1>4, ApplyEffect, RunEnds
<1>5. CASE /\ migrator[m].pc = "clear" /\ UNCHANGED schemaOf
           /\ ledger' = [ledger EXCEPT ![UnitAt(m).unit] = [sum |-> UnitAt(m).sum, dirty |-> FALSE]]
      BY <1>0, <1>2, <1>5, ClearEffect, RunEnds
<1>6. QED BY <1>1, <1>3, <1>4, <1>5 DEF StatementFails

INSTANCE FiniteSetTheorems

(* A release lists units of the ledger.                                      *)
LEMMA ListingType ==
    ASSUME NEW files \in Releases, NEW units \in migrationUnitsInRoots(files)
    PROVE  units \in Seq(UnitRecords)
<1> USE MigrationsAssumption
<1> DEFINE S == {MigrationUnit(f.service, f.version, f.sum) : f \in files}
<1> DEFINE n == Cardinality(files)
<1>1. n \in Nat
      BY FS_CardinalityType
<1>2. ASSUME NEW f \in files PROVE MigrationUnit(f.service, f.version, f.sum) \in UnitRecords
  <2>1. f.sum \in Nat \ {0} /\ f \in UNION Releases
        BY <1>2
  <2>2. <<f.service, f.version>> \in MigrationUnits
        BY <2>1 DEF MigrationUnits
  <2>3. QED BY <2>1, <2>2 DEF MigrationUnit, UnitRecords
<1>3. S \subseteq UnitRecords
      BY <1>2
<1>4. MigrationUnit(0, 0, PlatformSum) \in UnitRecords
      BY DEF MigrationUnit, UnitRecords, MigrationUnits, PlatformUnit
<1>5. PICK l \in [1..n -> S] : units = <<MigrationUnit(0, 0, PlatformSum)>> \o l
      BY DEF migrationUnitsInRoots
<1> HIDE DEF S, n
<1>6. l \in Seq(UnitRecords)
  <2>1. l \in [1..n -> UnitRecords]
        BY <1>3, <1>5
  <2>2. QED BY <1>1, <2>1
<1> DEFINE p == MigrationUnit(0, 0, PlatformSum)
<1> HIDE DEF p
<1>7. p \in UnitRecords /\ units = <<p>> \o l
      BY <1>4, <1>5 DEF p
<1>8. QED BY <1>6, <1>7

(* The steps before the first unit.                                          *)
LEMMA StartStep ==
    ASSUME MigrationInv, NEW m \in Migrators,
           ApplyMigrations(m) \/ acquireMigrationAdvisoryLock(m) \/ findDirtyMigration(m)
    PROVE  MigrationInv'
<1>0. UNCHANGED <<ledger, schemaOf>> /\ LedgerSeen(m)
      BY DEF ApplyMigrations, acquireMigrationAdvisoryLock, findDirtyMigration, MigrationInv
<1>1. CASE ApplyMigrations(m)
  <2>0. PICK files \in Releases : \E units \in migrationUnitsInRoots(files) :
           migrator' = [migrator EXCEPT ![m] = [pc |-> "lock", units |-> units, i |-> 1]]
        BY <1>1 DEF ApplyMigrations
  <2>1. PICK units \in migrationUnitsInRoots(files) :
           migrator' = [migrator EXCEPT ![m] = [pc |-> "lock", units |-> units, i |-> 1]]
        BY <2>0
  <2> DEFINE x == [pc |-> "lock", units |-> units, i |-> 1]
  <2>2. units \in Seq(UnitRecords)
        BY ListingType
  <2>3. x \in MigratorRecords /\ x.pc = "lock" /\ x.i = 1
        BY <2>2 DEF MigratorRecords, MigratorPcs
  <2>4. migrator' = [migrator EXCEPT ![m] = x] /\ mlock' = mlock /\ migrator[m].pc = "idle"
        BY <1>1, <2>1 DEF ApplyMigrations
  <2> HIDE DEF x
  <2>5. migrator'[m] = x
        BY <2>4 DEF MigrationInv, MigrationTypes
  <2>6. LedgerSeen(m)'
    <3>1. mlock # m
          BY <1>0, <2>4 DEF LedgerSeen, Locked
    <3>2. QED BY <2>3, <2>4, <2>5, <3>1, SeesFromStart
  <2>7. QED BY <1>0, <2>3, <2>4, <2>6, SameLedger, RunnerStep
<1>2. CASE EndRun(m) /\ migrator[m].pc # "idle"
      BY <1>0, <1>2, SameLedger, RunEnds
<1>3. CASE migrator[m].pc = "lock" /\ mlock = NoMigrator /\ mlock' = m /\ MigrateTo(m, "dirty")
  <2>1. PICK x \in MigratorRecords :
              /\ migrator' = [migrator EXCEPT ![m] = x] /\ migrator'[m] = x
              /\ x.pc = "dirty" /\ x.i = migrator[m].i
        BY <1>3, MovesOn, ZenonT(30) DEF MigratorPcs
  <2>2. LedgerSeen(m)'
    <3>1. migrator[m].i = 1
          BY <1>0, <1>3 DEF LedgerSeen
    <3>2. QED BY <1>3, <2>1, <3>1, SeesFromStart
  <2>3. QED BY <1>0, <1>3, <2>1, <2>2, SameLedger, RunnerStep
<1>4. CASE /\ migrator[m].pc = "dirty" /\ ~\E u \in MigrationUnits : ledger[u].dirty
           /\ MigrateTo(m, "unit") /\ UNCHANGED mlock
  <2>1. PICK x \in MigratorRecords :
              /\ migrator' = [migrator EXCEPT ![m] = x] /\ migrator'[m] = x
              /\ x.pc = "unit" /\ x.i = migrator[m].i
        BY <1>4, MovesOn, ZenonT(30) DEF MigratorPcs
  <2>2. mlock = m /\ migrator[m].i = 1
        BY <1>0, <1>4 DEF LedgerSeen, Locked
  <2>3. LedgerSeen(m)'
        BY <1>0, <1>4, <2>1, <2>2, SeesFromStart
  <2>4. QED BY <1>0, <1>4, <2>1, <2>3, SameLedger, RunnerStep
<1>5. QED BY <1>1, <1>2, <1>3, <1>4 DEF acquireMigrationAdvisoryLock, findDirtyMigration

\* Every step of every runner keeps the invariant.
LEMMA MigrationInvNext == MigrationInv /\ [MigrationsNext]_migrationVars => MigrationInv'
<1> SUFFICES ASSUME MigrationInv, [MigrationsNext]_migrationVars PROVE MigrationInv'
    OBVIOUS
<1>1. CASE UNCHANGED migrationVars
      BY <1>1 DEF migrationVars, MigrationInv, MigrationTypes, LedgerSeen, UnitAt, RowTold, OneDirty
<1>2. CASE MigrationsNext
      BY <1>2, StartStep, LookStep, UnitStep, FailStep DEF MigrationsNext
<1>3. QED BY <1>1, <1>2

(* The ledger tells what happened to the schema, with any number of runners, *)
(* releases and faults: the SQL of a unit is committed at most once and      *)
(* never without a row, a row that is not dirty means that just the SQL of   *)
(* its checksum was, at most one unit's outcome is unknown, and a run has    *)
(* done every unit before the one it is at in its own release's version.     *)
THEOREM MigrationsAreHonest == MigrationsSpec => []MigrationsHonest
<1>1. ASSUME MigrationInv PROVE MigrationsHonest
  <2>1. ASSUME NEW u \in MigrationUnits
        PROVE  /\ Len(schemaOf[u]) <= 1
               /\ schemaOf[u] # << >> => ledger[u] # NoLedgerRow
               /\ ledger[u] # NoLedgerRow /\ ~ledger[u].dirty => schemaOf[u] = <<ledger[u].sum>>
    <3>1. schemaOf[u] = << >> \/ schemaOf[u] = <<ledger[u].sum>>
          BY <1>1, <2>1 DEF MigrationInv, RowTold
    <3>2. Len(<< >>) <= 1 /\ Len(<<ledger[u].sum>>) <= 1
          OBVIOUS
    <3>3. ledger[u] = NoLedgerRow => schemaOf[u] = << >>
          BY <1>1, <2>1 DEF MigrationInv, RowTold
    <3>4. ledger[u] # NoLedgerRow /\ ~ledger[u].dirty => schemaOf[u] = <<ledger[u].sum>>
          BY <1>1, <2>1 DEF MigrationInv, RowTold
    <3>5. QED BY <3>1, <3>2, <3>3, <3>4
  <2>2. Cardinality({u \in MigrationUnits : ledger[u].dirty}) <= 1
    <3> DEFINE D == {u \in MigrationUnits : ledger[u].dirty}
    <3>1. CASE D = {}
          BY <3>1, FS_EmptySet
    <3>2. ASSUME NEW u \in D PROVE Cardinality(D) <= 1
      <4>1. D = {u}
            BY <1>1, <3>2 DEF MigrationInv, OneDirty
      <4>2. Cardinality({u}) = 1
            BY FS_Singleton
      <4>3. QED BY <4>1, <4>2
    <3>3. QED BY <3>1, <3>2
  <2>3. ASSUME NEW m \in Migrators, NEW k \in 1..(IF migrator[m].pc = "idle" THEN 0 ELSE migrator[m].i - 1)
        PROVE  ledger[migrator[m].units[k].unit] = [sum |-> migrator[m].units[k].sum, dirty |-> FALSE]
    <3>1. migrator[m].pc # "idle" /\ k \in 1..(migrator[m].i - 1)
          BY <2>3
    <3>2. QED BY <1>1, <3>1 DEF MigrationInv, LedgerSeen
  <2>4. QED BY <2>1, <2>2, <2>3 DEF MigrationsHonest
<1>2. QED BY <1>1, MigrationInvInit, MigrationInvNext, PTL DEF MigrationsSpec

=============================================================================
