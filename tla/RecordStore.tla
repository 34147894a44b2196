---------------------------- MODULE RecordStore -----------------------------
(***************************************************************************)
(* The Postgres record store under the generic handlers: numbered ids,     *)
(* merge updates without a version check, and the event every write leaves *)
(* in the outbox in the same transaction.                                  *)
(*                                                                         *)
(* One resource; an id is its number and a payload the set of fields it    *)
(* holds.  A statement is a step and so is a commit: in between the        *)
(* transaction holds the rows it wrote, and others wait for them but read  *)
(* what is committed.  An event is stamped with the time it is built at,   *)
(* and the outbox lists the events by their stamps; the clocks of the      *)
(* replicas are taken to agree.                                            *)
(***************************************************************************)
EXTENDS Naturals, FiniteSets, FiniteSetsExt

CONSTANTS
    Clients,
    MaxId,      \* bound: numbers NextID may reach
    Times,      \* the numbers among them that are readings of the clock
    Named,      \* bound: the ids clients name themselves
    MaxEvents,  \* bound: events built
    NoRow       \* no row

ASSUME StoreAssumption ==
    MaxId \in Nat /\ Times \subseteq 1..MaxId /\ Named \subseteq 1..MaxId /\ MaxEvents \in Nat

VARIABLES
    records,    \* id -> payload or NoRow, as committed
    highWater,  \* platform_id_seq
    told,       \* id -> the event about it the outbox lists last: its stamp, and what it says
    clock,      \* the last stamp
    op,         \* client -> the handler it is in, and its transaction
    untold,     \* history: ids a cascade last deleted, about which no event says so
    given       \* history: how often NextID has handed out an id

storeVars == <<records, highWater, told, clock, op, untold, given>>

RecordIds == 1..MaxId
StoreIdle == [pc |-> "idle", id |-> 0]

StoreInit ==
    /\ records = [i \in RecordIds |-> NoRow]
    /\ highWater = 0
    /\ told = [i \in RecordIds |-> [at |-> 0, says |-> NoRow]]
    /\ clock = 0
    /\ op = [c \in Clients |-> StoreIdle]
    /\ untold = {}
    /\ given = [i \in RecordIds |-> 0]

StoreGoto(c, pc, id) == op' = [op EXCEPT ![c] = [pc |-> pc, id |-> id]]
RecordExists(i) == records[i] # NoRow

\* The rows a client's transaction has written.
RowsHeld(c) ==
    {i \in RecordIds : \/ op[c].pc \in {"cascade", "commit"} /\ i = op[c].id
                       \/ op[c].pc = "commit" /\ i \in op[c].also}

\* A statement waits for the transaction that holds its row.
RowFree(i) == \A d \in Clients : i \notin RowsHeld(d)

\* The event is built once the statements have run, from what they left.
BuildEvent(c, i, says, also) ==
    /\ clock < MaxEvents
    /\ clock' = clock + 1
    /\ op' = [op EXCEPT ![c] = [pc |-> "commit", id |-> i, says |-> says, also |-> also, at |-> clock + 1]]

WriteRecord(c, i, says) == RowFree(i) /\ BuildEvent(c, i, says, {})

\* The rows and the event become visible together.
CommitRecord(c) ==
    /\ op[c].pc = "commit"
    /\ LET t == op[c] IN
       /\ records' = [i \in RecordIds |-> IF i = t.id THEN t.says ELSE IF i \in t.also THEN NoRow ELSE records[i]]
       /\ told' = IF t.at > told[t.id].at THEN [told EXCEPT ![t.id] = [at |-> t.at, says |-> t.says]] ELSE told
       /\ untold' = (untold \ {t.id}) \cup t.also
    /\ StoreGoto(c, "idle", 0)
    /\ UNCHANGED <<highWater, clock, given>>

\* As if the event were published on its own, before the commit.
AbortPublished(c) ==
    /\ op[c].pc = "commit"
    /\ told' = [told EXCEPT ![op[c].id] = [at |-> op[c].at, says |-> op[c].says]]
    /\ StoreGoto(c, "idle", 0)
    /\ UNCHANGED <<records, highWater, clock, untold, given>>

\* A statement or the commit fails, or the replica dies: all is rolled back.
AbortRecord(c) ==
    /\ op[c] # StoreIdle
    /\ StoreGoto(c, "idle", 0)
    /\ UNCHANGED <<records, highWater, told, clock, untold, given>>

---------------------------------------------------------------------------
\* As if the id were only the successor of the greatest row.
NextIDScan == Max({0} \cup {i \in RecordIds : RecordExists(i)}) + 1

\* allocateNextID: above every row and above the high-water mark.
allocateNextID == Max({highWater} \cup {i \in RecordIds : RecordExists(i)}) + 1

\* NextID, and its fallback to the clock in nanoseconds when the transaction
\* fails, which leaves the high-water mark alone.  Counting never catches up
\* with the clock.
NextID(c) ==
    /\ op[c] = StoreIdle
    /\ \/ /\ allocateNextID \in RecordIds \ Times
          /\ highWater' = allocateNextID
          /\ StoreGoto(c, "create", allocateNextID)
       \/ \E n \in Times :
          /\ \A i \in RecordIds : RecordExists(i) \/ given[i] > 0 => n > i
          /\ StoreGoto(c, "create", n)
          /\ UNCHANGED highWater
    /\ given' = [given EXCEPT ![op'[c].id] = @ + 1]
    /\ UNCHANGED <<records, told, clock, untold>>

\* An insert waits for the transaction that holds the id, and then conflicts
\* with the row it left.
createPostgresRecord(c, i) ==
    /\ RowFree(i)
    /\ \/ ~RecordExists(i) /\ WriteRecord(c, i, {c})
       \/ RecordExists(i) /\ StoreGoto(c, "idle", 0) /\ UNCHANGED clock

\* payload || patch: each client writes a field of its own.
updatePostgresRecord(c, i) == RecordExists(i) /\ WriteRecord(c, i, records[i] \cup {c})

---------------------------------------------------------------------------
(* The handlers.                                                           *)

handleCRUDCreate(c) ==
    /\ op[c].pc = "create"
    /\ createPostgresRecord(c, op[c].id)
    /\ UNCHANGED <<records, highWater, told, untold, given>>

\* A client may name the id it creates.
CreateNamed(c, i) ==
    /\ op[c] = StoreIdle
    /\ createPostgresRecord(c, i)
    /\ UNCHANGED <<records, highWater, told, untold, given>>

\* PUT on an id without a row falls back to a create, in a transaction of its own.
handleCRUDUpdate(c, i) ==
    /\ op[c] = StoreIdle
    /\ \/ updatePostgresRecord(c, i)
       \/ ~RecordExists(i) /\ StoreGoto(c, "create", i) /\ UNCHANGED clock
    /\ UNCHANGED <<records, highWater, told, untold, given>>

\* UpsertWithEvent: update, else insert, else update what another inserted;
\* a row deleted in between leaves an error.
UpsertRecord(c, i) ==
    /\ op[c] = StoreIdle
    /\ \/ updatePostgresRecord(c, i)
       \/ ~RecordExists(i) /\ StoreGoto(c, "upsert", i) /\ UNCHANGED clock
    /\ UNCHANGED <<records, highWater, told, untold, given>>

UpsertInsert(c) ==
    /\ op[c].pc = "upsert"
    /\ LET i == op[c].id IN
       /\ RowFree(i)
       /\ \/ ~RecordExists(i) /\ createPostgresRecord(c, i)
          \/ RecordExists(i) /\ StoreGoto(c, "again", i) /\ UNCHANGED clock
    /\ UNCHANGED <<records, highWater, told, untold, given>>

UpsertAgain(c) ==
    /\ op[c].pc = "again"
    /\ LET i == op[c].id IN
       \/ updatePostgresRecord(c, i)
       \/ ~RecordExists(i) /\ StoreGoto(c, "idle", 0) /\ UNCHANGED clock
    /\ UNCHANGED <<records, highWater, told, untold, given>>

DeleteRecord(c, i) ==
    /\ op[c] = StoreIdle
    /\ RecordExists(i)
    /\ WriteRecord(c, i, NoRow)
    /\ UNCHANGED <<records, highWater, told, untold, given>>

\* RunInTx: a cascade deletes a row, then one that depends on it, and emits
\* the event of the first alone.
DeleteCascade(c, i) ==
    /\ op[c] = StoreIdle
    /\ RecordExists(i) /\ RowFree(i)
    /\ StoreGoto(c, "cascade", i)
    /\ UNCHANGED <<records, highWater, told, clock, untold, given>>

DeleteDependent(c, j) ==
    /\ op[c].pc = "cascade"
    /\ RecordExists(j) /\ RowFree(j)
    /\ BuildEvent(c, op[c].id, NoRow, {j})
    /\ UNCHANGED <<records, highWater, told, untold, given>>

---------------------------------------------------------------------------
StoreNext ==
    \E c \in Clients :
        \/ NextID(c) \/ handleCRUDCreate(c) \/ UpsertInsert(c) \/ UpsertAgain(c)
        \/ CommitRecord(c) \/ AbortRecord(c)
        \/ \E i \in Named : CreateNamed(c, i) \/ handleCRUDUpdate(c, i) \/ UpsertRecord(c, i)
        \/ \E i \in RecordIds : DeleteRecord(c, i) \/ DeleteCascade(c, i) \/ DeleteDependent(c, i)

StoreSpec == StoreInit /\ [][StoreNext]_storeVars

---------------------------------------------------------------------------
(* Properties.                                                             *)

StoreTypeOK ==
    /\ \A i \in RecordIds : records[i] = NoRow \/ records[i] \subseteq Clients
    /\ highWater \in 0..MaxId
    /\ \A i \in RecordIds : given[i] <= MaxId
    /\ \A c \in Clients : op[c].pc \in {"idle", "create", "upsert", "again", "cascade", "commit"}
    /\ \A i \in RecordIds : told[i].at <= clock
    /\ untold \subseteq RecordIds

\* CreateRecordWithEvent (crud.go:257-261), "a crash between the two cannot
\* lose the event": whatever transactions overlap, wait for each other's rows
\* or are rolled back, the event about an id that the outbox lists last says
\* what its row holds, so a read model built from the events in their order
\* is right; only the rows a cascade took along are not told of.
EventsExplainRows == \A i \in RecordIds \ untold : told[i].says = records[i]

\* NextID (store.go:49-56), "an id is never reused after the highest record
\* is deleted": no id is handed out twice, clients that never used theirs
\* and fallback ids included.
IdsNeverReused == \A i \in RecordIds : given[i] <= 1

=============================================================================
