---------------------------- MODULE Reservation ----------------------------
(***************************************************************************)
(* The quota reservations of the scheduler service: the handlers of        *)
(* reservation.go, as any number of requests run them at the same time.    *)
(*                                                                         *)
(* A handler that moves a reservation reads the record, checks the move    *)
(* against the state it has read, and then updates the record in a second  *)
(* access to the store, which does not look at the state again.  The       *)
(* update and its event are one transaction (UpdateWithEvent).             *)
(***************************************************************************)
EXTENDS Naturals, Sequences, JobStatus

CONSTANTS
    Reservations,   \* reservation ids
    Requests,       \* concurrent requests
    Overlap         \* reservations whose requests may overlap in time

ASSUME OverlapAssumption == Overlap \subseteq Reservations

VARIABLES
    state,      \* state of the record; "none" while there is no record
    version,    \* version of the record
    events,     \* states announced in the outbox, per reservation
    req         \* local state of every request

vars == <<state, version, events, req>>

Moves == {"committed", "released"}

Answers == {"none", "ok", "notFound", "conflict", "error"}

\* A request: being served or not, what it asks of which reservation, and
\* the answer to the last thing it asked.
Local == [pc : {"idle", "update"}, id : Reservations, want : Moves, answer : Answers]

Init ==
    /\ state = [i \in Reservations |-> "none"]
    /\ version = [i \in Reservations |-> 0]
    /\ events = [i \in Reservations |-> << >>]
    /\ req \in [Requests -> {l \in Local : l.pc = "idle" /\ l.answer = "none"}]

-----------------------------------------------------------------------------

\* The transaction of CreateWithEvent or UpdateWithEvent: the record, its
\* version and the outbox row.
Write(i, s) ==
    /\ state' = [state EXCEPT ![i] = s]
    /\ version' = [version EXCEPT ![i] = @ + 1]
    /\ events' = [events EXCEPT ![i] = Append(@, s)]

Answer(q, i, s, a) == req' = [req EXCEPT ![q] = [pc |-> "idle", id |-> i, want |-> s, answer |-> a]]

\* handleReservation: the record gets an id of its own.
Reserve(i) ==
    /\ state[i] = "none"
    /\ Write(i, "reserved")
    /\ UNCHANGED req

\* The requests that have read reservation i and not updated it yet.
Serving(i) == {q \in Requests : req[q].pc = "update" /\ req[q].id = i}

\* Mutant: a move that is no longer possible is answered as if it were done.
ReadForgiving(q, i, s) ==
    /\ req[q].pc = "idle"
    /\ i \in Overlap \/ Serving(i) = {}
    /\ \/ state[i] = "none" /\ Answer(q, i, s, "notFound")
       \/ /\ state[i] # "none"
          /\ ~transitionAllowed(state[i], s)
          /\ Answer(q, i, s, "ok")
       \/ /\ transitionAllowed(state[i], s)
          /\ req' = [req EXCEPT ![q] = [pc |-> "update", id |-> i, want |-> s, answer |-> "none"]]
    /\ UNCHANGED <<state, version, events>>

\* The first half of handleReservationTransition.
Read(q, i, s) ==
    /\ req[q].pc = "idle"
    /\ i \in Overlap \/ Serving(i) = {}
    /\ \/ state[i] = "none" /\ Answer(q, i, s, "notFound")
       \/ state[i] = s /\ Answer(q, i, s, "ok")
       \/ /\ state[i] \notin {"none", s}
          /\ ~transitionAllowed(state[i], s)
          /\ Answer(q, i, s, "conflict")
       \/ /\ transitionAllowed(state[i], s)
          /\ req' = [req EXCEPT ![q] = [pc |-> "update", id |-> i, want |-> s, answer |-> "none"]]
    /\ UNCHANGED <<state, version, events>>

\* The second half: updateRecordWithEvent.
Update(q) ==
    /\ req[q].pc = "update"
    /\ Write(req[q].id, req[q].want)
    /\ Answer(q, req[q].id, req[q].want, "ok")

\* Mutant: the record is updated and its event published in two steps, and the
\* second one fails.
UpdateErrorBetween(q) ==
    /\ req[q].pc = "update"
    /\ state' = [state EXCEPT ![req[q].id] = req[q].want]
    /\ version' = [version EXCEPT ![req[q].id] = @ + 1]
    /\ Answer(q, req[q].id, req[q].want, "error")
    /\ UNCHANGED events

\* The transaction is rolled back, or only its acknowledgement is lost; or the
\* process dies on either side of it.
UpdateError(q) ==
    /\ req[q].pc = "update"
    /\ Write(req[q].id, req[q].want) \/ UNCHANGED <<state, version, events>>
    /\ Answer(q, req[q].id, req[q].want, "error")

Next ==
    \/ \E i \in Reservations : Reserve(i)
    \/ \E q \in Requests : \/ \E i \in Reservations, s \in Moves : Read(q, i, s)
                           \/ Update(q)
                           \/ UpdateError(q)

Spec == Init /\ [][Next]_vars

-----------------------------------------------------------------------------
(* Properties.                                                             *)

\* Every variable has its type.
TypeOK ==
    /\ state \in [Reservations -> ReservationStates]
    /\ version \in [Reservations -> Nat]
    /\ events \in [Reservations -> Seq(ReservationStates)]
    /\ req \in [Requests -> Local]

\* However requests overlap and fail, the record and the outbox agree: there
\* is one event for every version, and the state is the one announced last.
\* CreateWithEvent and UpdateWithEvent write both in one transaction.
LedgerFollowsEvents ==
    \A i \in Reservations :
        /\ version[i] = Len(events[i])
        /\ state[i] = IF events[i] = << >> THEN "none" ELSE events[i][Len(events[i])]

\* A request that was told its move is done can rely on it: the move has been
\* announced, by this request or by another one.
OkIsAnnounced ==
    \A q \in Requests : req[q].answer = "ok" =>
        \E n \in DOMAIN events[req[q].id] : events[req[q].id][n] = req[q].want

\* The quota of a reservation is released exactly once: it is announced at
\* most once.
ReleasedOnce ==
    \A i \in Reservations :
        \A m, n \in DOMAIN events[i] : events[i][m] = "released" /\ events[i][n] = "released" => m = n

Ledger == INSTANCE QuotaLedger WITH
    Reservations <- Reservations \ Overlap,
    ledger <- [i \in Reservations \ Overlap |-> events[i]]

\* Where the requests for a reservation come one after the other, the
\* handlers keep the ledger of the reservation, failed requests included.
ImplementsLedger == Ledger!Spec
=============================================================================
