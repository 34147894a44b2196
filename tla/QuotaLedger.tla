----------------------------- MODULE QuotaLedger -----------------------------
(***************************************************************************)
(* What a quota reservation promises: it is made, may be committed, and is *)
(* given back once, and each of these moves is announced once.             *)
(***************************************************************************)
EXTENDS Naturals, Sequences

CONSTANT Reservations

VARIABLE ledger \* the moves of each reservation, in order

Init == ledger = [i \in Reservations |-> << >>]

\* The last move of a reservation.
Standing(i) == IF ledger[i] = << >> THEN "none" ELSE ledger[i][Len(ledger[i])]

Record(i, move) == ledger' = [ledger EXCEPT ![i] = Append(@, move)]

Reserve(i) == Standing(i) = "none" /\ Record(i, "reserved")

Commit(i) == Standing(i) = "reserved" /\ Record(i, "committed")

\* Nothing comes after a release.
Release(i) == Standing(i) \in {"reserved", "committed"} /\ Record(i, "released")

Next == \E i \in Reservations : Reserve(i) \/ Commit(i) \/ Release(i)

Spec == Init /\ [][Next]_ledger
=============================================================================
