----------------------------- MODULE Migrations -----------------------------
(***************************************************************************)
(* The migration runner (platform/migrate.go).  Jobs of several releases   *)
(* run it against one database, at the same time or one after another.     *)
(*                                                                         *)
(* A unit is the pair of its service and its version; the platform's own   *)
(* schema is the unit PlatformUnit.  A checksum stands for the SQL itself. *)
(* Every statement may fail, with or without having taken effect; the      *)
(* session ends with the runner, and the server frees its advisory lock.   *)
(***************************************************************************)
EXTENDS Naturals, Sequences, FiniteSets

CONSTANTS Releases,           \* sets of files [service, version, sum, path]
          MigrationServices,  \* serviceMigrationDirs, as numbers in their order
          PlatformSum,        \* checksum of the embedded schema
          Migrators,          \* runners
          NoMigrator,
          MaxMigrations,      \* bound on starts
          MaxMigrationFaults  \* bound on failed statements

ASSUME MigrationsAssumption ==
    /\ \A files \in Releases : IsFiniteSet(files) /\ \A f \in files : f.sum \in Nat \ {0}
    /\ PlatformSum \in Nat \ {0}
    /\ NoMigrator \notin Migrators

VARIABLES ledger,   \* platform_schema_migrations: unit -> row
          schemaOf, \* unit -> the SQL that has been committed, in order
          mlock,    \* who holds the advisory lock
          migrator, \* where each runner is
          mstarts, mfaults

migrationVars == <<ledger, schemaOf, mlock, migrator, mstarts, mfaults>>

PlatformUnit == <<0, 0>>
MigrationUnits == {PlatformUnit} \cup {<<f.service, f.version>> : f \in UNION Releases}
NoLedgerRow == [sum |-> 0, dirty |-> FALSE]
MigratorIdle == [pc |-> "idle", units |-> << >>, i |-> 1]

MigrationsInit ==
    /\ ledger = [u \in MigrationUnits |-> NoLedgerRow]
    /\ schemaOf = [u \in MigrationUnits |-> << >>]
    /\ mlock = NoMigrator
    /\ migrator = [m \in Migrators |-> MigratorIdle]
    /\ mstarts = 0 /\ mfaults = 0

-----------------------------------------------------------------------------
(***************************************************************************)
(* What a release brings.                                                  *)
(***************************************************************************)

\* The roots may name one directory several times: a path counts once.
\* Two files of one version, or a service without any, are an error.
validateDiscoveredServiceMigrations(files) ==
    /\ \A f, g \in files : f.service = g.service /\ f.version = g.version => f = g
    /\ \A s \in MigrationServices : \E f \in files : f.service = s

MigrationUnit(service, version, sum) == [unit |-> <<service, version>>, sum |-> sum]

unitBefore(a, b) ==
    \/ a.unit[1] < b.unit[1]
    \/ a.unit[1] = b.unit[1] /\ a.unit[2] < b.unit[2]

\* The platform first, then by service and version.  The files of a valid
\* release have just one such listing.
migrationUnitsInRoots(files) ==
    LET units == {MigrationUnit(f.service, f.version, f.sum) : f \in files}
        listings == {l \in [1..Cardinality(files) -> units] :
                        \A i, j \in 1..Cardinality(files) : i < j => unitBefore(l[i], l[j])}
    IN  {<<MigrationUnit(0, 0, PlatformSum)>> \o l : l \in listings}

-----------------------------------------------------------------------------
(***************************************************************************)
(* A run.                                                                  *)
(***************************************************************************)

UnitAt(m) == migrator[m].units[migrator[m].i]
MigrateTo(m, pc) == migrator' = [migrator EXCEPT ![m].pc = pc]
NextUnit(m) == migrator' = [migrator EXCEPT ![m].pc = "unit", ![m].i = @ + 1]

\* The runner returns: it gives the lock back, or its session ends.
EndRun(m) ==
    /\ migrator' = [migrator EXCEPT ![m] = MigratorIdle]
    /\ mlock' = IF mlock = m THEN NoMigrator ELSE mlock

ApplyMigrations(m) ==
    /\ migrator[m].pc = "idle" /\ mstarts < MaxMigrations
    /\ mstarts' = mstarts + 1
    /\ \E files \in Releases :
          /\ validateDiscoveredServiceMigrations(files)
          /\ \E units \in migrationUnitsInRoots(files) :
                migrator' = [migrator EXCEPT ![m] = [pc |-> "lock", units |-> units, i |-> 1]]
    /\ UNCHANGED <<ledger, schemaOf, mlock, mfaults>>

\* pg_try_advisory_lock does not wait.
acquireMigrationAdvisoryLock(m) ==
    /\ migrator[m].pc = "lock"
    /\ IF mlock = NoMigrator THEN mlock' = m /\ MigrateTo(m, "dirty")
       ELSE EndRun(m)
    /\ UNCHANGED <<ledger, schemaOf, mstarts, mfaults>>

findDirtyMigration(m) ==
    /\ migrator[m].pc = "dirty"
    /\ IF \E u \in MigrationUnits : ledger[u].dirty THEN EndRun(m)
       ELSE MigrateTo(m, "unit") /\ UNCHANGED mlock
    /\ UNCHANGED <<ledger, schemaOf, mstarts, mfaults>>

\* A unit with a row of the same checksum is skipped; with another checksum,
\* or a dirty row, it ends the run.
migrationAlreadyApplied(m) ==
    /\ migrator[m].pc = "unit" /\ migrator[m].i <= Len(migrator[m].units)
    /\ LET row == ledger[UnitAt(m).unit]
       IN  \/ row = NoLedgerRow /\ MigrateTo(m, "mark") /\ UNCHANGED mlock
           \/ row # NoLedgerRow /\ ~row.dirty /\ row.sum = UnitAt(m).sum /\ NextUnit(m) /\ UNCHANGED mlock
           \/ row # NoLedgerRow /\ (row.dirty \/ row.sum # UnitAt(m).sum) /\ EndRun(m)
    /\ UNCHANGED <<ledger, schemaOf, mstarts, mfaults>>

\* As a bug would: the row is left for the update at the end.
MarkLater(m) ==
    /\ migrator[m].pc = "mark"
    /\ MigrateTo(m, "apply")
    /\ UNCHANGED <<ledger, schemaOf, mlock, mstarts, mfaults>>

\* The insert fails when there is a row by now.
markMigrationDirty(m) ==
    /\ migrator[m].pc = "mark"
    /\ IF ledger[UnitAt(m).unit] # NoLedgerRow THEN EndRun(m) /\ UNCHANGED ledger
       ELSE /\ ledger' = [ledger EXCEPT ![UnitAt(m).unit] = [sum |-> UnitAt(m).sum, dirty |-> TRUE]]
            /\ MigrateTo(m, "apply") /\ UNCHANGED mlock
    /\ UNCHANGED <<schemaOf, mstarts, mfaults>>

\* The SQL of the unit, in a transaction of its own.
applyMigrationUnit(m) ==
    /\ migrator[m].pc = "apply"
    /\ schemaOf' = [schemaOf EXCEPT ![UnitAt(m).unit] = Append(@, UnitAt(m).sum)]
    /\ MigrateTo(m, "clear")
    /\ UNCHANGED <<ledger, mlock, mstarts, mfaults>>

\* The update has to find its row.
clearDirtyMigration(m) ==
    /\ migrator[m].pc = "clear"
    /\ IF ledger[UnitAt(m).unit] = NoLedgerRow THEN EndRun(m) /\ UNCHANGED ledger
       ELSE /\ ledger' = [ledger EXCEPT ![UnitAt(m).unit] = [sum |-> UnitAt(m).sum, dirty |-> FALSE]]
            /\ NextUnit(m) /\ UNCHANGED mlock
    /\ UNCHANGED <<schemaOf, mstarts, mfaults>>

\* All units are done; the summary is printed and the lock given back.
MigrationSummary(m) ==
    /\ migrator[m].pc = "unit" /\ migrator[m].i > Len(migrator[m].units)
    /\ EndRun(m)
    /\ UNCHANGED <<ledger, schemaOf, mstarts, mfaults>>

\* A statement fails without effect, or it took effect and the runner is not
\* told: the time of the run is over, the connection breaks, the job is killed.
StatementFails(m) ==
    /\ migrator[m].pc # "idle" /\ mfaults < MaxMigrationFaults
    /\ mfaults' = mfaults + 1
    /\ EndRun(m)
    /\ \/ UNCHANGED <<ledger, schemaOf>>
       \/ /\ migrator[m].pc = "mark" /\ ledger[UnitAt(m).unit] = NoLedgerRow
          /\ ledger' = [ledger EXCEPT ![UnitAt(m).unit] = [sum |-> UnitAt(m).sum, dirty |-> TRUE]]
          /\ UNCHANGED schemaOf
       \/ /\ migrator[m].pc = "apply"
          /\ schemaOf' = [schemaOf EXCEPT ![UnitAt(m).unit] = Append(@, UnitAt(m).sum)]
          /\ UNCHANGED ledger
       \/ /\ migrator[m].pc = "clear" /\ ledger[UnitAt(m).unit] # NoLedgerRow
          /\ ledger' = [ledger EXCEPT ![UnitAt(m).unit] = [sum |-> UnitAt(m).sum, dirty |-> FALSE]]
          /\ UNCHANGED schemaOf
    /\ UNCHANGED mstarts

MigrationsNext ==
    \E m \in Migrators :
        \/ ApplyMigrations(m) \/ acquireMigrationAdvisoryLock(m) \/ findDirtyMigration(m)
        \/ migrationAlreadyApplied(m) \/ markMigrationDirty(m) \/ applyMigrationUnit(m)
        \/ clearDirtyMigration(m) \/ MigrationSummary(m) \/ StatementFails(m)

MigrationsSpec == MigrationsInit /\ [][MigrationsNext]_migrationVars

MigrationsTypeOK ==
    /\ \A u \in MigrationUnits : ledger[u].dirty \in BOOLEAN
    /\ mlock \in Migrators \cup {NoMigrator}
    /\ \A m \in Migrators : migrator[m].pc \in {"idle", "lock", "dirty", "unit", "mark", "apply", "clear"}

-----------------------------------------------------------------------------
\* The ledger tells what happened to the schema, whatever runs of whatever
\* releases overlap, fail or are killed: the SQL of a unit is committed at
\* most once and never without a row; a row that is not dirty means that just
\* the SQL of its checksum was; the SQL of a unit runs only when every unit
\* its release puts before it is done in that release's own version; nothing
\* runs after a unit whose outcome is not known; and a run that reports
\* success leaves every unit of its release done.
MigrationsHonest ==
    /\ \A u \in MigrationUnits :
          /\ Len(schemaOf[u]) <= 1
          /\ schemaOf[u] # << >> => ledger[u] # NoLedgerRow
          /\ ledger[u] # NoLedgerRow /\ ~ledger[u].dirty => schemaOf[u] = <<ledger[u].sum>>
    /\ Cardinality({u \in MigrationUnits : ledger[u].dirty}) <= 1
    /\ \A m \in Migrators :
          \A k \in 1..(IF migrator[m].pc = "idle" THEN 0 ELSE migrator[m].i - 1) :
             ledger[migrator[m].units[k].unit] = [sum |-> migrator[m].units[k].sum, dirty |-> FALSE]
=============================================================================
